----------------------------- MODULE HeaderIndex ----------------------------
(***************************************************************************)
(* The bytes of a header of header.go: index.Bytes, which lays the entries  *)
(* of an index out in a store, ReadHeader, which finds them there again,    *)
(* and seekFile of rpm_read.go, which looks for the header behind the       *)
(* signatures.                                                              *)
(*                                                                          *)
(* The store is a sequence of bytes, since alignment, the NULs that end     *)
(* strings and the room a file leaves are about bytes.  The index in front  *)
(* of it, four int32 an entry, is a record for each tag.                    *)
(***************************************************************************)
EXTENDS Integers, Sequences, FiniteSets, GoMap

CONSTANTS
  Tags,        \* the tags given to index.Add
  GoValues,    \* what callers make their entries of: a type and a value of it
  Kinds        \* kinds of header: 62, the signatures, and 63, immutable

RpmTypes == {"int16", "int32", "string", "binary", "stringArray"}
Strings == {"string", "stringArray"}

Byte == 0 .. 255

ASSUME TagsAssumption == Tags \subseteq Int /\ Kinds \subseteq Nat

ASSUME ValuesAssumption ==
  \A v \in GoValues :
    \/ v.type \in {"int16", "int32"} /\ v.value \in Seq(Int)
    \/ v.type \in {"string", "binary"} /\ v.value \in Seq(Byte)
    \/ v.type = "stringArray" /\ v.value \in Seq(Seq(Byte))

VARIABLES
  h, entries,                \* the index
  pc,                        \* "add", "entries" in Bytes, "done", "read"
  todo, offsets, entryData,  \* Bytes: tags left, offsets, the store so far
  image,                     \* what Bytes returned
  read                       \* what ReadHeader returned

vars == <<h, entries, pc, todo, offsets, entryData, image, read>>

-----------------------------------------------------------------------------
(* Entries: what EntryInt16 and the others make of Go values.               *)

\* binary.Write in big endian, a negative number in two's complement.
Int16Bytes(v) == <<(v \div 256) % 256, v % 256>>
Int32Bytes(v) == Int16Bytes(v \div 65536) \o Int16Bytes(v)

\* The concatenation of the elements.
Joined(s) ==
  LET upTo[i \in 0 .. Len(s)] == IF i = 0 THEN << >> ELSE upTo[i - 1] \o s[i]
  IN  upTo[Len(s)]

Entry(type, count, data) == [rpmtype |-> type, count |-> count, data |-> data]

EntryInt16(vs) == Entry("int16", Len(vs), Joined([i \in DOMAIN vs |-> Int16Bytes(vs[i])]))
EntryInt32(vs) == Entry("int32", Len(vs), Joined([i \in DOMAIN vs |-> Int32Bytes(vs[i])]))
EntryString(v) == Entry("string", 1, v \o <<0>>)
EntryBytes(v) == Entry("binary", Len(v), v)

\* Strings with a NUL in between and one at the end; a lone one for none.
EntryStringSlice(vs) ==
  Entry("stringArray", Len(vs),
        IF vs = << >> THEN <<0>> ELSE Joined([i \in DOMAIN vs |-> vs[i] \o <<0>>]))

EntryOf(v) ==
  CASE v.type = "int16" -> EntryInt16(v.value)
    [] v.type = "int32" -> EntryInt32(v.value)
    [] v.type = "string" -> EntryString(v.value)
    [] v.type = "binary" -> EntryBytes(v.value)
    [] v.type = "stringArray" -> EntryStringSlice(v.value)

\* An empty array of strings has a byte of data, which is not read.
AsRead(e) == IF e.rpmtype = "stringArray" /\ e.count = 0 THEN [e EXCEPT !.data = << >>] ELSE e

\* The entries given to index.Add: made of Go values, since IndexEntry has no
\* exported field, or, when a package was read to be written again, as ReadHeader
\* gave them.
EntriesOf(V) == {EntryOf(v) : v \in V} \cup {AsRead(EntryOf(v)) : v \in V}
Values == EntriesOf(GoValues)

-----------------------------------------------------------------------------
(* Bytes.                                                                   *)

\* boundaries: only integers are aligned.
Boundary(type) == IF type = "int16" THEN 2 ELSE IF type = "int32" THEN 4 ELSE 1

\* Fault variant of PadLen: the remainder itself, as in seekFile.
PadLenRemainder(type, offset) == offset % Boundary(type)

\* The number of zero bytes pad writes at this offset.
PadLen(type, offset) ==
  IF offset % Boundary(type) = 0 THEN 0 ELSE Boundary(type) - (offset % Boundary(type))

Zeros(n) == [i \in 1 .. n |-> 0]

\* The content of the eigenHeader entry, 16 bytes.
EigenData(kind, n) ==
  Int32Bytes(kind) \o Int32Bytes(7) \o Int32Bytes(-16 * (n + 1)) \o Int32Bytes(16)

NoImage == [count |-> 0, body |-> << >>, eigen |-> [tag |-> 0, offset |-> 0],
            index |-> EmptyMap]
NotRead == [got |-> 0, ok |-> FALSE, entries |-> EmptyMap]

\* newIndex.
Init ==
  /\ h \in Kinds
  /\ entries = EmptyMap
  /\ pc = "add"
  /\ todo = {}
  /\ offsets = EmptyMap
  /\ entryData = << >>
  /\ image = NoImage
  /\ read = NotRead

Add(t, e) ==
  /\ pc = "add"
  /\ entries' = Put(entries, t, e)
  /\ UNCHANGED <<h, pc, todo, offsets, entryData, image, read>>

\* Bytes sorts the tags.
BytesStart ==
  /\ pc = "add"
  /\ pc' = "entries"
  /\ todo' = DOMAIN entries
  /\ UNCHANGED <<h, entries, offsets, entryData, image, read>>

\* Fault variant of BytesEntry: the offset is taken in front of the padding.
BytesEntryEarly(t) ==
  /\ pc = "entries"
  /\ t \in todo
  /\ \A u \in todo : t <= u
  /\ LET padded == entryData \o Zeros(PadLen(entries[t].rpmtype, Len(entryData)))
     IN  /\ offsets' = Put(offsets, t, Len(entryData))
         /\ entryData' = padded \o entries[t].data
  /\ todo' = todo \ {t}
  /\ UNCHANGED <<h, entries, pc, image, read>>

\* One turn of the loop: padding, the offset, the data.
BytesEntry(t) ==
  /\ pc = "entries"
  /\ t \in todo
  /\ \A u \in todo : t <= u
  /\ LET padded == entryData \o Zeros(PadLen(entries[t].rpmtype, Len(entryData)))
     IN  /\ offsets' = Put(offsets, t, Len(padded))
         /\ entryData' = padded \o entries[t].data
  /\ todo' = todo \ {t}
  /\ UNCHANGED <<h, entries, pc, image, read>>

\* Behind the loop: the eigenHeader's data, then the parts are put together.
BytesEnd ==
  /\ pc = "entries"
  /\ todo = {}
  /\ pc' = "done"
  /\ LET n == Cardinality(DOMAIN entries)
         body == entryData \o EigenData(h, n)
     IN  image' = [count |-> n + 1,
                   body |-> body,
                   eigen |-> [tag |-> h, offset |-> Len(body) - 16],
                   index |-> [t \in DOMAIN entries |->
                                [rpmtype |-> entries[t].rpmtype,
                                 count |-> entries[t].count,
                                 offset |-> offsets[t]]]]
  /\ UNCHANGED <<h, entries, todo, offsets, entryData, read>>

-----------------------------------------------------------------------------
(* ReadHeader, of a file that may end within the store: io.LimitReader then  *)
(* gives less than was asked for, and no error.                             *)

\* Fault variant of EntrySize: the count is taken for a number of bytes.
EntrySizeOne(type) == 1

\* indexEntrySize.
EntrySize(type) == IF type = "int16" THEN 2 ELSE IF type = "int32" THEN 4 ELSE 1

\* readIndexEntry's check.  For an array of strings the count is that of the
\* strings, so that less than its data is asked for.
TooSmall(i, body) == Len(body) < i.offset + EntrySize(i.rpmtype) * i.count

Least(S) == CHOOSE x \in S : \A y \in S : x <= y

\* Where the string that begins behind offset p ends, or p if there is no NUL.
StringEnd(body, p) ==
  LET nuls == {k \in p + 1 .. Len(body) : body[k] = 0}
  IN  IF nuls = {} THEN p ELSE Least(nuls)

\* Fault variant of StringsEnd: one string is left out.
StringsEndShort(body, p, count) ==
  LET end[k \in 0 .. count] == IF k <= 1 THEN p ELSE StringEnd(body, end[k - 1])
  IN  end[count]

\* Where so many strings end.
StringsEnd(body, p, count) ==
  LET end[k \in 0 .. count] == IF k = 0 THEN p ELSE StringEnd(body, end[k - 1])
  IN  end[count]

\* readIndexEntry: the data of an entry.  A string without a NUL is all the
\* rest, an array without one ends there.
ReadData(i, body) ==
  LET end == CASE i.rpmtype = "string" ->
                    IF StringEnd(body, i.offset) = i.offset THEN Len(body)
                    ELSE StringEnd(body, i.offset)
               [] i.rpmtype = "stringArray" -> StringsEnd(body, i.offset, i.count)
               [] OTHER -> i.offset + EntrySize(i.rpmtype) * i.count
  IN  SubSeq(body, i.offset + 1, end)

\* readHeaderIndex: the kind that is expected, and the eigenHeader last.
IndexFits(expected) ==
  image.eigen.tag = expected /\ image.eigen.offset + 16 = Len(image.body)

\* ReadHeader, when got bytes of the store are there.
ReadHeader(expected, got) ==
  /\ pc = "done"
  /\ pc' = "read"
  /\ LET body == SubSeq(image.body, 1, got)
         index == image.index
     IN  \/ /\ IndexFits(expected)
            /\ \A t \in DOMAIN index : ~TooSmall(index[t], body)
            /\ read' = [got |-> got, ok |-> TRUE,
                        entries |-> [t \in DOMAIN index |->
                          Entry(index[t].rpmtype, index[t].count, ReadData(index[t], body))]]
         \/ /\ ~IndexFits(expected) \/ \E t \in DOMAIN index : TooSmall(index[t], body)
            /\ read' = [got |-> got, ok |-> FALSE, entries |-> EmptyMap]
  /\ UNCHANGED <<h, entries, todo, offsets, entryData, image>>

-----------------------------------------------------------------------------
(* What the readers of rpm_read.go make of an entry that was read.          *)

\* binary.Read in big endian, of signed numbers.
Int16At(data, k) ==
  LET u == 256 * data[k] + data[k + 1]
  IN  IF u < 32768 THEN u ELSE u - 65536
Int32At(data, k) == 65536 * Int16At(data, k) + 256 * data[k + 2] + data[k + 3]

\* toInt16Array, toInt32Array and, but for the sign, toUint16Array, toUint32Array.
ToInt16Array(e) == [i \in 1 .. e.count |-> Int16At(e.data, 2 * i - 1)]
ToInt32Array(e) == [i \in 1 .. e.count |-> Int32At(e.data, 4 * i - 3)]

\* toString: the data without its last byte.
ToString(e) == SubSeq(e.data, 1, Len(e.data) - 1)

\* The first NUL behind position p, or the end of the data.
Stop(data, p) ==
  LET nuls == {k \in p + 1 .. Len(data) : data[k] = 0}
  IN  IF nuls = {} THEN Len(data) + 1 ELSE Least(nuls)

\* Fault variant of ToStringArray: the data is not moved on.
ToStringArrayFirst(e) == [i \in 1 .. e.count |-> SubSeq(e.data, 1, Stop(e.data, 0) - 1)]

\* toStringArray: what is in front of each NUL, or of the end.
ToStringArray(e) ==
  LET stop[i \in 0 .. e.count] == IF i = 0 THEN 0 ELSE Stop(e.data, stop[i - 1])
  IN  [i \in 1 .. e.count |-> SubSeq(e.data, stop[i - 1] + 1, stop[i] - 1)]

Next ==
  \/ \E t \in Tags, e \in Values : Add(t, e)
  \/ BytesStart
  \/ \E t \in Tags : BytesEntry(t)
  \/ BytesEnd
  \/ \E expected \in Kinds, got \in 0 .. Len(image.body) : ReadHeader(expected, got)

Spec == Init /\ [][Next]_vars

-----------------------------------------------------------------------------
(* The signatures in the file: behind the lead's 96 bytes, padded by Write,  *)
(* skipped by seekFile.                                                     *)

\* The bytes of a header: magic and two int32, the index, the store.
HeaderLen == 16 + 16 * image.count + Len(image.body)

\* Write: padding to a multiple of 8.
Padded(len) == len + ((8 - (len % 8)) % 8)

\* Fault variant of SeekFile: without the test of the new offset.
SeekFileUnchecked(offset) == offset + (offset % 8)

\* seekFile: the offset it goes to, or -1, an error.
SeekFile(offset) ==
  IF offset % 8 = 0 \/ offset + (offset % 8) = (offset \div 8) * 8 + 8
  THEN offset + (offset % 8)
  ELSE -1

-----------------------------------------------------------------------------
(* Properties.                                                              *)

\* The end of an entry's data in the store.
End(t) == offsets[t] + Len(entries[t].data)

\* The entries follow one another in the order of their tags, none over
\* another; an integer begins at a multiple of its size, which "some versions
\* of rpm" want, with no more padding than that takes; nothing else is padded,
\* since "other versions fail when non-integers are aligned" (header.go:38).
Layout ==
  \A t \in DOMAIN offsets :
    LET b == Boundary(entries[t].rpmtype)
    IN  /\ offsets[t] % b = 0
        /\ \A u \in DOMAIN offsets : u < t => End(u) <= offsets[t]
        /\ offsets[t] < b \/ \E u \in DOMAIN offsets : u < t /\ offsets[t] < End(u) + b

\* At the offset the index gives for an entry, its data is in the store, and
\* stays there while others are added (Bytes, pad).
StoreHolds ==
  \A t \in DOMAIN offsets :
    /\ t \in DOMAIN entries
    /\ End(t) <= Len(entryData)
    /\ \A k \in 1 .. Len(entries[t].data) :
         entryData[offsets[t] + k] = entries[t].data[k]

\* Go values without a NUL in a string, which would be taken for its end.
PlainValues ==
  {v \in GoValues :
     /\ v.type = "string" => \A k \in DOMAIN v.value : v.value[k] # 0
     /\ v.type = "stringArray" =>
          \A i \in DOMAIN v.value : \A k \in DOMAIN v.value[i] : v.value[i][k] # 0}

\* The tags of the entries of such values.
Plain == {t \in DOMAIN entries : entries[t] \in EntriesOf(PlainValues)}

\* A header that is there to its end is read back as it was: every entry,
\* with its type, its count and its data (Bytes, then ReadHeader).
ReadsBack ==
  pc = "read" /\ read.ok /\ read.got = Len(image.body) =>
    \A t \in Plain : t \in DOMAIN read.entries /\ read.entries[t] = AsRead(entries[t])

\* The Go values that are taken out of a header that was read make the entries
\* it was written with: the conversions of the readers undo those of the
\* writers, whatever the sign, and for empty strings and arrays too.
ConvertsBack ==
  pc = "read" /\ read.ok /\ read.got = Len(image.body) =>
    \A t \in Plain :
      LET e == read.entries[t]
          w == CASE e.rpmtype = "int16" -> EntryInt16(ToInt16Array(e))
                 [] e.rpmtype = "int32" -> EntryInt32(ToInt32Array(e))
                 [] e.rpmtype = "string" -> EntryString(ToString(e))
                 [] e.rpmtype = "stringArray" -> EntryStringSlice(ToStringArray(e))
                 [] OTHER -> EntryBytes(e.data)
      IN  entries[t] \in {w, AsRead(w)}

\* A header cut short is refused, or loses nothing but the ends of strings:
\* no number is made of bytes that are not there (readIndexEntry's check).
CutReads ==
  pc = "read" /\ read.ok =>
    /\ DOMAIN read.entries = DOMAIN entries
    /\ \A t \in DOMAIN entries :
         LET data == read.entries[t].data
         IN  /\ data = SubSeq(entries[t].data, 1, Len(data))
             /\ entries[t].rpmtype \notin Strings => data = entries[t].data

\* seekFile goes to where Write put the header, or gives up; it does not give
\* up when an int32 is the last of the signatures, as the payload's size is in
\* those Write makes itself.
SeekFinds ==
  pc = "done" =>
    LET end == 96 + HeaderLen
    IN  /\ SeekFile(end) \in {96 + Padded(HeaderLen), -1}
        /\ \A t \in DOMAIN entries :
             entries[t].rpmtype = "int32" /\ (\A u \in DOMAIN entries : u <= t) =>
               SeekFile(end) # -1
=============================================================================
