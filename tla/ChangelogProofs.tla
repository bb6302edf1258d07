--------------------------- MODULE ChangelogProofs ---------------------------
(***************************************************************************)
(* Proofs about the changelog of Metadata: what the caller sees when it    *)
(* writes is what is read, and no column stays behind to hide the next change.*)
(*                                                                         *)
(* LogInv: the object's pointers lead to entries, the caller holds none or the*)
(* object's, and the header last written has the columns of what they lead to.*)
(***************************************************************************)
EXTENDS Metadata, Lemmas, SequenceTheorems

(* Types and columns.                                                       *)

\* Cardinality is the same in the instance of Changelog.
LEMMA SameCardinality == \A S : Log!Cardinality(S) = Cardinality(S)
BY DEF Log!Cardinality, Cardinality

\* A time that was read as an int32 is the uint32 that was written.
LEMMA TimeComesBack == \A t \in Log!Times : Log!Unsigned(Log!Signed(t)) = t
<1> SUFFICES ASSUME NEW t \in Log!Times PROVE Log!Unsigned(Log!Signed(t)) = t
  OBVIOUS
<1>1. Words \in Nat /\ Words > 0 /\ t \in Nat /\ t < Words
  BY ChangelogsAssumption DEF Log!Times
<1>2. t % Words = t
  BY <1>1
<1>3. (t - Words) % Words = t
  BY <1>1
<1> QED
  BY <1>2, <1>3 DEF Log!Unsigned, Log!Signed

\* The names and texts of changelogs, and the entries there can be.
Strings ==
  NewTexts \cup (UNION {{c[i].name : i \in DOMAIN c} : c \in Changelogs})
  \cup (UNION {{c[i].text : i \in DOMAIN c} : c \in Changelogs})
  \cup (UNION {UNION {Range(o[a].values) : a \in DOMAIN o} : o \in ColumnOverrides})

\* Entries of a changelog, in memory.
Entries == [time : Log!Times, name : Strings, text : Strings]

\* What a column has.
ValuesOf(a) == IF a = "time" THEN Log!Times ELSE Strings

\* Columns that a header may have.
ColumnsOK(m) ==
  /\ DOMAIN m \subseteq {"time", "name", "text"}
  /\ \A a \in DOMAIN m :
       m[a] = [type |-> m[a].type, values |-> m[a].values] /\ m[a].values \in Seq(ValuesOf(a))

\* The caller's changelogs and columns are of these types.
LEMMA ChangelogsTyped ==
  /\ \A c \in Changelogs : c \in Seq(Entries)
  /\ \A o \in ColumnOverrides : ColumnsOK(o)
<1>1. ASSUME NEW c \in Changelogs PROVE c \in Seq(Entries)
  <2>1. ASSUME NEW i \in DOMAIN c PROVE c[i] \in Entries
    <3>1. PICK e : e = c[i]
      OBVIOUS
    <3>2. e = [time |-> e.time, name |-> e.name, text |-> e.text] /\ e.time \in Log!Times
      BY <3>1, ChangelogsAssumption
    <3>3. e.name \in Strings /\ e.text \in Strings
      BY <3>1 DEF Strings
    <3> QED
      BY <3>1, <3>2, <3>3 DEF Entries
  <2>2. c \in Seq(Range(c))
    BY ChangelogsAssumption
  <2>3. c = [i \in 1 .. Len(c) |-> c[i]] /\ Len(c) \in Nat
    BY <2>2
  <2>4. \A i \in 1 .. Len(c) : c[i] \in Entries
    BY <2>1, <2>2
  <2> QED
    BY <2>3, <2>4
<1>2. ASSUME NEW o \in ColumnOverrides PROVE ColumnsOK(o)
  <2>1. SUFFICES ASSUME NEW a \in DOMAIN o
                 PROVE  o[a] = [type |-> o[a].type, values |-> o[a].values] /\ o[a].values \in Seq(ValuesOf(a))
    BY ChangelogsAssumption DEF ColumnsOK
  <2>2. PICK v : v = o[a].values
    OBVIOUS
  <2>3. v \in Seq(Range(v)) /\ (a = "time" => v \in Seq(Log!Times))
        /\ o[a] = [type |-> o[a].type, values |-> v]
    BY <2>2, ChangelogsAssumption
  <2>4. Range(v) \subseteq Strings
    BY <2>2 DEF Strings
  <2>5. v \in Seq(Strings)
    <3>1. v = [i \in 1 .. Len(v) |-> v[i]] /\ Len(v) \in Nat /\ \A i \in 1 .. Len(v) : v[i] \in Range(v)
      BY <2>3 DEF Range
    <3> QED
      BY <2>4, <3>1
  <2> QED
    BY <2>2, <2>3, <2>5 DEF ValuesOf
<1> QED
  BY <1>1, <1>2

\* The columns of a changelog.
LEMMA LogColumns ==
  ASSUME NEW l \in Seq(Entries), NEW m, m = Log!AddToIndex(l)
  PROVE  /\ ColumnsOK(m)
         /\ DOMAIN m = IF l = << >> THEN {} ELSE {"time", "name", "text"}
         /\ l # << >> =>
              /\ m["time"].type = "int32" /\ m["name"].type = "stringArray"
              /\ m["text"].type = "stringArray"
              /\ m["time"].values = [i \in 1 .. Len(l) |-> l[i].time]
              /\ m["name"].values = [i \in 1 .. Len(l) |-> l[i].name]
              /\ m["text"].values = [i \in 1 .. Len(l) |-> l[i].text]
<1>1. CASE l = << >>
  <2>1. m = [k \in {} |-> k]
    BY <1>1 DEF Log!AddToIndex, Log!EmptyMap
  <2>2. DOMAIN m = {}
    BY <2>1
  <2> QED
    BY <1>1, <2>2 DEF ColumnsOK
<1>2. CASE l # << >>
  <2>1. DOMAIN l = 1 .. Len(l) /\ Len(l) \in Nat
        /\ \A i \in 1 .. Len(l) : l[i].time \in Log!Times /\ l[i].name \in Strings /\ l[i].text \in Strings
    <3>1. \A i \in 1 .. Len(l) : l[i] \in Entries
      OBVIOUS
    <3>2. \A e \in Entries : e.time \in Log!Times /\ e.name \in Strings /\ e.text \in Strings
      BY DEF Entries
    <3> QED
      BY <3>1, <3>2
  <2>2. DOMAIN Log!Types = {"time", "name", "text"} /\ Log!Types["time"] = "int32"
        /\ Log!Types["name"] = "stringArray" /\ Log!Types["text"] = "stringArray"
    BY DEF Log!Types
  <2>3. m = [a \in DOMAIN Log!Types |->
               [type |-> Log!Types[a], values |-> [i \in 1 .. Len(l) |-> l[i][a]]]]
    BY <1>2, <2>1 DEF Log!AddToIndex, Log!Column
  <2>4. /\ DOMAIN m = {"time", "name", "text"}
        /\ m["time"] = [type |-> "int32", values |-> [i \in 1 .. Len(l) |-> l[i].time]]
        /\ m["name"] = [type |-> "stringArray", values |-> [i \in 1 .. Len(l) |-> l[i].name]]
        /\ m["text"] = [type |-> "stringArray", values |-> [i \in 1 .. Len(l) |-> l[i].text]]
    BY <2>2, <2>3
  <2>5. /\ [i \in 1 .. Len(l) |-> l[i].time] \in Seq(Log!Times)
        /\ [i \in 1 .. Len(l) |-> l[i].name] \in Seq(Strings)
        /\ [i \in 1 .. Len(l) |-> l[i].text] \in Seq(Strings)
    BY <2>1
  <2>6. ColumnsOK(m)
    <3>1. PICK t, n, x : /\ t = [i \in 1 .. Len(l) |-> l[i].time]
                         /\ n = [i \in 1 .. Len(l) |-> l[i].name]
                         /\ x = [i \in 1 .. Len(l) |-> l[i].text]
      OBVIOUS
    <3>2. t \in Seq(Log!Times) /\ n \in Seq(Strings) /\ x \in Seq(Strings)
      BY <2>5, <3>1
    <3>3. m["time"] = [type |-> "int32", values |-> t] /\ m["name"] = [type |-> "stringArray", values |-> n]
          /\ m["text"] = [type |-> "stringArray", values |-> x]
      BY <2>4, <3>1
    <3> QED
      BY <2>4, <3>2, <3>3 DEF ColumnsOK, ValuesOf
  <2> QED
    BY <1>2, <2>4, <2>6
<1> QED
  BY <1>1, <1>2

-----------------------------------------------------------------------------
(* Pointers, and reading columns back.                                      *)

\* The inductive invariant of the changelog.
LogInv ==
  /\ entries \in Seq(Entries)
  /\ changelog \in Seq(Nat)
  /\ \A i \in 1 .. Len(changelog) : changelog[i] \in 1 .. Len(entries)
  /\ held \in {<< >>, changelog}
  /\ ColumnsOK(customTags)
  /\ logPhase = "header" =>
       /\ logIndex = Log!AddEntries(Log!AddToIndex(Log!Deref(changelog)), customTags)
       /\ logWritten.custom = customTags
       /\ logWritten.seen \in {<< >>, Log!Deref(changelog)}
  /\ SeenIsRead
  /\ NothingHides

\* The entries behind pointers.
LEMMA DerefIs ==
  ASSUME NEW c \in Seq(Nat), entries \in Seq(Entries), \A i \in 1 .. Len(c) : c[i] \in 1 .. Len(entries)
  PROVE  /\ Log!Deref(c) \in Seq(Entries) /\ Len(Log!Deref(c)) = Len(c)
         /\ \A i \in 1 .. Len(c) : Log!Deref(c)[i] = entries[c[i]]
<1>1. DOMAIN c = 1 .. Len(c) /\ Len(c) \in Nat
  OBVIOUS
<1>2. Log!Deref(c) = [i \in 1 .. Len(c) |-> entries[c[i]]]
  BY <1>1 DEF Log!Deref
<1>3. \A i \in 1 .. Len(c) : entries[c[i]] \in Entries
  OBVIOUS
<1>4. PICK d : d = [i \in 1 .. Len(c) |-> entries[c[i]]]
  OBVIOUS
<1>5. d \in Seq(Entries) /\ Len(d) = Len(c) /\ \A i \in 1 .. Len(c) : d[i] = entries[c[i]]
  BY <1>1, <1>3, <1>4
<1> QED
  BY <1>2, <1>4, <1>5

\* The new pointers are behind those there are.
LEMMA FreshIs ==
  ASSUME entries \in Seq(Entries), NEW e \in Seq(Entries), NEW h, h = entries \o e
  PROVE  /\ h \in Seq(Entries) /\ Len(h) = Len(entries) + Len(e)
         /\ Log!Fresh(Len(e)) \in Seq(Nat) /\ Len(Log!Fresh(Len(e))) = Len(e)
         /\ \A i \in 1 .. Len(e) : /\ Log!Fresh(Len(e))[i] \in 1 .. Len(h)
                                   /\ h[Log!Fresh(Len(e))[i]] = e[i]
<1>1. Len(entries) \in Nat /\ Len(e) \in Nat
  OBVIOUS
<1>2. Log!Fresh(Len(e)) = [i \in 1 .. Len(e) |-> Len(entries) + i]
  BY DEF Log!Fresh
<1>3. PICK f : f = [i \in 1 .. Len(e) |-> Len(entries) + i]
  OBVIOUS
<1>4. f \in Seq(Nat) /\ Len(f) = Len(e) /\ \A i \in 1 .. Len(e) : f[i] = Len(entries) + i
  BY <1>1, <1>3
<1>5. /\ h \in Seq(Entries) /\ Len(h) = Len(entries) + Len(e)
      /\ \A i \in 1 .. Len(h) : h[i] = IF i <= Len(entries) THEN entries[i] ELSE e[i - Len(entries)]
  BY ConcatProperties
<1>6. ASSUME NEW i \in 1 .. Len(e) PROVE f[i] \in 1 .. Len(h) /\ h[f[i]] = e[i]
  <2>1. f[i] = Len(entries) + i /\ f[i] \in 1 .. Len(h) /\ ~(f[i] <= Len(entries))
        /\ f[i] - Len(entries) = i
    BY <1>1, <1>4, <1>5
  <2> QED
    BY <1>5, <2>1
<1> QED
  BY <1>2, <1>3, <1>4, <1>5, <1>6

\* The columns are there, with their types and one length.
Fits(m) ==
  /\ DOMAIN m = {"time", "name", "text"}
  /\ m["time"].type = "int32" /\ m["name"].type = "stringArray" /\ m["text"].type = "stringArray"
  /\ Len(m["time"].values) = Len(m["name"].values)
  /\ Len(m["name"].values) = Len(m["text"].values)

\* What toChangelog makes of an index.
LEMMA ToChangelogIs ==
  Log!ToChangelog =
    IF Fits(logIndex)
    THEN [i \in DOMAIN logIndex.time.values |->
           [time |-> Log!Unsigned(Log!Signed(logIndex.time.values[i])),
            name |-> logIndex.name.values[i], text |-> logIndex.text.values[i]]]
    ELSE << >>
<1> DEFINE fits == /\ DOMAIN logIndex = DOMAIN Log!Types
                   /\ \A a \in DOMAIN logIndex : logIndex[a].type = Log!Types[a]
                   /\ Cardinality({Len(logIndex[a].values) : a \in DOMAIN logIndex}) = 1
           all == [i \in DOMAIN logIndex.time.values |->
                    [time |-> Log!Unsigned(Log!Signed(logIndex.time.values[i])),
                     name |-> logIndex.name.values[i], text |-> logIndex.text.values[i]]]
<1>1. Log!ToChangelog = IF fits THEN all ELSE << >>
  BY SameCardinality, Zenon DEF Log!ToChangelog
<1>2. fits <=> Fits(logIndex)
  <2>1. DOMAIN Log!Types = {"time", "name", "text"} /\ Log!Types["time"] = "int32"
        /\ Log!Types["name"] = "stringArray" /\ Log!Types["text"] = "stringArray"
    BY DEF Log!Types
  <2>2. SUFFICES ASSUME DOMAIN logIndex = {"time", "name", "text"} PROVE fits <=> Fits(logIndex)
    BY <2>1 DEF Fits
  <2>3. PICK a, b, c : /\ a = Len(logIndex["time"].values) /\ b = Len(logIndex["name"].values)
                       /\ c = Len(logIndex["text"].values)
    OBVIOUS
  <2>4. {Len(logIndex[d].values) : d \in DOMAIN logIndex} = {a, b, c}
    BY <2>2, <2>3
  <2>5. Cardinality({a, b, c}) = 1 <=> a = b /\ b = c
    BY OneOfThree
  <2>6. Cardinality({Len(logIndex[d].values) : d \in DOMAIN logIndex}) = 1 <=> a = b /\ b = c
    BY <2>4, <2>5
  <2> QED
    BY <2>1, <2>2, <2>3, <2>6 DEF Fits
<1> HIDE DEF fits, all
<1>3. Log!ToChangelog = IF Fits(logIndex) THEN all ELSE << >>
  BY <1>1, <1>2
<1> QED
  BY <1>3 DEF all

\* From columns that fit, entry by entry.
LEMMA FittingIsRead ==
  ASSUME ColumnsOK(logIndex), Fits(logIndex), NEW T, T = Log!ToChangelog
  PROVE  /\ T \in Seq(Entries)
         /\ \A a \in {"time", "name", "text"} : Len(logIndex[a].values) = Len(T)
         /\ \A i \in 1 .. Len(T) : /\ T[i].time = logIndex["time"].values[i]
                                   /\ T[i].name = logIndex["name"].values[i]
                                   /\ T[i].text = logIndex["text"].values[i]
<1>1. PICK t, n, x : t = logIndex["time"].values /\ n = logIndex["name"].values /\ x = logIndex["text"].values
  OBVIOUS
<1>2. t \in Seq(Log!Times) /\ n \in Seq(Strings) /\ x \in Seq(Strings)
  BY <1>1 DEF ColumnsOK, ValuesOf, Fits
<1>3. Len(t) = Len(n) /\ Len(n) = Len(x)
  BY <1>1 DEF Fits
<1>4. T = [i \in 1 .. Len(t) |-> [time |-> t[i], name |-> n[i], text |-> x[i]]]
  <2>1. DOMAIN t = 1 .. Len(t) /\ \A i \in 1 .. Len(t) : t[i] \in Log!Times
    BY <1>2
  <2>2. T = [i \in DOMAIN t |-> [time |-> Log!Unsigned(Log!Signed(t[i])), name |-> n[i], text |-> x[i]]]
    BY <1>1, ToChangelogIs
  <2>3. \A i \in 1 .. Len(t) : Log!Unsigned(Log!Signed(t[i])) = t[i]
    BY <2>1, TimeComesBack
  <2> QED
    BY <2>1, <2>2, <2>3
<1>5. \A i \in 1 .. Len(t) : [time |-> t[i], name |-> n[i], text |-> x[i]] \in Entries
  <2>1. \A i \in 1 .. Len(t) : t[i] \in Log!Times /\ n[i] \in Strings /\ x[i] \in Strings
    BY <1>2, <1>3
  <2> QED
    BY <2>1 DEF Entries
<1>6. /\ T \in Seq(Entries) /\ Len(T) = Len(t)
      /\ \A i \in 1 .. Len(T) : T[i].time = t[i] /\ T[i].name = n[i] /\ T[i].text = x[i]
  <2>1. Len(t) \in Nat
    BY <1>2
  <2> QED
    BY <1>4, <1>5, <2>1
<1> QED
  BY <1>1, <1>3, <1>6

\* What a Write leaves, as far as the columns go.
LEMMA IndexColumns ==
  ASSUME NEW l \in Seq(Entries), NEW o, ColumnsOK(o), NEW i, i = Log!AddEntries(Log!AddToIndex(l), o)
  PROVE  /\ ColumnsOK(i)
         /\ DOMAIN o \subseteq DOMAIN i /\ \A a \in DOMAIN o : i[a] = o[a]
<1>1. PICK m : m = Log!AddToIndex(l)
  OBVIOUS
<1>2. ColumnsOK(m)
  BY <1>1, LogColumns
<1>3. /\ DOMAIN i = DOMAIN m \cup DOMAIN o
      /\ \A a \in DOMAIN i : i[a] = IF a \in DOMAIN o THEN o[a] ELSE m[a]
  BY <1>1 DEF Log!AddEntries
<1>4. ColumnsOK(i)
  BY <1>2, <1>3 DEF ColumnsOK
<1> QED
  BY <1>3, <1>4

\* Without custom tags, the changelog that was written is read.
LEMMA WrittenIsRead ==
  ASSUME NEW l \in Seq(Entries), NEW o, DOMAIN o = {},
         logIndex = Log!AddEntries(Log!AddToIndex(l), o)
  PROVE  Log!ToChangelog = l
<1>1. PICK m : m = Log!AddToIndex(l)
  OBVIOUS
<1>2. ColumnsOK(o)
  BY DEF ColumnsOK
<1>3. ColumnsOK(logIndex) /\ DOMAIN logIndex = DOMAIN m /\ \A a \in DOMAIN m : logIndex[a] = m[a]
  BY <1>1, <1>2, IndexColumns DEF Log!AddEntries
<1>4. PICK T : T = Log!ToChangelog
  OBVIOUS
<1>5. CASE l = << >>
  <2>1. DOMAIN logIndex = {}
    BY <1>1, <1>3, <1>5, LogColumns
  <2>2. ~Fits(logIndex)
    BY <2>1 DEF Fits
  <2> QED
    BY <1>5, <2>2, ToChangelogIs
<1>6. CASE l # << >>
  <2>1. /\ DOMAIN m = {"time", "name", "text"}
        /\ m["time"].type = "int32" /\ m["name"].type = "stringArray" /\ m["text"].type = "stringArray"
        /\ m["time"].values = [i \in 1 .. Len(l) |-> l[i].time]
        /\ m["name"].values = [i \in 1 .. Len(l) |-> l[i].name]
        /\ m["text"].values = [i \in 1 .. Len(l) |-> l[i].text]
    BY <1>1, <1>6, LogColumns
  <2>2. /\ DOMAIN logIndex = {"time", "name", "text"}
        /\ logIndex["time"] = m["time"] /\ logIndex["name"] = m["name"] /\ logIndex["text"] = m["text"]
    BY <1>3, <2>1
  <2>3. /\ Len(m["time"].values) = Len(l) /\ Len(m["name"].values) = Len(l)
        /\ Len(m["text"].values) = Len(l)
    BY <2>1
  <2>4. Fits(logIndex)
    BY <2>1, <2>2, <2>3 DEF Fits
  <2>5. /\ T \in Seq(Entries) /\ Len(T) = Len(l)
        /\ \A i \in 1 .. Len(T) : /\ T[i].time = m["time"].values[i]
                                  /\ T[i].name = m["name"].values[i]
                                  /\ T[i].text = m["text"].values[i]
    BY <1>3, <1>4, <2>2, <2>3, <2>4, FittingIsRead
  <2>6. ASSUME NEW i \in 1 .. Len(l) PROVE T[i] = l[i]
    <3>1. PICK d, e : d = T[i] /\ e = l[i]
      OBVIOUS
    <3>2. d \in Entries /\ e \in Entries
      BY <2>5, <3>1
    <3>3. d.time = e.time /\ d.name = e.name /\ d.text = e.text
      BY <2>1, <2>5, <3>1
    <3> QED
      BY <3>1, <3>2, <3>3 DEF Entries
  <2> QED
    BY <1>4, <2>5, <2>6, SeqEqual
<1> QED
  BY <1>5, <1>6

-----------------------------------------------------------------------------
(* The invariant, along the steps, and the properties that follow.          *)

\* The object starts without a changelog, and so does the caller.
LEMMA InitLog == Log!Init => LogInv
<1> SUFFICES ASSUME Log!Init PROVE LogInv
  OBVIOUS
<1>1. /\ entries = << >> /\ changelog = << >> /\ held = << >> /\ logPhase = "open"
      /\ customTags = [k \in {} |-> k]
  BY DEF Log!Init, Log!EmptyMap
<1>2. ColumnsOK(customTags)
  <2>1. DOMAIN customTags = {}
    BY <1>1
  <2> QED
    BY <2>1 DEF ColumnsOK
<1>3. SeenIsRead /\ NothingHides
  BY <1>1 DEF SeenIsRead, Log!SeenIsRead, NothingHides, Log!NothingHides
<1> QED
  BY <1>1, <1>2, <1>3 DEF LogInv

\* While nothing is written or read, pointers and columns are all that counts.
LEMMA OpenLog ==
  ASSUME entries' \in Seq(Entries), changelog' \in Seq(Nat),
         \A i \in 1 .. Len(changelog') : changelog'[i] \in 1 .. Len(entries'),
         held' \in {<< >>, changelog'}, ColumnsOK(customTags'), logPhase' = "open"
  PROVE  LogInv'
<1>1. SeenIsRead' /\ NothingHides'
  BY DEF SeenIsRead, Log!SeenIsRead, NothingHides, Log!NothingHides
<1> QED
  BY <1>1 DEF LogInv

\* SetChangelog makes new pointers, to new entries, which the caller holds too.
LEMMA SetChangelogLog == \A c \in Changelogs : LogInv /\ Log!SetChangelog(c) => LogInv'
<1> SUFFICES ASSUME NEW c \in Changelogs, LogInv, Log!SetChangelog(c) PROVE LogInv'
  OBVIOUS
<1>1. c \in Seq(Entries) /\ entries \in Seq(Entries) /\ ColumnsOK(customTags)
  BY ChangelogsTyped DEF LogInv
<1>2. /\ entries' = entries \o c /\ changelog' = Log!Fresh(Len(c)) /\ held' = changelog'
      /\ logPhase' = "open" /\ customTags' = customTags
  BY DEF Log!SetChangelog
<1>3. /\ entries' \in Seq(Entries) /\ changelog' \in Seq(Nat) /\ Len(changelog') = Len(c)
      /\ \A i \in 1 .. Len(c) : changelog'[i] \in 1 .. Len(entries')
  BY <1>1, <1>2, FreshIs
<1> QED
  BY <1>1, <1>2, <1>3, OpenLog

\* The caller's edits go through a pointer it holds, to an entry of the object.
LEMMA EditLog ==
  \A i \in DOMAIN held, text \in NewTexts : LogInv /\ Log!Edit(i, text) => LogInv'
<1> SUFFICES ASSUME NEW i \in DOMAIN held, NEW text \in NewTexts, LogInv, Log!Edit(i, text)
             PROVE  LogInv'
  OBVIOUS
<1>1. PICK p : p = held[i]
  OBVIOUS
<1>2. /\ entries \in Seq(Entries) /\ changelog \in Seq(Nat) /\ ColumnsOK(customTags)
      /\ \A k \in 1 .. Len(changelog) : changelog[k] \in 1 .. Len(entries)
      /\ held \in {<< >>, changelog}
  BY DEF LogInv
<1>3. p \in 1 .. Len(entries)
  BY <1>1, <1>2
<1>4. /\ entries' = [entries EXCEPT ![p].text = text]
      /\ logPhase' = "open" /\ UNCHANGED <<changelog, held, customTags>>
  BY <1>1 DEF Log!Edit
<1>5. PICK e : e = [entries[p] EXCEPT !.text = text]
  OBVIOUS
<1>6. e \in Entries
  <2>1. entries[p] \in Entries /\ text \in Strings
    BY <1>2, <1>3 DEF Strings
  <2> QED
    BY <1>5, <2>1 DEF Entries
<1>7. entries' = [entries EXCEPT ![p] = e]
  BY <1>4, <1>5
<1>8. entries' \in Seq(Entries) /\ Len(entries') = Len(entries)
  BY <1>2, <1>3, <1>6, <1>7, ExceptSeq
<1> QED
  BY <1>2, <1>4, <1>8, OpenLog

\* What Write puts into the header is made of the entries as they are.
LEMMA WriteLog == LogInv /\ Log!WriteIndex => LogInv'
<1> SUFFICES ASSUME LogInv, Log!WriteIndex PROVE LogInv'
  OBVIOUS
<1>1. /\ logPhase' = "header"
      /\ logIndex' = Log!AddEntries(Log!AddToIndex(Log!Deref(changelog)), customTags)
      /\ logWritten' = [custom |-> customTags, seen |-> Log!Deref(held)]
      /\ UNCHANGED <<entries, changelog, held, customTags>>
  BY DEF Log!WriteIndex
<1>2. logWritten'.custom = customTags /\ logWritten'.seen = Log!Deref(held)
  BY <1>1
<1>3. Log!Deref(held) \in {<< >>, Log!Deref(changelog)}
  <2>1. Log!Deref(<< >>) = << >>
    BY DEF Log!Deref
  <2> QED
    BY <2>1 DEF LogInv
<1>4. Log!Deref(changelog)' = Log!Deref(changelog)
  BY <1>1 DEF Log!Deref
<1>5. logPhase' # "read"
  BY <1>1
<1>6. SeenIsRead' /\ NothingHides'
  BY <1>5 DEF SeenIsRead, Log!SeenIsRead, NothingHides, Log!NothingHides
<1>7. logIndex' = (Log!AddEntries(Log!AddToIndex(Log!Deref(changelog)), customTags))'
  BY <1>1, <1>4 DEF Log!AddEntries, Log!AddToIndex
<1> QED
  BY <1>1, <1>2, <1>3, <1>4, <1>6, <1>7 DEF LogInv

\* Reading makes new entries of columns that fit, and leaves no column behind then.
LEMMA ReadLog == LogInv /\ Log!ReadIndex => LogInv'
<1> SUFFICES ASSUME LogInv, Log!ReadIndex PROVE LogInv'
  OBVIOUS
<1>1. PICK T : T = Log!ToChangelog
  OBVIOUS
<1>2. /\ logPhase = "header" /\ logPhase' = "read"
      /\ entries' = entries \o T /\ changelog' = Log!Fresh(Len(T)) /\ held' = << >>
      /\ customTags' = Log!Restrict(logIndex, DOMAIN logIndex \ Log!Popped)
      /\ logIndex' = logIndex /\ logWritten' = logWritten
  BY <1>1 DEF Log!ReadIndex
<1>3. PICK l : l = Log!Deref(changelog)
  OBVIOUS
<1>4. /\ entries \in Seq(Entries) /\ l \in Seq(Entries) /\ ColumnsOK(customTags)
      /\ logIndex = Log!AddEntries(Log!AddToIndex(l), customTags)
      /\ logWritten.custom = customTags /\ logWritten.seen \in {<< >>, l}
  BY <1>2, <1>3, DerefIs DEF LogInv
<1>5. /\ ColumnsOK(logIndex)
      /\ DOMAIN customTags \subseteq DOMAIN logIndex
      /\ \A a \in DOMAIN customTags : logIndex[a] = customTags[a]
  BY <1>4, IndexColumns
<1>6. T \in Seq(Entries)
  <2>1. ASSUME ~Fits(logIndex) PROVE T = << >>
    BY <1>1, <2>1, ToChangelogIs
  <2>2. ASSUME Fits(logIndex) PROVE T \in Seq(Entries)
    BY <1>1, <1>5, <2>2, FittingIsRead
  <2>3. CASE Fits(logIndex)
    BY <2>2, <2>3
  <2>4. CASE ~Fits(logIndex)
    <3>1. << >> \in Seq(Entries)
      OBVIOUS
    <3> QED
      BY <2>1, <2>4, <3>1
  <2> QED
    BY <2>3, <2>4
<1>7. /\ entries' \in Seq(Entries) /\ changelog' \in Seq(Nat) /\ Len(changelog') = Len(T)
      /\ \A i \in 1 .. Len(T) : changelog'[i] \in 1 .. Len(entries') /\ entries'[changelog'[i]] = T[i]
  BY <1>2, <1>4, <1>6, FreshIs
<1>8. ColumnsOK(customTags')
  <2>1. DOMAIN customTags' \subseteq DOMAIN logIndex /\ \A a \in DOMAIN customTags' : customTags'[a] = logIndex[a]
    BY <1>2 DEF Log!Restrict
  <2> QED
    BY <1>5, <2>1 DEF ColumnsOK
<1>9. SeenIsRead'
  <2>1. SUFFICES ASSUME logWritten.custom = Log!EmptyMap, logWritten.seen # << >>
                 PROVE  Log!Deref(changelog)' = logWritten.seen
    BY <1>2 DEF SeenIsRead, Log!SeenIsRead
  <2>2. DOMAIN customTags = {}
    BY <1>4, <2>1 DEF Log!EmptyMap
  <2>3. T = l
    BY <1>1, <1>4, <2>2, WrittenIsRead
  <2>4. DOMAIN changelog' = 1 .. Len(T) /\ Log!Deref(changelog)' = [i \in DOMAIN changelog' |-> entries'[changelog'[i]]]
    BY <1>7 DEF Log!Deref
  <2>5. Log!Deref(changelog)' = [i \in 1 .. Len(T) |-> T[i]]
    BY <1>7, <2>4
  <2>6. T = [i \in 1 .. Len(T) |-> T[i]]
    BY <1>6
  <2> QED
    BY <1>4, <2>1, <2>3, <2>5, <2>6
<1>10. NothingHides'
  <2>1. SUFFICES ASSUME changelog' # << >>
                 PROVE  /\ customTags' = Log!EmptyMap
                        /\ \A a \in DOMAIN customTags :
                             [i \in DOMAIN changelog' |-> entries'[changelog'[i]][a]] = customTags[a].values
    BY <1>2, <1>4 DEF NothingHides, Log!NothingHides
  <2>2. Fits(logIndex)
    <3>1. T # << >>
      BY <1>6, <1>7, <2>1
    <3> QED
      BY <1>1, <3>1, ToChangelogIs
  <2>3. DOMAIN logIndex \subseteq Log!Popped
    <3>1. /\ Log!Columns = <<"time", "name", "text">>
          /\ Log!Types["time"] = "int32" /\ Log!Types["name"] = "stringArray"
          /\ Log!Types["text"] = "stringArray"
      BY DEF Log!Columns, Log!Types
    <3>2. \A k \in 1 .. 3 : /\ Log!Columns[k] \in DOMAIN logIndex
                            /\ logIndex[Log!Columns[k]].type = Log!Types[Log!Columns[k]]
      BY <2>2, <3>1 DEF Fits
    <3>3. \A k \in 1 .. 3 : Log!Columns[k] \in Log!Popped
      BY <3>2 DEF Log!Popped
    <3> QED
      BY <2>2, <3>1, <3>3 DEF Fits
  <2>4. customTags' = Log!EmptyMap
    <3>1. DOMAIN logIndex \ Log!Popped = {}
      BY <2>3
    <3> QED
      BY <1>2, <3>1 DEF Log!Restrict, Log!EmptyMap
  <2>5. ASSUME NEW a \in DOMAIN customTags
        PROVE  [i \in DOMAIN changelog' |-> entries'[changelog'[i]][a]] = customTags[a].values
    <3>1. a \in {"time", "name", "text"} /\ logIndex[a] = customTags[a]
      BY <1>4, <1>5 DEF ColumnsOK
    <3>2. PICK v : v = logIndex[a].values
      OBVIOUS
    <3>3. v \in Seq(ValuesOf(a)) /\ Len(v) = Len(T)
      BY <1>1, <1>5, <2>2, <3>1, <3>2, FittingIsRead DEF ColumnsOK
    <3>4. \A i \in 1 .. Len(T) : T[i][a] = v[i]
      BY <1>1, <1>5, <2>2, <3>1, <3>2, FittingIsRead
    <3>5. DOMAIN changelog' = 1 .. Len(T)
      BY <1>7
    <3>6. [i \in DOMAIN changelog' |-> entries'[changelog'[i]][a]] = [i \in 1 .. Len(T) |-> v[i]]
      BY <1>7, <3>4, <3>5
    <3>7. v = [i \in 1 .. Len(T) |-> v[i]]
      BY <3>3
    <3> QED
      BY <3>1, <3>2, <3>6, <3>7
  <2> QED
    BY <2>4, <2>5
<1> QED
  BY <1>2, <1>7, <1>8, <1>9, <1>10 DEF LogInv

\* Every step of the changelog keeps the invariant ...
LEMMA LogStep == LogInv /\ Log!Next => LogInv'
<1> SUFFICES ASSUME LogInv, Log!Next PROVE LogInv'
  OBVIOUS
<1>1. ASSUME Log!GetChangelog PROVE LogInv'
  <2>1. /\ UNCHANGED <<entries, changelog, customTags, logIndex, logPhase, logWritten>>
        /\ held' = changelog
    BY <1>1 DEF Log!GetChangelog
  <2>2. Log!Deref(changelog)' = Log!Deref(changelog)
    BY <2>1 DEF Log!Deref
  <2>3. SeenIsRead' /\ NothingHides'
    BY <2>1, <2>2 DEF LogInv, SeenIsRead, Log!SeenIsRead, NothingHides, Log!NothingHides
  <2>4. logPhase # "header"
    BY <1>1 DEF Log!GetChangelog
  <2> QED
    BY <2>1, <2>3, <2>4 DEF LogInv
<1>2. ASSUME NEW o \in ColumnOverrides, Log!Override(o) PROVE LogInv'
  <2>1. /\ customTags' = Log!AddEntries(customTags, o) /\ logPhase' = "open"
        /\ UNCHANGED <<entries, changelog, held>>
    BY <1>2 DEF Log!Override
  <2>2. ColumnsOK(customTags')
    <3>1. ColumnsOK(customTags) /\ ColumnsOK(o)
      BY ChangelogsTyped DEF LogInv
    <3> QED
      BY <2>1, <3>1 DEF ColumnsOK, Log!AddEntries
  <2>3. entries \in Seq(Entries) /\ changelog \in Seq(Nat) /\ held \in {<< >>, changelog}
        /\ \A i \in 1 .. Len(changelog) : changelog[i] \in 1 .. Len(entries)
    BY DEF LogInv
  <2> QED
    BY <2>1, <2>2, <2>3, OpenLog
<1> QED
  BY <1>1, <1>2, SetChangelogLog, EditLog, WriteLog, ReadLog DEF Log!Next

\* ... so it always holds: the steps of the relations touch none of this.
LEMMA LogAlways == MetaSpec => []LogInv
<1>1. MetaInit => LogInv
  BY InitLog DEF MetaInit
<1>2. LogInv /\ [MetaNext]_<<vars, logVars>> => LogInv'
  <2>1. LogInv /\ MetaNext => LogInv' \/ UNCHANGED logVars
    BY LogStep DEF MetaNext
  <2>2. LogInv /\ UNCHANGED logVars => LogInv'
    <3> SUFFICES ASSUME LogInv, UNCHANGED logVars PROVE LogInv'
      OBVIOUS
    <3>1. UNCHANGED <<entries, changelog, held, customTags, logIndex, logPhase, logWritten>>
      BY DEF logVars
    <3>2. SeenIsRead' /\ NothingHides'
      BY <3>1 DEF LogInv, SeenIsRead, Log!SeenIsRead, NothingHides, Log!NothingHides, Log!Deref
    <3>3. Log!Deref(changelog)' = Log!Deref(changelog)
      BY <3>1 DEF Log!Deref
    <3>4. (Log!AddEntries(Log!AddToIndex(Log!Deref(changelog)), customTags))'
          = Log!AddEntries(Log!AddToIndex(Log!Deref(changelog)), customTags)
      BY <3>1, <3>3 DEF Log!AddEntries, Log!AddToIndex
    <3> QED
      BY <3>1, <3>2, <3>3, <3>4 DEF LogInv
  <2> QED
    BY <2>1, <2>2
<1> QED
  BY <1>1, <1>2, PTL DEF MetaSpec

\* What the caller saw of the changelog when it wrote is what is read, changes
\* made through its pointers included (changelog.go:19 and 82).
THEOREM SeenCorrect == MetaSpec => []SeenIsRead
<1>1. LogInv => SeenIsRead
  BY DEF LogInv
<1> QED
  BY <1>1, LogAlways, PTL

\* No column is left behind a changelog that was read, to hide the changes of
\* the next Write (changelog.go:52, header.go:628).
THEOREM HidesCorrect == MetaSpec => []NothingHides
<1>1. LogInv => NothingHides
  BY DEF LogInv
<1> QED
  BY <1>1, LogAlways, PTL
=============================================================================
