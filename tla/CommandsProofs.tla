--------------------------- MODULE CommandsProofs ---------------------------
(***************************************************************************)
(* What the commands of cmd/ leave behind, proved for every tar stream,     *)
(* package, path and number of commands: the three safety properties of     *)
(* Commands, from CommandsInv, which says of the command that runs what its *)
(* stage has made so, and of the one that ended that it was at a stage at   *)
(* which it can end so.                                                     *)
(*                                                                          *)
(* A fact on EXCEPT with several fields, or on a concatenation, is proved   *)
(* of a constant that is PICKed to be equal to it.                          *)
(***************************************************************************)
EXTENDS Commands, Lemmas, SequenceTheorems

-----------------------------------------------------------------------------
(* The recursive functions of the commands.                                 *)

\* The recursive function of Sum exists, and gives numbers.
LEMMA SumNat == ASSUME NEW s \in Seq(Nat) PROVE Sum(s) \in Nat
<1> DEFINE n == Len(s)
           Is(f) == f = [k \in 0 .. n |-> IF k = 0 THEN 0 ELSE f[k - 1] + s[k]]
           step == [p \in (1 .. n) \X Nat |-> p[2] + s[p[1]]]
<1>1. n \in Nat /\ step \in [(1 .. n) \X Nat -> Nat]
  OBVIOUS
<1>2. PICK g : IsRecursion(g, 0, step, n) /\ g \in [0 .. n -> Nat]
  <2> HIDE DEF n, step
  <2> QED
    BY <1>1, Recursion
<1>3. Is(g)
  <2>1. ASSUME NEW k \in 0 .. n PROVE g[k] = IF k = 0 THEN 0 ELSE g[k - 1] + s[k]
    <3>1. CASE k = 0
      BY <1>2, <3>1 DEF IsRecursion
    <3>2. CASE k # 0
      <4> HIDE DEF n, step
      <4>1. k - 1 \in 0 .. n /\ k \in 1 .. n /\ g[k - 1] \in Nat
        BY <1>1, <1>2, <3>2
      <4>2. step[<<k, g[k - 1]>>] = g[k - 1] + s[k]
        BY <4>1 DEF step
      <4> QED
        BY <1>2, <3>2, <4>2 DEF IsRecursion
    <3> QED
      BY <3>1, <3>2
  <2> HIDE DEF step
  <2>2. g = [k \in 0 .. n |-> g[k]]
    BY <1>2
  <2> QED
    BY <2>1, <2>2
<1> DEFINE f == CHOOSE f : Is(f)
<1>4. Sum(s) = f[n]
  BY DEF Sum
<1>5. Is(f)
  BY <1>3
<1> DEFINE T == {k \in Nat : k <= n => f[k] \in Nat}
<1>6. n \in T
  <2> HIDE DEF f
  <2>1. 0 \in T
    BY <1>5
  <2>2. ASSUME NEW k \in Nat, k \in T PROVE k + 1 \in T
    <3>1. SUFFICES ASSUME k + 1 <= n PROVE f[k + 1] \in Nat
      OBVIOUS
    <3>2. k + 1 \in 0 .. n /\ k + 1 # 0 /\ f[k] \in Nat /\ (k + 1) - 1 = k /\ s[k + 1] \in Nat
      BY <1>1, <2>2, <3>1
    <3>3. f[k + 1] = f[k] + s[k + 1]
      BY <1>5, <3>2
    <3> QED
      BY <3>2, <3>3
  <2> HIDE DEF T, n
  <2> QED
    BY <1>1, <2>1, <2>2, Induction
<1> QED
  BY <1>4, <1>6

\* STRING, with the texts that the module itself has: the provers do not know
\* that a literal is a member of STRING.
Text == STRING \cup {"", "1", "tar", "root", "gzip", "lzma", "xz", "zstd"}

\* The files of a package, by name.
FileMaps ==
  UNION {[S -> [kind : {"dir", "link", "reg"}, body : Nat, owner : Text]] : S \in SUBSET STRING}

\* Entries of a package's payload.
Entries == [name : STRING, kind : STRING, owner : STRING, body : Nat]

\* What FromTar has, or has not, when it has read a part of a stream.
TarResults == {r \in [failed : BOOLEAN, files : FileMaps] : IsFiniteSet(DOMAIN r.files)}

\* Of the first k entries the last of each name.
AreLast(files, entries, k) ==
  /\ DOMAIN files = {CleanName(entries[i].name) : i \in 1 .. k} \ {Root}
  /\ \A n \in DOMAIN files : \E i \in 1 .. k :
       /\ CleanName(entries[i].name) = n
       /\ \A j \in i + 1 .. k : CleanName(entries[j].name) # n
       /\ files[n] = TarFile(entries[i])

\* A map that is put into is one afterwards.
LEMMA PutFile ==
  ASSUME NEW m \in FileMaps, IsFiniteSet(DOMAIN m), NEW n \in STRING,
         NEW f \in [kind : {"dir", "link", "reg"}, body : Nat, owner : Text]
  PROVE  Put(m, n, f) \in FileMaps /\ IsFiniteSet(DOMAIN Put(m, n, f))
<1> DEFINE F == [kind : {"dir", "link", "reg"}, body : Nat, owner : Text]
<1>1. PICK S \in SUBSET STRING : m \in [S -> F]
  BY DEF FileMaps
<1>2. Put(m, n, f) \in [S \cup {n} -> F] /\ DOMAIN Put(m, n, f) = S \cup {n}
  BY <1>1 DEF Put
<1>3. IsFiniteSet(S \cup {n})
  BY <1>1, FS_AddElement
<1> QED
  BY <1>2, <1>3 DEF FileMaps

\* The empty result is one, and each entry gives one.
LEMMA TarEntryTyped ==
  /\ [failed |-> FALSE, files |-> EmptyMap] \in TarResults
  /\ Failed \in TarResults
  /\ \A r \in TarResults : \A e \in Entries :
       CleanName(e.name) \in STRING => TarEntry(r, e) \in TarResults
<1>1. EmptyMap \in [{} -> [kind : {"dir", "link", "reg"}, body : Nat, owner : Text]]
      /\ DOMAIN EmptyMap = {}
  BY DEF EmptyMap
<1>2. EmptyMap \in FileMaps /\ IsFiniteSet(DOMAIN EmptyMap)
  BY <1>1, FS_EmptySet DEF FileMaps
<1>3. Failed \in TarResults /\ [failed |-> FALSE, files |-> EmptyMap] \in TarResults
  BY <1>2 DEF TarResults, Failed
<1>4. ASSUME NEW r \in TarResults, NEW e \in Entries, CleanName(e.name) \in STRING
      PROVE  TarEntry(r, e) \in TarResults
  <2>1. r.files \in FileMaps /\ IsFiniteSet(DOMAIN r.files) /\ r.failed \in BOOLEAN
        /\ r = [failed |-> r.failed, files |-> r.files]
    BY DEF TarResults
  <2>2. CASE r.failed \/ e.kind \notin {"dir", "link", "reg"}
    BY <1>3, <2>2 DEF TarEntry
  <2>3. CASE ~(r.failed \/ e.kind \notin {"dir", "link", "reg"}) /\ CleanName(e.name) = Root
    BY <2>3 DEF TarEntry
  <2>4. CASE ~(r.failed \/ e.kind \notin {"dir", "link", "reg"}) /\ CleanName(e.name) # Root
    <3>1. TarFile(e) \in [kind : {"dir", "link", "reg"}, body : Nat, owner : Text]
      <4>1. e.body \in Nat /\ e.owner \in STRING /\ e.kind \in {"dir", "link", "reg"}
        BY <2>4 DEF Entries
      <4>2. (IF e.kind = "dir" THEN 0 ELSE e.body) \in Nat
        BY <4>1
      <4>3. (IF e.owner = "" THEN "root" ELSE e.owner) \in Text
        BY <4>1 DEF Text
      <4> QED
        BY <4>1, <4>2, <4>3 DEF TarFile
    <3> DEFINE m == Put(r.files, CleanName(e.name), TarFile(e))
    <3>2. m \in FileMaps /\ IsFiniteSet(DOMAIN m)
      BY <1>4, <2>1, <3>1, PutFile
    <3>3. TarEntry(r, e) = [r EXCEPT !.files = Put(@, CleanName(e.name), TarFile(e))]
      BY <2>4 DEF TarEntry
    <3>4. TarEntry(r, e) = [failed |-> r.failed, files |-> m]
      BY <2>1, <3>3
    <3> HIDE DEF m
    <3> QED
      BY <2>1, <3>2, <3>4 DEF TarResults
  <2> QED
    BY <2>2, <2>3, <2>4
<1> QED
  BY <1>3, <1>4

\* One more entry.
LEMMA NextLast ==
  ASSUME NEW r \in TarResults, NEW entries \in Seq(Entries), NEW k \in Nat,
         k + 1 <= Len(entries), CleanName(entries[k + 1].name) \in STRING,
         r.failed \/ AreLast(r.files, entries, k),
         ~TarEntry(r, entries[k + 1]).failed
  PROVE  AreLast(TarEntry(r, entries[k + 1]).files, entries, k + 1)
<1> DEFINE e == entries[k + 1]
           c == CleanName(e.name)
           t == TarEntry(r, e)
<1>1. ~r.failed /\ AreLast(r.files, entries, k) /\ e.kind \in {"dir", "link", "reg"}
  <2>1. ~(r.failed \/ e.kind \notin {"dir", "link", "reg"})
    <3>1. Failed.failed
      BY DEF Failed
    <3>2. ASSUME r.failed \/ e.kind \notin {"dir", "link", "reg"} PROVE t = Failed
      <4> HIDE DEF e, c
      <4> QED
        BY <3>2 DEF TarEntry, t
    <3> QED
      BY <3>1, <3>2
  <2> QED
    BY <2>1
<1>2. DOMAIN r.files = {CleanName(entries[i].name) : i \in 1 .. k} \ {Root}
  BY <1>1 DEF AreLast
<1>3. {CleanName(entries[i].name) : i \in 1 .. k + 1}
        = {CleanName(entries[i].name) : i \in 1 .. k} \cup {c}
  <2>1. 1 .. k + 1 = 1 .. k \cup {k + 1}
    OBVIOUS
  <2> QED
    BY <2>1
<1>4. ASSUME NEW n \in DOMAIN r.files, n # c
      PROVE  \E i \in 1 .. k + 1 :
               /\ CleanName(entries[i].name) = n
               /\ \A j \in i + 1 .. k + 1 : CleanName(entries[j].name) # n
               /\ r.files[n] = TarFile(entries[i])
  <2>1. PICK i \in 1 .. k :
               /\ CleanName(entries[i].name) = n
               /\ \A j \in i + 1 .. k : CleanName(entries[j].name) # n
               /\ r.files[n] = TarFile(entries[i])
    BY <1>1 DEF AreLast
  <2>2. i \in 1 .. k + 1 /\ \A j \in i + 1 .. k + 1 : j \in i + 1 .. k \/ j = k + 1
    OBVIOUS
  <2> QED
    BY <1>4, <2>1, <2>2
<1>5. CASE c = Root
  <2>1. t = r
    BY <1>1, <1>5 DEF TarEntry
  <2>2. \A n \in DOMAIN r.files : n # c
    BY <1>2, <1>5
  <2>3. DOMAIN r.files = {CleanName(entries[i].name) : i \in 1 .. k + 1} \ {Root}
    BY <1>2, <1>3, <1>5
  <2> HIDE DEF t, c
  <2> QED
    BY <1>4, <2>1, <2>2, <2>3 DEF AreLast, t
<1>6. CASE c # Root
  <2>1. t = [r EXCEPT !.files = Put(@, c, TarFile(e))]
    BY <1>1, <1>6 DEF TarEntry
  <2>2. t.files = Put(r.files, c, TarFile(e))
    BY <2>1 DEF TarResults
  <2> HIDE DEF t, c
  <2>3. /\ DOMAIN t.files = DOMAIN r.files \cup {c}
        /\ t.files[c] = TarFile(e)
        /\ \A n \in DOMAIN r.files : n # c => t.files[n] = r.files[n]
    BY <2>2 DEF Put
  <2>4. DOMAIN t.files = {CleanName(entries[i].name) : i \in 1 .. k + 1} \ {Root}
    BY <1>2, <1>3, <1>6, <2>3
  <2>5. \E i \in 1 .. k + 1 :
               /\ CleanName(entries[i].name) = c
               /\ \A j \in i + 1 .. k + 1 : CleanName(entries[j].name) # c
               /\ t.files[c] = TarFile(entries[i])
    <3>1. k + 1 \in 1 .. k + 1 /\ \A j : j \notin k + 1 + 1 .. k + 1
      OBVIOUS
    <3> QED
      BY <2>3, <3>1 DEF c
  <2>6. \A n \in DOMAIN t.files : \E i \in 1 .. k + 1 :
               /\ CleanName(entries[i].name) = n
               /\ \A j \in i + 1 .. k + 1 : CleanName(entries[j].name) # n
               /\ t.files[n] = TarFile(entries[i])
    BY <1>4, <2>3, <2>5
  <2> QED
    BY <2>4, <2>6 DEF AreLast, t
<1> QED
  BY <1>5, <1>6

\* FromTar (tar.go:26-88) finds of each name in a stream the last entry, for a stream of
\* any length.
THEOREM FromTarFinds ==
  ASSUME NEW tar \in Tars
  PROVE  /\ FromTar(tar) \in TarResults
         /\ ~FromTar(tar).failed => FromTar(tar).files = LastEntries(tar.entries)
<1> DEFINE es == tar.entries
           n == Len(es)
           none == [failed |-> FALSE, files |-> EmptyMap]
           Is(f) == f = [k \in 0 .. n |-> IF k = 0 THEN none ELSE TarEntry(f[k - 1], es[k])]
           step == [p \in (1 .. n) \X TarResults |-> TarEntry(p[2], es[p[1]])]
<1>1. /\ es \in Seq(Entries) /\ n \in Nat
      /\ \A i \in 1 .. n : es[i] \in Entries /\ CleanName(es[i].name) \in STRING
  <2>1. es \in Seq(Entries)
    BY TarsAssumption DEF Entries
  <2>2. DOMAIN es = 1 .. n /\ n \in Nat
    BY <2>1
  <2>3. \A i \in DOMAIN es : CleanName(es[i].name) \in STRING
    BY TarsAssumption
  <2> QED
    BY <2>1, <2>2, <2>3
<1>2. none \in TarResults /\ step \in [(1 .. n) \X TarResults -> TarResults]
  BY <1>1, TarEntryTyped
<1>3. PICK g : IsRecursion(g, none, step, n) /\ g \in [0 .. n -> TarResults]
  <2> HIDE DEF n, step, none
  <2> QED
    BY <1>1, <1>2, Recursion
<1>4. Is(g)
  <2> HIDE DEF n, step, none, es
  <2>1. ASSUME NEW k \in 0 .. n PROVE g[k] = IF k = 0 THEN none ELSE TarEntry(g[k - 1], es[k])
    <3>1. CASE k = 0
      BY <1>3, <3>1 DEF IsRecursion
    <3>2. CASE k # 0
      <4>1. k - 1 \in 0 .. n /\ k \in 1 .. n /\ g[k - 1] \in TarResults
        BY <1>1, <1>3, <3>2
      <4>2. step[<<k, g[k - 1]>>] = TarEntry(g[k - 1], es[k])
        BY <4>1 DEF step
      <4> QED
        BY <1>3, <3>2, <4>2 DEF IsRecursion
    <3> QED
      BY <3>1, <3>2
  <2>2. g = [k \in 0 .. n |-> g[k]]
    BY <1>3
  <2> QED
    BY <2>1, <2>2
<1> DEFINE f == CHOOSE f : Is(f)
<1>5. FromTar(tar) = IF tar.end = "eof" THEN f[n] ELSE Failed
  BY DEF FromTar
<1>6. Is(f)
  BY <1>4
<1> DEFINE T == {k \in Nat : k <= n =>
                   f[k] \in TarResults /\ (f[k].failed \/ AreLast(f[k].files, es, k))}
<1>7. n \in T
  <2> HIDE DEF f
  <2>1. 0 \in T
    <3>1. f[0] = none
      BY <1>1, <1>6
    <3>2. AreLast(EmptyMap, es, 0)
      BY DEF AreLast, EmptyMap
    <3> QED
      BY <1>2, <3>1, <3>2
  <2>2. ASSUME NEW k \in Nat, k \in T PROVE k + 1 \in T
    <3>1. SUFFICES ASSUME k + 1 <= n
                   PROVE  /\ f[k + 1] \in TarResults
                          /\ f[k + 1].failed \/ AreLast(f[k + 1].files, es, k + 1)
      OBVIOUS
    <3>2. /\ k + 1 \in 0 .. n /\ k + 1 # 0 /\ (k + 1) - 1 = k /\ k + 1 \in 1 .. n
          /\ f[k] \in TarResults /\ (f[k].failed \/ AreLast(f[k].files, es, k))
      BY <1>1, <2>2, <3>1
    <3>3. f[k + 1] = TarEntry(f[k], es[k + 1])
      BY <1>6, <3>2
    <3>4. es[k + 1] \in Entries /\ CleanName(es[k + 1].name) \in STRING
      BY <1>1, <3>2
    <3> HIDE DEF T
    <3> QED
      BY <1>1, <3>1, <3>2, <3>3, <3>4, TarEntryTyped, NextLast
  <2> HIDE DEF T, n
  <2> QED
    BY <1>1, <2>1, <2>2, Induction
<1>8. FromTar(tar) \in TarResults
  <2> HIDE DEF f
  <2>1. f[n] \in TarResults
    BY <1>1, <1>7
  <2> QED
    BY <1>5, <2>1, TarEntryTyped
<1>9. ASSUME ~FromTar(tar).failed PROVE FromTar(tar).files = LastEntries(es)
  <2> DEFINE m == FromTar(tar).files
  <2>1. AreLast(m, es, n)
    <3> HIDE DEF f
    <3> QED
      BY <1>1, <1>5, <1>7, <1>9 DEF Failed
  <2>2. DOMAIN es = 1 .. n
    BY <1>1
  <2> HIDE DEF m, es, n
  <2> DEFINE last(x) == CHOOSE i \in DOMAIN es :
                   /\ CleanName(es[i].name) = x
                   /\ \A j \in i + 1 .. n : CleanName(es[j].name) # x
  <2>3. ASSUME NEW x \in DOMAIN m PROVE m[x] = TarFile(es[last(x)])
    <3>1. PICK i \in 1 .. n :
               /\ CleanName(es[i].name) = x
               /\ \A j \in i + 1 .. n : CleanName(es[j].name) # x
               /\ m[x] = TarFile(es[i])
      BY <2>1 DEF AreLast
    <3>2. ASSUME NEW j \in 1 .. n, CleanName(es[j].name) = x,
                 \A l \in j + 1 .. n : CleanName(es[l].name) # x
          PROVE  j = i
      <4>1. j \notin i + 1 .. n /\ i \notin j + 1 .. n
        BY <3>1, <3>2
      <4> QED
        BY <1>1, <4>1
    <3>3. last(x) = i
      BY <2>2, <3>1, <3>2
    <3> QED
      BY <3>1, <3>3
  <2>4. LastEntries(es) = [x \in DOMAIN m |-> TarFile(es[last(x)])]
    <3>1. {CleanName(es[i].name) : i \in DOMAIN es} \ {Root} = DOMAIN m
      BY <2>1, <2>2 DEF AreLast
    <3> QED
      BY <3>1 DEF LastEntries, n
  <2>5. m = [x \in DOMAIN m |-> m[x]]
    <3>1. m \in FileMaps
      BY <1>8 DEF TarResults, m
    <3> QED
      BY <3>1 DEF FileMaps
  <2> HIDE DEF last
  <2> QED
    BY <2>3, <2>4, <2>5 DEF m
<1> QED
  BY <1>8, <1>9

-----------------------------------------------------------------------------
(* Packages as files.                                                       *)

\* Packages, and the units they are written as.
Package ==
  {p \in [name : Text, files : FileMaps, log : Seq(Nat), compressor : Text,
          lead : Seq(Text), signed : BOOLEAN] : IsFiniteSet(DOMAIN p.files)}

\* The unit of a lead.
LeadUnit(lead) == [section |-> "lead", of |-> lead]

\* The units of which files are made.
Unit == {LeadUnit(lead) : lead \in Seq(Text)}
        \cup [section : {"sig", "header", "payload"}, i : Nat, of : Package]

\* A file has the units of packages, the first of them a lead.
FileOK(f) == f \in Seq(Unit) /\ (f # << >> => f[1].section = "lead")

\* No package is one, too.
LEMMA NoPackageTyped == NoPackage \in Package
<1>1. << >> \in Seq(Nat) /\ <<"", "1">> \in Seq(Text) /\ "" \in Text
  BY DEF Text
<1>2. EmptyMap \in FileMaps /\ IsFiniteSet(DOMAIN EmptyMap)
  BY TarEntryTyped DEF TarResults
<1> HIDE DEF Package
<1> QED
  BY <1>1, <1>2 DEF NoPackage, Package

\* The packages there may be at first are packages.
LEMMA PackagesTyped == Packages \subseteq Package
<1> SUFFICES ASSUME NEW p \in Packages PROVE p \in Package
  OBVIOUS
<1>1. p = [name |-> p.name, files |-> p.files, log |-> p.log, compressor |-> p.compressor,
            lead |-> p.lead, signed |-> p.signed]
  BY PackagesAssumption
<1>2. p.name \in Text /\ p.compressor \in Text /\ p.log \in Seq(Nat) /\ p.signed \in BOOLEAN
  BY PackagesAssumption DEF Text
<1>3. p.lead \in Seq(Text)
  <2>1. p.lead = <<p.name, "1">> /\ "1" \in Text
    BY PackagesAssumption DEF Text
  <2> QED
    BY <1>2, <2>1
<1>4. p.files \in FileMaps /\ IsFiniteSet(DOMAIN p.files)
  <2>1. /\ IsFiniteSet(DOMAIN p.files) /\ DOMAIN p.files \subseteq STRING
        /\ p.files \in [DOMAIN p.files -> FileType]
    BY PackagesAssumption
  <2>2. FileType \subseteq [kind : {"dir", "link", "reg"}, body : Nat, owner : Text]
    BY DEF FileType, Text
  <2>3. p.files \in [DOMAIN p.files -> [kind : {"dir", "link", "reg"}, body : Nat, owner : Text]]
    BY <2>1, <2>2
  <2> QED
    BY <2>1, <2>3 DEF FileMaps
<1> QED
  BY <1>1, <1>2, <1>3, <1>4 DEF Package

\* A sequence of U whose elements from the second on are of R ...
HeadAnd(a, U, R) ==
  a \in Seq(U) /\ Len(a) > 0 /\ \A i \in 2 .. Len(a) : a[i] \in R

\* ... is one with a sequence of R behind it.
LEMMA Behind ==
  ASSUME NEW U, NEW R, NEW a, NEW s, R \subseteq U, HeadAnd(a, U, R), s \in Seq(R),
         NEW u, IsConcat(u, a, s)
  PROVE  HeadAnd(u, U, R) /\ u[1] = a[1] /\ (Len(s) > 0 => u[Len(u)] = s[Len(s)])
<1>0. a \in Seq(U) /\ Len(a) > 0 /\ \A i \in 2 .. Len(a) : a[i] \in R
  BY DEF HeadAnd
<1>1. s \in Seq(U) /\ Len(s) \in Nat /\ Len(a) \in Nat /\ \A i \in 1 .. Len(s) : s[i] \in R
  BY <1>0, SeqMonotonic
<1>4. /\ u \in Seq(U) /\ Len(u) = Len(a) + Len(s)
      /\ \A i \in 1 .. Len(a) + Len(s) : u[i] = IF i <= Len(a) THEN a[i] ELSE s[i - Len(a)]
  BY <1>0, <1>1, ConcatProperties DEF IsConcat
<1>5. u[1] = a[1]
  BY <1>0, <1>1, <1>4
<1>6. ASSUME NEW i \in 2 .. Len(u) PROVE u[i] \in R
  <2>1. i \in 1 .. Len(a) + Len(s) /\ i \in Nat
    BY <1>0, <1>1, <1>4
  <2>2. CASE i <= Len(a)
    BY <1>0, <1>4, <2>1, <2>2
  <2>3. CASE ~(i <= Len(a))
    <3>1. i - Len(a) \in 1 .. Len(s) /\ u[i] = s[i - Len(a)]
      BY <1>0, <1>1, <1>4, <2>1, <2>3
    <3> QED
      BY <1>1, <3>1
  <2> QED
    BY <2>2, <2>3
<1>7. Len(s) > 0 => u[Len(u)] = s[Len(s)]
  BY <1>0, <1>1, <1>4
<1> QED
  BY <1>0, <1>1, <1>4, <1>5, <1>6, <1>7 DEF HeadAnd

\* The same for three sequences, the last of them not empty.
LEMMA Behind3 ==
  ASSUME NEW U, NEW R, NEW l, NEW s, NEW h, NEW y, R \subseteq U, HeadAnd(l, U, R),
         s \in Seq(R), h \in Seq(R), y \in Seq(R), Len(y) > 0,
         NEW a, NEW b, NEW u, IsConcat(a, l, s), IsConcat(b, a, h), IsConcat(u, b, y)
  PROVE  HeadAnd(u, U, R) /\ u[1] = l[1] /\ u[Len(u)] = y[Len(y)]
         /\ Len(u) \in Nat /\ Len(u) > 1
<1>4. HeadAnd(a, U, R) /\ a[1] = l[1]
  BY ONLY R \subseteq U, HeadAnd(l, U, R), s \in Seq(R), IsConcat(a, l, s), Behind
<1>5. HeadAnd(b, U, R) /\ b[1] = a[1]
  BY ONLY R \subseteq U, h \in Seq(R), IsConcat(b, a, h), <1>4, Behind
<1>6. HeadAnd(u, U, R) /\ u[1] = b[1] /\ (Len(y) > 0 => u[Len(u)] = y[Len(y)])
  BY ONLY R \subseteq U, y \in Seq(R), IsConcat(u, b, y), <1>5, Behind
<1>7. Len(a) > 0 /\ Len(b) >= Len(a) /\ Len(b) \in Nat /\ Len(u) = Len(b) + Len(y)
  <2>1. l \in Seq(U) /\ Len(l) > 0 /\ s \in Seq(U) /\ h \in Seq(U) /\ y \in Seq(U)
    BY SeqMonotonic DEF HeadAnd
  <2>2. a \in Seq(U) /\ Len(a) = Len(l) + Len(s)
    BY <2>1, ConcatProperties DEF IsConcat
  <2>3. b \in Seq(U) /\ Len(b) = Len(a) + Len(h)
    BY <2>1, <2>2, ConcatProperties DEF IsConcat
  <2>4. Len(u) = Len(b) + Len(y)
    BY <2>1, <2>3, ConcatProperties DEF IsConcat
  <2> QED
    BY <2>1, <2>2, <2>3, <2>4
<1>8. Len(u) \in Nat /\ Len(u) > 1
  <2>1. Len(y) \in Nat /\ Len(a) \in Nat
    BY <1>4 DEF HeadAnd
  <2> QED
    BY <1>7, <2>1
<1> QED
  BY <1>4, <1>5, <1>6, <1>8

\* What Write puts out begins with the lead; everything behind it is of the
\* package, and something there is a part of the payload.
LEMMA UnitsShape ==
  ASSUME NEW p \in Package, NEW read \in BOOLEAN
  PROVE  /\ Units(p, read) \in Seq(Unit)
         /\ Len(Units(p, read)) \in Nat /\ Len(Units(p, read)) > 1
         /\ DOMAIN Units(p, read) = 1 .. Len(Units(p, read))
         /\ Units(p, read)[1] = LeadUnit(LeadName(p, read))
         /\ \A i \in 2 .. Len(Units(p, read)) :
              Units(p, read)[i].section # "lead" /\ Units(p, read)[i].of = p
         /\ \E i \in 2 .. Len(Units(p, read)) : Units(p, read)[i].section = "payload"
<1> DEFINE ns == IF p.signed THEN 2 ELSE 1
           nh == 1 + Sum(p.log)
           np == 1 + Cardinality(DOMAIN p.files)
           Rest == [section : {"sig", "header", "payload"}, i : Nat, of : {p}]
<1>1. p.log \in Seq(Nat) /\ p.signed \in BOOLEAN /\ IsFiniteSet(DOMAIN p.files)
      /\ p.name \in Text /\ p.lead \in Seq(Text)
  BY DEF Package
<1>2. ns \in Nat /\ nh \in Nat /\ np \in Nat /\ np >= 1
  BY <1>1, SumNat, FS_CardinalityType
<1>3. LeadName(p, read) \in Seq(Text)
  <2>1. "1" \in Text
    BY DEF Text
  <2>2. <<p.name, "1">> \in Seq(Text)
    BY <1>1, <2>1
  <2> QED
    BY <1>1, <2>2 DEF LeadName
<1>4. PICK l, s, h, y, u :
        /\ l = <<LeadUnit(LeadName(p, read))>>
        /\ s = [i \in 1 .. ns |-> [section |-> "sig", i |-> i, of |-> p]]
        /\ h = [i \in 1 .. nh |-> [section |-> "header", i |-> i, of |-> p]]
        /\ y = [i \in 1 .. np |-> [section |-> "payload", i |-> i, of |-> p]]
        /\ u = ((l \o s) \o h) \o y
  OBVIOUS
<1>5. u = Units(p, read)
  BY <1>4 DEF Units, LeadUnit
<1>6. l \in Seq(Unit) /\ Len(l) = 1 /\ l[1] = LeadUnit(LeadName(p, read))
  BY <1>3, <1>4 DEF Unit
<1>7. Rest \subseteq Unit
  BY DEF Unit
<1> HIDE DEF ns, nh, np
<1>8. s \in Seq(Rest) /\ h \in Seq(Rest) /\ y \in Seq(Rest)
  BY <1>2, <1>4
<1>9. Len(y) = np /\ Len(y) > 0 /\ y[Len(y)].section = "payload"
  BY <1>2, <1>4
<1> HIDE DEF Rest
<1>10. /\ HeadAnd(u, Unit, Rest) /\ u[1] = l[1] /\ u[Len(u)] = y[Len(y)]
       /\ Len(u) \in Nat /\ Len(u) > 1
  <2>1. HeadAnd(l, Unit, Rest)
    BY <1>6 DEF HeadAnd
  <2>2. PICK a, b : IsConcat(a, l, s) /\ IsConcat(b, a, h)
    BY DEF IsConcat
  <2>3. IsConcat(u, b, y)
    BY <1>4, <2>2 DEF IsConcat
  <2> QED
    BY ONLY <1>7, <1>8, <1>9, <2>1, <2>2, <2>3, Behind3
<1>11. \A i \in 2 .. Len(u) : u[i].section # "lead" /\ u[i].of = p
  <2>1. \A x \in Rest : x.section # "lead" /\ x.of = p
    BY DEF Rest
  <2> QED
    BY <1>10, <2>1 DEF HeadAnd
<1>12. Len(u) \in 2 .. Len(u) /\ u[Len(u)].section = "payload"
  BY <1>9, <1>10
<1>13. u \in Seq(Unit) /\ DOMAIN u = 1 .. Len(u)
  BY <1>10 DEF HeadAnd
<1> QED
  BY <1>5, <1>6, <1>10, <1>11, <1>12, <1>13

\* What is read from a file is a package that can be decompressed, and has
\* the lead that is there.
LEMMA ReadsPackage ==
  ASSUME NEW f, FileOK(f), NEW p \in Reads(f), p # NoPackage
  PROVE  /\ p \in Package /\ SetupDecompressor(p.compressor)
         /\ Len(f) \in Nat /\ Len(f) > 0 /\ f[1] = LeadUnit(p.lead)
<1> DEFINE having(section) == {q \in PartsOf(f) : HasSection(f, q, section)}
           pairs == {c \in having("header") \X having("payload") :
                  c[1].compressor = c[2].compressor /\ SetupDecompressor(c[1].compressor)}
<1>1. f \in Seq(Unit) /\ Len(f) \in Nat /\ DOMAIN f = 1 .. Len(f)
  BY DEF FileOK
<1>2. PartsOf(f) \subseteq Package
  BY <1>1 DEF PartsOf, Unit, LeadUnit
<1>3. PartsOf(f) # {} => Len(f) > 0
  BY <1>1 DEF PartsOf
<1>4. Len(f) > 0 => f[1].section = "lead" /\ f[1] \in Unit
  BY <1>1 DEF FileOK
<1>5. Len(f) > 0 => f[1].of \in Seq(Text) /\ f[1] = LeadUnit(f[1].of)
  BY <1>4 DEF Unit, LeadUnit
<1>6. CASE p \in having("payload") /\ f = Units(p, TRUE) /\ SetupDecompressor(p.compressor)
  <2>1. p \in Package
    BY <1>2, <1>6
  <2>2. LeadName(p, TRUE) = p.lead
    BY DEF LeadName
  <2>3. TRUE \in BOOLEAN
    OBVIOUS
  <2>4. Len(f) \in Nat /\ Len(f) > 1 /\ f[1] = LeadUnit(LeadName(p, TRUE))
    BY <1>6, <2>1, <2>3, UnitsShape
  <2>5. SetupDecompressor(p.compressor)
    BY <1>6
  <2>6. Len(f) > 0
    BY <2>4
  <2> QED
    BY <2>1, <2>2, <2>4, <2>5, <2>6
<1>7. ASSUME NEW c \in pairs, p = [c[1] EXCEPT !.files = c[2].files, !.lead = f[1].of]
      PROVE  /\ p \in Package /\ SetupDecompressor(p.compressor)
             /\ Len(f) > 0 /\ f[1] = LeadUnit(p.lead)
  <2>1. c[1] \in Package /\ c[2] \in Package /\ Len(f) > 0 /\ SetupDecompressor(c[1].compressor)
    BY <1>2, <1>3, <1>7
  <2> DEFINE a == c[1]
             b == c[2]
  <2>2. a \in Package /\ b \in Package /\ p = [a EXCEPT !.files = b.files, !.lead = f[1].of]
    BY <1>7, <2>1
  <2> HIDE DEF a, b
  <2>3. p = [name |-> a.name, files |-> b.files, log |-> a.log, compressor |-> a.compressor,
             lead |-> f[1].of, signed |-> a.signed]
    BY <2>2 DEF Package
  <2>4. p \in Package /\ p.compressor = a.compressor /\ p.lead = f[1].of
    BY <1>5, <2>1, <2>2, <2>3 DEF Package
  <2> QED
    BY <1>5, <2>1, <2>4 DEF a
<1>8. \/ p \in having("payload") /\ f = Units(p, TRUE) /\ SetupDecompressor(p.compressor)
      \/ \E c \in pairs : p = [c[1] EXCEPT !.files = c[2].files, !.lead = f[1].of]
  BY DEF Reads
<1> QED
  BY <1>1, <1>6, <1>7, <1>8

\* A whole package is read back.
LEMMA WholeReads ==
  ASSUME NEW p \in Package, SetupDecompressor(p.compressor)
  PROVE  Reads(Units(p, TRUE)) = {p}
<1> DEFINE u == Units(p, TRUE)
<1>1. /\ u \in Seq(Unit) /\ Len(u) \in Nat /\ Len(u) > 1 /\ DOMAIN u = 1 .. Len(u)
      /\ u[1] = LeadUnit(LeadName(p, TRUE))
      /\ \A i \in 2 .. Len(u) : u[i].section # "lead" /\ u[i].of = p
  <2>1. TRUE \in BOOLEAN
    OBVIOUS
  <2> QED
    BY <2>1, UnitsShape
<1> HIDE DEF u
<1>2. PartsOf(u) = {p}
  <2>1. 2 \in DOMAIN u /\ u[2].section # "lead" /\ u[2].of = p
    BY <1>1
  <2>2. u[1].section = "lead"
    BY <1>1 DEF LeadUnit
  <2>3. \A i \in DOMAIN u : u[i].section # "lead" => u[i].of = p
    <3>1. \A i \in DOMAIN u : i = 1 \/ i \in 2 .. Len(u)
      BY <1>1
    <3> QED
      BY <1>1, <2>2, <3>1
  <2> QED
    BY <2>1, <2>3 DEF PartsOf
<1>3. HasSection(u, p, "payload") /\ u = Units(p, TRUE)
  BY DEF HasSection, u
<1> DEFINE having(section) == {q \in PartsOf(u) : HasSection(u, q, section)}
           whole == {q \in having("payload") : u = Units(q, TRUE)
                 /\ SetupDecompressor(q.compressor)}
<1>4. whole = {p}
  BY <1>2, <1>3
<1>5. whole # {} => Reads(u) = whole
  BY DEF Reads
<1> QED
  BY <1>4, <1>5

-----------------------------------------------------------------------------
(* Writing over a file.                                                     *)

\* A file f that had old in it, when the first n units of u are written over.
Overwritten(f, old, u, n) ==
  /\ f \in Seq(Unit)
  /\ Len(f) = IF Len(old) > n THEN Len(old) ELSE n
  /\ \A i \in 1 .. Len(f) : f[i] = IF i <= n THEN u[i] ELSE old[i]

\* The next unit.
LEMMA OverNext ==
  ASSUME NEW f, NEW old \in Seq(Unit), NEW u \in Seq(Unit), NEW n \in Nat,
         n < Len(u), Overwritten(f, old, u, n)
  PROVE  Overwritten(Over(f, n + 1, u[n + 1]), old, u, n + 1)
<1>1. /\ f \in Seq(Unit) /\ Len(f) \in Nat /\ Len(old) \in Nat /\ u[n + 1] \in Unit
      /\ Len(f) = IF Len(old) > n THEN Len(old) ELSE n
      /\ \A i \in 1 .. Len(f) : f[i] = IF i <= n THEN u[i] ELSE old[i]
  BY DEF Overwritten
<1>2. CASE n + 1 <= Len(f)
  <2>1. PICK g : g = [f EXCEPT ![n + 1] = u[n + 1]]
    OBVIOUS
  <2>2. g \in Seq(Unit) /\ Len(g) = Len(f)
        /\ \A i \in 1 .. Len(f) : g[i] = IF i = n + 1 THEN u[n + 1] ELSE f[i]
    BY <1>1, <1>2, <2>1, ExceptSeq
  <2>3. Over(f, n + 1, u[n + 1]) = g
    BY <1>2, <2>1 DEF Over
  <2>4. Len(g) = IF Len(old) > n + 1 THEN Len(old) ELSE n + 1
    BY <1>1, <1>2, <2>2
  <2>5. \A i \in 1 .. Len(g) : g[i] = IF i <= n + 1 THEN u[i] ELSE old[i]
    BY <1>1, <1>2, <2>2
  <2> QED
    BY <2>2, <2>3, <2>4, <2>5 DEF Overwritten
<1>3. CASE ~(n + 1 <= Len(f))
  <2>1. PICK g : g = Append(f, u[n + 1])
    OBVIOUS
  <2>2. g \in Seq(Unit) /\ Len(g) = Len(f) + 1
        /\ \A i \in 1 .. Len(f) + 1 : g[i] = IF i = Len(f) + 1 THEN u[n + 1] ELSE f[i]
    BY <1>1, <1>3, <2>1
  <2>3. Over(f, n + 1, u[n + 1]) = g /\ Len(f) = n
    BY <1>1, <1>3, <2>1 DEF Over
  <2>4. Len(g) = IF Len(old) > n + 1 THEN Len(old) ELSE n + 1
    BY <1>1, <1>3, <2>2, <2>3
  <2>5. \A i \in 1 .. Len(g) : g[i] = IF i <= n + 1 THEN u[i] ELSE old[i]
    BY <1>1, <1>3, <2>2, <2>3
  <2> QED
    BY <2>2, <2>3, <2>4, <2>5 DEF Overwritten
<1> QED
  BY <1>2, <1>3

\* All of u is written: the file begins with it, and is it unless it was longer.
LEMMA OverAll ==
  ASSUME NEW f, NEW old \in Seq(Unit), NEW u \in Seq(Unit), Overwritten(f, old, u, Len(u))
  PROVE  StartsWith(f, u) /\ (f = u \/ Len(old) > Len(u))
<1>1. /\ f \in Seq(Unit) /\ Len(f) \in Nat /\ Len(old) \in Nat /\ Len(u) \in Nat
      /\ Len(f) = IF Len(old) > Len(u) THEN Len(old) ELSE Len(u)
      /\ \A i \in 1 .. Len(f) : f[i] = IF i <= Len(u) THEN u[i] ELSE old[i]
  BY DEF Overwritten
<1>2. Len(u) <= Len(f) /\ \A i \in 1 .. Len(u) : f[i] = u[i]
  BY <1>1
<1>3. SubSeq(f, 1, Len(u)) = u
  <2>1. PICK s : s = SubSeq(f, 1, Len(u))
    OBVIOUS
  <2>2. s \in Seq(Unit) /\ Len(s) = Len(u) /\ \A i \in 1 .. Len(u) : s[i] = f[i]
    BY <1>1, <1>2, <2>1
  <2>3. s = u
    BY <1>1, <1>2, <2>2, SeqEqual
  <2> QED
    BY <2>1, <2>3
<1>4. Len(old) <= Len(u) => f = u
  <2>1. ASSUME Len(old) <= Len(u) PROVE f = u
    <3>1. Len(f) = Len(u)
      BY <1>1, <2>1
    <3> QED
      BY <1>1, <1>2, <3>1, SeqEqual
  <2> QED
    BY <2>1
<1> QED
  BY <1>1, <1>2, <1>3, <1>4 DEF StartsWith

\* A part of u is written to an empty file: u begins with it.
LEMMA OverEmpty ==
  ASSUME NEW f, NEW u \in Seq(Unit), NEW n \in Nat, n <= Len(u), Overwritten(f, << >>, u, n)
  PROVE  StartsWith(u, f)
<1>1. /\ f \in Seq(Unit) /\ Len(f) = n /\ Len(u) \in Nat
      /\ \A i \in 1 .. n : f[i] = u[i]
  BY DEF Overwritten
<1>2. SubSeq(u, 1, n) = f
  <2>1. PICK s : s = SubSeq(u, 1, n)
    OBVIOUS
  <2>2. s \in Seq(Unit) /\ Len(s) = n /\ \A i \in 1 .. n : s[i] = u[i]
    BY <1>1, <2>1
  <2>3. s = f
    BY <1>1, <2>2, SeqEqual
  <2> QED
    BY <2>1, <2>3
<1> QED
  BY <1>1, <1>2 DEF StartsWith

-----------------------------------------------------------------------------
(* The invariant.                                                           *)

\* The file at a path, if there is one; and a disk whose files are all right.
FileIn(d, path) == IF path \in DOMAIN d THEN d[path] ELSE << >>

\* A disk with files as the commands leave them.
DiskOK(d) == d = [x \in DOMAIN d |-> d[x]] /\ \A x \in DOMAIN d : FileOK(d[x])

\* A command has the fields of a command.
IsCommand(c) ==
  /\ c = [op |-> c.op, in |-> c.in, out |-> c.out, arg |-> c.arg, stage |-> c.stage,
          source |-> c.source, package |-> c.package, before |-> c.before, next |-> c.next]
  /\ c.op \in {"tar2rpm", "sign", "inject", "dump"}

\* What the command writes when it comes to that.
Written(c) == Units(c.package, c.op # "tar2rpm")

\* What the output has before Write: tar2rpm's is made empty.
Old(c) == IF c.op = "tar2rpm" /\ c.stage # "create" THEN << >> ELSE c.before

\* The output of a command: as it was, or made empty, until Write has put out some
\* of the units.
OutputOK(d, c) ==
  /\ FileOK(c.before)
  /\ c.stage \in {"tar", "allow", "write"} => c.out \in DOMAIN d
  /\ c.stage # "write" => c.next = 1 /\ FileIn(d, c.out) = Old(c)
  /\ c.stage = "write" =>
       /\ c.next \in 1 .. Len(Written(c)) + 1
       /\ Overwritten(FileIn(d, c.out), Old(c), Written(c), c.next - 1)

\* The files that an allow list leaves.
KeptFiles(files, allow) ==
  Restrict(files, {n \in DOMAIN files : allow = NoList \/ files[n].kind # "dir" \/ n \in allow})

\* tar2rpm has the package that its stream makes.
TarOK(c) ==
  LET p == c.package
      files == LastEntries(c.arg.tar.entries)
  IN  /\ c.stage \in {"create", "tar", "allow", "write"}
      /\ c.arg.tar \in Tars
      /\ c.stage \in {"create", "tar"} => p = NoPackage
      /\ c.stage \in {"allow", "write"} =>
           p \in Package /\ SetupDecompressor(p.compressor) /\ p.lead = <<p.name, "1">>
      /\ c.stage = "allow" => p.files = files
      /\ c.stage = "write" => p.files = KeptFiles(files, c.arg.allow)

\* The package that inject-in-changelog makes of another.
Injected(p, q, index) ==
  LET n == Len(q.log)
      at == {i \in 1 .. n : index \in {i - 1, i - 1 - n}}
  IN  /\ at # {}
      /\ p = [q EXCEPT !.signed = FALSE,
                !.log = [i \in 1 .. n |-> IF i \in at THEN q.log[i] + 1 ELSE q.log[i]]]

\* The other commands have a package that was read, whose lead is that of the output
\* when they work in place, and what they make of it.
ReadOK(c) ==
  /\ \/ c.op = "sign" /\ c.stage \in {"key", "read", "open", "write"}
     \/ c.op = "inject" /\ c.stage \in {"read", "edit", "open", "write"} /\ c.arg.index \in Int
     \/ c.op = "dump" /\ c.stage = "read"
  /\ c.stage \in {"key", "read"} => c.source = NoPackage /\ c.package = NoPackage
  /\ c.stage \in {"edit", "open", "write"} =>
       /\ c.source \in Package /\ SetupDecompressor(c.source.compressor)
       /\ c.in = c.out => Len(c.before) > 0 /\ c.before[1] = LeadUnit(c.source.lead)
  /\ c.stage = "edit" => c.package = [c.source EXCEPT !.signed = FALSE]
  /\ c.stage \in {"open", "write"} =>
       IF c.op = "sign" THEN c.package = [c.source EXCEPT !.signed = TRUE]
       ELSE Injected(c.package, c.source, c.arg.index)

\* A command that runs.
Running(d, c) ==
  /\ IsCommand(c)
  /\ OutputOK(d, c)
  /\ IF c.op = "tar2rpm" THEN TarOK(c) ELSE ReadOK(c)

\* How a command can end.
EndsSo(c, how) ==
  \/ /\ how \in {"error", "panic"}
     /\ c.stage # "write"
     /\ how = "panic" => c.stage \in {"read", "edit"}
     /\ how = "panic" /\ c.stage = "edit" => c.arg.index = Len(c.source.log)
  \/ how = "error" /\ c.op = "sign" /\ c.stage = "write" /\ c.next = 2
  \/ how \in {"io", "killed"}
  \/ how = "ok" /\ c.op = "dump"
  \/ how = "ok" /\ c.stage = "write" /\ c.next > Len(Written(c))

\* A command that has ended was one that could.
EndOK(d, e) ==
  \/ e = NoCommand
  \/ \E c, how : Running(d, c) /\ EndsSo(c, how) /\ e = [c EXCEPT !.stage = how]

\* The inductive invariant.
CommandsInv ==
  /\ DiskOK(disk)
  /\ IF cmd = NoCommand THEN EndOK(disk, exit) ELSE Running(disk, cmd) /\ exit = NoCommand

-----------------------------------------------------------------------------

\* A package that is signed, or is not any more, is a package.
LEMMA EditTyped ==
  ASSUME NEW q \in Package, NEW p, NEW b \in BOOLEAN, p = [q EXCEPT !.signed = b]
  PROVE  /\ p \in Package /\ p.compressor = q.compressor /\ p.lead = q.lead
         /\ p.log = q.log /\ p.files = q.files
<1>1. q = [name |-> q.name, files |-> q.files, log |-> q.log, compressor |-> q.compressor,
           lead |-> q.lead, signed |-> q.signed]
  BY DEF Package
<1>2. p = [name |-> q.name, files |-> q.files, log |-> q.log, compressor |-> q.compressor,
           lead |-> q.lead, signed |-> b]
  BY <1>1
<1> QED
  BY <1>2 DEF Package

\* So is one whose changelog was changed.
LEMMA InjectedTyped ==
  ASSUME NEW q \in Package, NEW p, NEW index, Injected(p, q, index)
  PROVE  p \in Package /\ p.compressor = q.compressor /\ p.lead = q.lead
<1> DEFINE n == Len(q.log)
           at == {i \in 1 .. n : index \in {i - 1, i - 1 - n}}
           log == [i \in 1 .. n |-> IF i \in at THEN q.log[i] + 1 ELSE q.log[i]]
<1>1. q = [name |-> q.name, files |-> q.files, log |-> q.log, compressor |-> q.compressor,
           lead |-> q.lead, signed |-> q.signed]
      /\ q.log \in Seq(Nat)
  BY DEF Package
<1>2. log \in Seq(Nat)
  <2>1. n \in Nat /\ \A i \in 1 .. n : q.log[i] \in Nat
    BY <1>1
  <2> HIDE DEF n, at
  <2> QED
    BY <2>1
<1>3. p = [q EXCEPT !.signed = FALSE, !.log = log]
  BY DEF Injected
<1> HIDE DEF log
<1>4. p = [name |-> q.name, files |-> q.files, log |-> log, compressor |-> q.compressor,
           lead |-> q.lead, signed |-> FALSE]
  BY <1>1, <1>3
<1> QED
  BY <1>2, <1>4 DEF Package

\* A command that runs works on a package.
LEMMA PackageTyped ==
  ASSUME NEW d, NEW c, Running(d, c)
  PROVE  /\ c.package \in Package
         /\ c.stage \in {"edit", "open", "write", "allow"} =>
              SetupDecompressor(c.package.compressor)
         /\ c.op # "tar2rpm" /\ c.stage \in {"edit", "open", "write"} =>
              c.package.lead = c.source.lead
<1>1. CASE c.op = "tar2rpm"
  BY <1>1, NoPackageTyped DEF Running, TarOK
<1>2. CASE c.op # "tar2rpm" /\ c.stage \in {"key", "read"}
  BY <1>2, NoPackageTyped DEF Running, ReadOK
<1>3. CASE c.op # "tar2rpm" /\ c.stage = "edit"
  <2>1. c.source \in Package /\ SetupDecompressor(c.source.compressor)
        /\ c.package = [c.source EXCEPT !.signed = FALSE]
    BY <1>3 DEF Running, ReadOK
  <2>2. FALSE \in BOOLEAN
    OBVIOUS
  <2>3. c.package \in Package /\ c.package.compressor = c.source.compressor
        /\ c.package.lead = c.source.lead
    BY <2>1, <2>2, EditTyped
  <2> QED
    BY <2>1, <2>3
<1>4. CASE c.op # "tar2rpm" /\ c.stage \in {"open", "write"}
  <2>1. c.source \in Package /\ SetupDecompressor(c.source.compressor)
    BY <1>4 DEF Running, ReadOK
  <2>2. CASE c.op = "sign"
    <3>1. c.package = [c.source EXCEPT !.signed = TRUE] /\ TRUE \in BOOLEAN
      BY <1>4, <2>2 DEF Running, ReadOK
    <3>2. c.package \in Package /\ c.package.compressor = c.source.compressor
          /\ c.package.lead = c.source.lead
      BY <2>1, <3>1, EditTyped
    <3> QED
      BY <2>1, <3>2
  <2>3. CASE c.op # "sign"
    <3>1. Injected(c.package, c.source, c.arg.index)
      BY <1>4, <2>3 DEF Running, ReadOK
    <3>2. c.package \in Package /\ c.package.compressor = c.source.compressor
          /\ c.package.lead = c.source.lead
      BY <2>1, <3>1, InjectedTyped
    <3> QED
      BY <2>1, <3>2
  <2> QED
    BY <2>2, <2>3
<1> QED
  BY <1>1, <1>2, <1>3, <1>4 DEF Running, ReadOK

\* What Write puts out are units.
LEMMA WrittenTyped ==
  ASSUME NEW d, NEW c, Running(d, c)
  PROVE  /\ Written(c) \in Seq(Unit) /\ Len(Written(c)) \in Nat /\ Len(Written(c)) > 1
         /\ Written(c)[1] = LeadUnit(LeadName(c.package, c.op # "tar2rpm"))
<1>1. c.package \in Package /\ (c.op # "tar2rpm") \in BOOLEAN
  BY PackageTyped
<1> QED
  BY <1>1, UnitsShape DEF Written

-----------------------------------------------------------------------------
(* The invariant has the properties.                                        *)

\* Fields of the command there is not, and of its package.
LEMMA NoCommandFields ==
  NoCommand.op = "none" /\ NoCommand.stage = "none" /\ NoPackage.log = << >>
BY DEF NoCommand, NoPackage

\* The fields of a command that ends.
LEMMA ExitRecord ==
  ASSUME NEW c, NEW how, NEW e, IsCommand(c), e = [c EXCEPT !.stage = how]
  PROVE  /\ e.op = c.op /\ e.in = c.in /\ e.out = c.out /\ e.arg = c.arg /\ e.stage = how
         /\ e.source = c.source /\ e.package = c.package /\ e.before = c.before
<1>1. e = [op |-> c.op, in |-> c.in, out |-> c.out, arg |-> c.arg, stage |-> how,
           source |-> c.source, package |-> c.package, before |-> c.before, next |-> c.next]
  BY DEF IsCommand
<1> QED
  BY <1>1

\* A command of which exit tells.
LEMMA HasEnded ==
  ASSUME CommandsInv, cmd = NoCommand, exit # NoCommand
  PROVE  \E c : /\ Running(disk, c) /\ EndsSo(c, exit.stage)
                /\ exit.op = c.op /\ exit.in = c.in /\ exit.out = c.out /\ exit.arg = c.arg
                /\ exit.source = c.source /\ exit.package = c.package /\ exit.before = c.before
<1>1. EndOK(disk, exit)
  BY DEF CommandsInv
<1>2. PICK c, how : Running(disk, c) /\ EndsSo(c, how) /\ exit = [c EXCEPT !.stage = how]
  BY <1>1 DEF EndOK
<1>3. IsCommand(c)
  BY <1>2 DEF Running
<1>4. /\ exit.op = c.op /\ exit.in = c.in /\ exit.out = c.out /\ exit.arg = c.arg
      /\ exit.stage = how
      /\ exit.source = c.source /\ exit.package = c.package /\ exit.before = c.before
  BY <1>2, <1>3, ExitRecord
<1> QED
  BY <1>2, <1>4

\* A Write that is through has left the whole package.
LEMMA WholeWritten ==
  ASSUME NEW d, NEW c, Running(d, c), c.stage = "write", c.next > Len(Written(c))
  PROVE  LET u == Units(c.package, TRUE)
         IN  /\ StartsWith(d[c.out], u)
             /\ Reads(d[c.out]) = {c.package} \/ Len(c.before) > Len(u)
             /\ c.op = "tar2rpm" => Reads(d[c.out]) = {c.package}
<1> DEFINE u == Units(c.package, TRUE)
           f == d[c.out]
<1>1. /\ Written(c) \in Seq(Unit) /\ Len(Written(c)) \in Nat
      /\ c.package \in Package /\ SetupDecompressor(c.package.compressor)
  BY WrittenTyped, PackageTyped
<1>2. Written(c) = u
  <2>1. CASE c.op = "tar2rpm"
    <3>1. c.package.lead = <<c.package.name, "1">>
      BY <2>1 DEF Running, TarOK
    <3>2. LeadName(c.package, FALSE) = LeadName(c.package, TRUE)
      BY <3>1 DEF LeadName
    <3>3. Units(c.package, FALSE) = Units(c.package, TRUE)
      BY <3>2 DEF Units
    <3>4. Written(c) = Units(c.package, FALSE)
      BY <2>1 DEF Written
    <3> QED
      BY <3>3, <3>4
  <2>2. CASE c.op # "tar2rpm"
    <3>1. (c.op # "tar2rpm") = TRUE
      BY <2>2
    <3> QED
      BY <3>1 DEF Written
  <2> QED
    BY <2>1, <2>2
<1> HIDE DEF u
<1>3. /\ c.next \in 1 .. Len(Written(c)) + 1 /\ FileIn(d, c.out) = f
      /\ Overwritten(FileIn(d, c.out), Old(c), Written(c), c.next - 1)
      /\ FileOK(c.before)
  BY DEF Running, OutputOK, FileIn
<1>4. Overwritten(f, Old(c), u, Len(u))
  <2>1. c.next - 1 = Len(u)
    BY <1>1, <1>2, <1>3
  <2> QED
    BY <1>2, <1>3, <2>1
<1>5. Old(c) \in Seq(Unit)
  BY <1>3 DEF Old, FileOK
<1>6. StartsWith(f, u) /\ (f = u \/ Len(Old(c)) > Len(u))
  BY <1>1, <1>2, <1>4, <1>5, OverAll
<1>7. Reads(u) = {c.package}
  BY <1>1, WholeReads DEF u
<1>8. CASE c.op = "tar2rpm"
  <2>1. Len(Old(c)) = 0
    BY <1>8 DEF Old
  <2>2. f = u
    BY <1>1, <1>2, <1>6, <2>1
  <2> QED
    BY <1>6, <1>7, <2>2 DEF u
<1>9. CASE c.op # "tar2rpm"
  <2>1. Old(c) = c.before
    BY <1>9 DEF Old
  <2> QED
    BY <1>6, <1>7, <1>9, <2>1 DEF u
<1> QED
  BY <1>8, <1>9

\* A success: Write is through.
LEMMA InvSuccess == CommandsInv => SuccessReadsBack
<1> DEFINE p == exit.package
           f == disk[exit.out]
           files == LastEntries(exit.arg.tar.entries)
           allow == exit.arg.allow
<1> SUFFICES ASSUME CommandsInv, cmd = NoCommand, exit.stage = "ok", exit.op # "dump"
             PROVE  SuccessReadsBack
  BY DEF SuccessReadsBack
<1>1. exit # NoCommand
  BY NoCommandFields
<1>2. PICK c : /\ Running(disk, c) /\ EndsSo(c, "ok")
               /\ exit.op = c.op /\ exit.in = c.in /\ exit.out = c.out /\ exit.arg = c.arg
               /\ exit.source = c.source /\ exit.package = c.package /\ exit.before = c.before
  BY <1>1, HasEnded
<1>3. c.stage = "write" /\ c.next > Len(Written(c))
  BY <1>2 DEF EndsSo
<1>4. /\ StartsWith(f, Units(p, TRUE))
      /\ Reads(f) = {p} \/ Len(exit.before) > Len(Units(p, TRUE))
      /\ exit.op = "tar2rpm" => Reads(f) = {p}
  BY <1>2, <1>3, WholeWritten
<1>5. exit.op = "sign" => p = [exit.source EXCEPT !.signed = TRUE]
  <2>1. ASSUME c.op = "sign" PROVE c.package = [c.source EXCEPT !.signed = TRUE]
    BY <1>2, <1>3, <2>1 DEF Running, ReadOK
  <2> QED
    BY <1>2, <2>1
<1>6. exit.op = "tar2rpm" => p.files = KeptFiles(files, allow)
  <2>1. ASSUME c.op = "tar2rpm"
        PROVE  c.package.files = KeptFiles(LastEntries(c.arg.tar.entries), c.arg.allow)
    BY <1>2, <1>3, <2>1 DEF Running, TarOK
  <2> QED
    BY <1>2, <2>1
<1>7. exit.op = "tar2rpm" =>
        p.files = Restrict(files, {n \in DOMAIN files :
                    allow = NoList \/ files[n].kind # "dir" \/ n \in allow})
  BY <1>6, Zenon DEF KeptFiles
<1>8. Reads(f) = {p} \/ (exit.op # "tar2rpm" /\ Len(exit.before) > Len(Units(p, TRUE)))
  BY <1>4
<1>9. StartsWith(f, Units(p, TRUE))
  BY <1>4
<1> QED
  BY <1>5, <1>7, <1>8, <1>9, Zenon DEF SuccessReadsBack

\* A failure: the output is as it was; of sign it is so after the lead, which is the one
\* that was read; and what tar2rpm has put out is a part of the package.
LEMMA InvFailure == CommandsInv => FailureKeepsOld
<1> SUFFICES ASSUME CommandsInv, cmd = NoCommand, exit.stage \notin {"none", "ok"}
             PROVE  /\ (/\ exit.op \in {"sign", "inject"} /\ exit.in = exit.out
                        /\ exit.stage \in {"error", "panic"}) =>
                         FileIn(disk, exit.out) = exit.before
                    /\ exit.op = "tar2rpm" =>
                         \/ FileIn(disk, exit.out) = exit.before
                         \/ StartsWith(Units(exit.package, FALSE), FileIn(disk, exit.out))
  BY DEF FailureKeepsOld, File, FileIn
<1>1. exit # NoCommand
  BY NoCommandFields
<1>2. PICK c : /\ Running(disk, c) /\ EndsSo(c, exit.stage)
               /\ exit.op = c.op /\ exit.in = c.in /\ exit.out = c.out /\ exit.arg = c.arg
               /\ exit.source = c.source /\ exit.package = c.package /\ exit.before = c.before
  BY <1>1, HasEnded
<1> DEFINE f == FileIn(disk, c.out)
<1>3. /\ Written(c) \in Seq(Unit) /\ Len(Written(c)) \in Nat /\ Len(Written(c)) > 1
      /\ Written(c)[1] = LeadUnit(LeadName(c.package, c.op # "tar2rpm"))
  BY <1>2, WrittenTyped
<1>4. ASSUME c.op \in {"sign", "inject"}, c.in = c.out, exit.stage \in {"error", "panic"}
      PROVE  f = c.before
  <2>1. CASE c.stage # "write"
    BY <1>2, <1>4, <2>1 DEF Running, OutputOK, Old
  <2>2. CASE c.stage = "write"
    <3>1. c.op = "sign" /\ c.next = 2
      BY <1>2, <1>4, <2>2 DEF EndsSo
    <3>2. Overwritten(f, c.before, Written(c), 1) /\ c.before \in Seq(Unit)
      BY <1>2, <2>2, <3>1 DEF Running, OutputOK, Old, FileOK
    <3>3. Len(c.before) > 0 /\ c.before[1] = LeadUnit(c.source.lead)
          /\ c.package.lead = c.source.lead
      <4>1. ReadOK(c)
        BY <1>2, <3>1 DEF Running
      <4>2. Len(c.before) > 0 /\ c.before[1] = LeadUnit(c.source.lead)
        BY <1>4, <2>2, <4>1 DEF ReadOK
      <4>3. c.package.lead = c.source.lead
        BY <1>2, <2>2, <3>1, PackageTyped
      <4> QED
        BY <4>2, <4>3
    <3>4. Written(c)[1] = c.before[1]
      <4>1. LeadName(c.package, c.op # "tar2rpm") = c.package.lead
        BY <3>1 DEF LeadName
      <4> QED
        BY <1>3, <3>3, <4>1
    <3>5. /\ f \in Seq(Unit) /\ Len(f) = Len(c.before) /\ Len(c.before) \in Nat
          /\ \A i \in 1 .. Len(c.before) : f[i] = IF i <= 1 THEN Written(c)[i] ELSE c.before[i]
      BY <3>2, <3>3 DEF Overwritten
    <3>6. \A i \in 1 .. Len(c.before) : f[i] = c.before[i]
      BY <3>4, <3>5
    <3> QED
      BY <3>2, <3>5, <3>6, SeqEqual
  <2> QED
    BY <2>1, <2>2
<1>5. ASSUME c.op = "tar2rpm"
      PROVE  f = c.before \/ StartsWith(Written(c), f)
  <2>1. CASE c.stage = "create"
    BY <1>2, <2>1 DEF Running, OutputOK, Old
  <2>2. CASE c.stage \in {"tar", "allow"}
    <3>1. f = << >>
      BY <1>2, <1>5, <2>2 DEF Running, OutputOK, Old
    <3> QED
      BY <1>3, <3>1 DEF StartsWith
  <2>3. CASE c.stage = "write"
    <3>1. c.next \in 1 .. Len(Written(c)) + 1 /\ Overwritten(f, << >>, Written(c), c.next - 1)
      BY <1>2, <1>5, <2>3 DEF Running, OutputOK, Old
    <3>2. c.next - 1 \in Nat /\ c.next - 1 <= Len(Written(c))
      BY <1>3, <3>1
    <3> HIDE DEF f
    <3> QED
      BY <1>3, <3>1, <3>2, OverEmpty
  <2> QED
    BY <1>2, <1>5, <2>1, <2>2, <2>3 DEF Running, TarOK
<1>6. c.op = "tar2rpm" => Written(c) = Units(c.package, FALSE)
  BY DEF Written
<1> QED
  BY <1>2, <1>4, <1>5, <1>6

\* The entry that changed is the one that the index means.
LEMMA InvInject == CommandsInv => InjectChangesOne
<1> SUFFICES ASSUME CommandsInv, exit.op = "inject", exit.stage \in {"ok", "panic"}
             PROVE  /\ exit.stage = "ok" => Injected(exit.package, exit.source, exit.arg.index)
                    /\ exit.stage = "panic" /\ Len(exit.source.log) > 0 =>
                         exit.arg.index = Len(exit.source.log)
  BY DEF InjectChangesOne, Ended, Injected
<1>1. exit # NoCommand
  BY NoCommandFields
<1>2. cmd = NoCommand
  BY <1>1 DEF CommandsInv
<1>3. PICK c : /\ Running(disk, c) /\ EndsSo(c, exit.stage)
               /\ exit.op = c.op /\ exit.in = c.in /\ exit.out = c.out /\ exit.arg = c.arg
               /\ exit.source = c.source /\ exit.package = c.package /\ exit.before = c.before
  BY <1>1, <1>2, HasEnded
<1>4. c.op = "inject" /\ ReadOK(c)
  BY <1>3 DEF Running
<1>5. CASE exit.stage = "ok"
  <2>1. c.stage = "write"
    BY <1>3, <1>4, <1>5 DEF EndsSo
  <2>2. Injected(c.package, c.source, c.arg.index)
    BY <1>4, <2>1 DEF ReadOK
  <2> QED
    BY <1>3, <1>5, <2>2
<1>6. CASE exit.stage = "panic"
  <2>1. c.stage \in {"read", "edit"} /\ (c.stage = "edit" => c.arg.index = Len(c.source.log))
    BY <1>3, <1>6 DEF EndsSo
  <2>2. CASE c.stage = "edit"
    BY <1>3, <1>6, <2>1, <2>2
  <2>3. CASE c.stage = "read"
    <3>1. c.source = NoPackage
      BY <1>4, <2>3 DEF ReadOK
    <3>2. Len(c.source.log) = 0
      BY <3>1, NoCommandFields
    <3> QED
      BY <1>3, <1>6, <3>2
  <2> QED
    BY <1>4, <2>1, <2>2, <2>3 DEF ReadOK
<1> QED
  BY <1>5, <1>6

-----------------------------------------------------------------------------
(* Every step keeps the invariant.                                          *)

\* A file may be empty.
LEMMA EmptyFile == << >> \in Seq(Unit) /\ FileOK(<< >>)
BY DEF FileOK

\* A file that is not there is an empty one.
LEMMA FileTyped ==
  ASSUME NEW d, DiskOK(d), NEW path
  PROVE  FileOK(FileIn(d, path))
BY EmptyFile DEF DiskOK, FileIn

\* A file is made, or replaced.
LEMMA PutTyped ==
  ASSUME NEW d, DiskOK(d), NEW path, NEW f, FileOK(f)
  PROVE  /\ DiskOK(Put(d, path, f))
         /\ path \in DOMAIN Put(d, path, f) /\ FileIn(Put(d, path, f), path) = f
<1> DEFINE e == Put(d, path, f)
<1>1. /\ e = [x \in DOMAIN e |-> e[x]] /\ path \in DOMAIN e
      /\ \A x \in DOMAIN e : e[x] = IF x = path THEN f ELSE d[x]
      /\ \A x \in DOMAIN e : x = path \/ x \in DOMAIN d
  BY DEF Put
<1> HIDE DEF e
<1>2. \A x \in DOMAIN e : FileOK(e[x])
  BY <1>1 DEF DiskOK
<1> QED
  BY <1>1, <1>2 DEF DiskOK, FileIn, e

\* Nothing is written yet.
LEMMA OverNone ==
  ASSUME NEW old \in Seq(Unit), NEW u
  PROVE  Overwritten(old, old, u, 0)
<1>1. Len(old) \in Nat
  OBVIOUS
<1>2. Len(old) = IF Len(old) > 0 THEN Len(old) ELSE 0
  BY <1>1
<1>3. \A i \in 1 .. Len(old) : old[i] = IF i <= 0 THEN u[i] ELSE old[i]
  BY <1>1
<1> QED
  BY <1>2, <1>3 DEF Overwritten

\* A command with other values.
LEMMA CommandFields ==
  ASSUME NEW c, IsCommand(c), NEW stage, NEW source, NEW package, NEW next, NEW e,
         e = [op |-> c.op, in |-> c.in, out |-> c.out, arg |-> c.arg, stage |-> stage,
              source |-> source, package |-> package, before |-> c.before, next |-> next]
  PROVE  /\ IsCommand(e)
         /\ e.op = c.op /\ e.in = c.in /\ e.out = c.out /\ e.arg = c.arg /\ e.stage = stage
         /\ e.source = source /\ e.package = package /\ e.before = c.before /\ e.next = next
<1>1. /\ e.op = c.op /\ e.in = c.in /\ e.out = c.out /\ e.arg = c.arg /\ e.stage = stage
      /\ e.source = source /\ e.package = package /\ e.before = c.before /\ e.next = next
  OBVIOUS
<1>2. c.op \in {"tar2rpm", "sign", "inject", "dump"}
  BY DEF IsCommand
<1> QED
  BY <1>1, <1>2 DEF IsCommand

\* The next stage.
LEMMA GotoFields ==
  ASSUME NEW c, IsCommand(c), NEW stage, NEW e, e = [c EXCEPT !.stage = stage]
  PROVE  /\ IsCommand(e)
         /\ e.op = c.op /\ e.in = c.in /\ e.out = c.out /\ e.arg = c.arg /\ e.stage = stage
         /\ e.source = c.source /\ e.package = c.package /\ e.before = c.before
         /\ e.next = c.next
<1>1. e = [op |-> c.op, in |-> c.in, out |-> c.out, arg |-> c.arg, stage |-> stage,
           source |-> c.source, package |-> c.package, before |-> c.before, next |-> c.next]
  BY DEF IsCommand
<1>2. c.op \in {"tar2rpm", "sign", "inject", "dump"}
  BY DEF IsCommand
<1> QED
  BY <1>1, <1>2 DEF IsCommand

\* The invariant holds at first.
LEMMA InitInv == Init => CommandsInv
<1> SUFFICES ASSUME Init PROVE CommandsInv
  OBVIOUS
<1>1. ASSUME NEW p \in Packages PROVE FileOK(Units(p, FALSE))
  <2>1. p \in Package /\ FALSE \in BOOLEAN
    BY PackagesTyped
  <2>2. Units(p, FALSE) \in Seq(Unit) /\ Units(p, FALSE)[1] = LeadUnit(LeadName(p, FALSE))
    BY <2>1, UnitsShape
  <2>3. LeadUnit(LeadName(p, FALSE)).section = "lead"
    BY DEF LeadUnit
  <2> QED
    BY <2>2, <2>3 DEF FileOK
<1>2. PICK S \in SUBSET Paths : disk \in [S -> {Units(p, FALSE) : p \in Packages}]
  BY DEF Init
<1>3. DiskOK(disk)
  BY <1>1, <1>2 DEF DiskOK
<1> QED
  BY <1>3 DEF CommandsInv, EndOK, Init

\* What is true of the running command at its stage.
LEMMA AtStage ==
  ASSUME CommandsInv, cmd.stage # "none"
  PROVE  cmd # NoCommand /\ Running(disk, cmd) /\ exit = NoCommand /\ DiskOK(disk)
         /\ IsCommand(cmd)
<1>1. cmd # NoCommand
  BY NoCommandFields
<1> QED
  BY <1>1 DEF CommandsInv, Running

\* A command that is started is at its first stage.
LEMMA StartInv ==
  ASSUME CommandsInv, NEW c, NEW op \in {"tar2rpm", "sign", "inject", "dump"},
         NEW in, NEW out, NEW arg, NEW stage,
         c = [op |-> op, in |-> in, out |-> out, arg |-> arg, stage |-> stage,
             source |-> NoPackage, package |-> NoPackage, before |-> << >>, next |-> 1],
         IF op = "tar2rpm" THEN stage = "create" /\ arg.tar \in Tars
         ELSE \/ op = "sign" /\ stage = "key"
              \/ op = "inject" /\ stage = "read" /\ arg.index \in Int
              \/ op = "dump" /\ stage = "read",
         Start(c)
  PROVE  CommandsInv'
<1>1. disk' = disk /\ exit' = NoCommand /\ DiskOK(disk)
      /\ cmd' = [c EXCEPT !.before = File(c.out)]
  BY DEF Start, CommandsInv
<1>2. c = [op |-> op, in |-> in, out |-> out, arg |-> arg, stage |-> stage, source |-> NoPackage,
           package |-> NoPackage, before |-> << >>, next |-> 1]
  OBVIOUS
<1>3. cmd' = [op |-> op, in |-> in, out |-> out, arg |-> arg, stage |-> stage,
             source |-> NoPackage, package |-> NoPackage, before |-> FileIn(disk, out), next |-> 1]
  <2>1. PICK b : b = FileIn(disk, out)
    OBVIOUS
  <2>2. c.out = out
    BY <1>2
  <2>3. File(c.out) = b
    BY <2>1, <2>2 DEF File, FileIn
  <2>4. [c EXCEPT !.before = b] = [op |-> op, in |-> in, out |-> out, arg |-> arg,
          stage |-> stage,
           source |-> NoPackage, package |-> NoPackage, before |-> b, next |-> 1]
    BY ONLY <1>2
  <2> QED
    BY ONLY <1>1, <2>1, <2>3, <2>4
<1> DEFINE d == cmd'
<1>4. /\ d.op = op /\ d.in = in /\ d.out = out /\ d.arg = arg /\ d.stage = stage
      /\ d.source = NoPackage /\ d.package = NoPackage /\ d.before = FileIn(disk, out)
      /\ d.next = 1
  BY <1>3
<1>5. IsCommand(d)
  BY <1>3, <1>4 DEF IsCommand
<1> HIDE DEF d
<1>6. OutputOK(disk, d)
  BY <1>1, <1>4, FileTyped DEF OutputOK, Old
<1>7. IF d.op = "tar2rpm" THEN TarOK(d) ELSE ReadOK(d)
  BY <1>4 DEF TarOK, ReadOK
<1>8. d.op # NoCommand.op
  BY <1>4, NoCommandFields
<1> QED
  BY <1>1, <1>5, <1>6, <1>7, <1>8 DEF CommandsInv, Running, d

\* A command that can end may end.
LEMMA ExitInv ==
  ASSUME CommandsInv, cmd # NoCommand, NEW how, EndsSo(cmd, how), Exit(how), disk' = disk
  PROVE  CommandsInv'
<1>1. DiskOK(disk) /\ Running(disk, cmd)
  BY DEF CommandsInv
<1>2. EndOK(disk, exit')
  BY <1>1 DEF EndOK, Exit
<1> QED
  BY <1>1, <1>2 DEF CommandsInv, Exit

\* tar2rpm makes its output empty.
LEMMA CreateInv == CommandsInv /\ Create => CommandsInv'
<1> SUFFICES ASSUME CommandsInv, Create PROVE CommandsInv'
  OBVIOUS
<1>1. cmd # NoCommand /\ Running(disk, cmd) /\ exit = NoCommand /\ DiskOK(disk) /\ IsCommand(cmd)
      /\ cmd.stage = "create"
  BY AtStage DEF Create
<1>2. CASE Exit("error") /\ UNCHANGED disk
  BY <1>1, <1>2, ExitInv DEF EndsSo
<1>3. CASE Goto("tar") /\ disk' = Put(disk, cmd.out, << >>)
  <2> DEFINE c == cmd'
             d == disk'
  <2>1. /\ IsCommand(c)
        /\ c.op = cmd.op /\ c.out = cmd.out /\ c.arg = cmd.arg /\ c.stage = "tar"
        /\ c.package = cmd.package /\ c.before = cmd.before /\ c.next = cmd.next
    BY <1>1, <1>3, GotoFields DEF Goto
  <2>2. DiskOK(d) /\ cmd.out \in DOMAIN d /\ FileIn(d, cmd.out) = << >>
    BY <1>1, <1>3, PutTyped, EmptyFile
  <2> HIDE DEF c, d
  <2>3. cmd.op = "tar2rpm" /\ TarOK(cmd)
    BY <1>1 DEF Running, ReadOK
  <2>4. OutputOK(d, c)
    BY <1>1, <2>1, <2>2, <2>3 DEF Running, OutputOK, Old
  <2>5. TarOK(c)
    BY <1>1, <2>1, <2>3 DEF TarOK
  <2>6. c # NoCommand /\ exit' = NoCommand
    BY <1>1, <1>3, <2>1, NoCommandFields DEF Goto
  <2> QED
    BY <2>1, <2>2, <2>3, <2>4, <2>5, <2>6 DEF CommandsInv, Running, c, d
<1> QED
  BY <1>2, <1>3 DEF Create

\* The name of a compressor that can be set up is one that can be read.
LEMMA CompressorReads ==
  ASSUME NEW setting, SetupCompressor(setting)
  PROVE  CompressorName(setting) \in Text /\ SetupDecompressor(CompressorName(setting))
BY DEF SetupCompressor, CompressorName, SetupDecompressor, Text

\* The package that tar2rpm makes, field by field.
LEMMA NewTarPackage ==
  ASSUME NEW m, NEW z
  PROVE  [NoPackage EXCEPT !.name = "tar", !.lead = <<"tar", "1">>, !.files = m,
          !.compressor = z]
           = [name |-> "tar", files |-> m, log |-> << >>, compressor |-> z,
              lead |-> <<"tar", "1">>, signed |-> FALSE]
<1>1. PICK l, e : l = <<"tar", "1">> /\ e = EmptyMap
  OBVIOUS
<1>2. PICK N : N = [NoPackage EXCEPT !.name = "tar"]
  OBVIOUS
<1>3. N = [name |-> "tar", files |-> e, log |-> << >>, compressor |-> "",
           lead |-> <<"", "1">>, signed |-> FALSE]
  BY <1>1, <1>2 DEF NoPackage
<1>4. PICK P : P = [N EXCEPT !.lead = l]
  OBVIOUS
<1>5. P = [name |-> "tar", files |-> e, log |-> << >>, compressor |-> "",
           lead |-> l, signed |-> FALSE]
  BY ONLY <1>3, <1>4
<1>6. PICK Q : Q = [P EXCEPT !.files = m]
  OBVIOUS
<1>7. Q = [name |-> "tar", files |-> m, log |-> << >>, compressor |-> "",
           lead |-> l, signed |-> FALSE]
  BY ONLY <1>5, <1>6
<1>8. PICK R : R = [Q EXCEPT !.compressor = z]
  OBVIOUS
<1>9. R = [name |-> "tar", files |-> m, log |-> << >>, compressor |-> z,
           lead |-> l, signed |-> FALSE]
  BY ONLY <1>7, <1>8
<1>10. R = [NoPackage EXCEPT !.name = "tar", !.lead = <<"tar", "1">>, !.files = m,
        !.compressor = z]
  BY ONLY <1>1, <1>2, <1>4, <1>6, <1>8
<1> QED
  BY ONLY <1>1, <1>9, <1>10

\* It has the files that FromTar found.
LEMMA ReadTarInv == CommandsInv /\ ReadTar => CommandsInv'
<1> DEFINE tar == cmd.arg.tar
           r == FromTar(tar)
           name == CompressorName(cmd.arg.setting)
           p == [NoPackage EXCEPT !.name = "tar", !.lead = <<"tar", "1">>, !.files = r.files,
                            !.compressor = name]
<1> SUFFICES ASSUME CommandsInv, ReadTar PROVE CommandsInv'
  OBVIOUS
<1>1. cmd # NoCommand /\ Running(disk, cmd) /\ exit = NoCommand /\ DiskOK(disk) /\ IsCommand(cmd)
      /\ cmd.stage = "tar" /\ disk' = disk
  BY AtStage DEF ReadTar
<1>2. ASSUME Exit("error") PROVE CommandsInv'
  BY <1>1, <1>2, ExitInv DEF EndsSo
<1>3. ASSUME SetupCompressor(cmd.arg.setting), ~r.failed, UNCHANGED exit,
             cmd' = [cmd EXCEPT !.stage = "allow", !.package = p]
      PROVE  CommandsInv'
  <2>1. cmd.op = "tar2rpm" /\ TarOK(cmd)
    BY <1>1 DEF Running, ReadOK
  <2>2. tar \in Tars
    BY <2>1 DEF TarOK
  <2>3. r.files \in FileMaps /\ IsFiniteSet(DOMAIN r.files) /\ r.files = LastEntries(tar.entries)
    BY <1>3, <2>2, FromTarFinds DEF TarResults
  <2>4. name \in Text /\ SetupDecompressor(name)
    BY <1>3, CompressorReads
  <2> HIDE DEF r, name
  <2>5. p = [name |-> "tar", files |-> r.files, log |-> << >>, compressor |-> name,
             lead |-> <<"tar", "1">>, signed |-> FALSE]
    BY NewTarPackage
  <2>6. p \in Package /\ p.compressor = name /\ p.lead = <<p.name, "1">> /\ p.files = r.files
    <3>1. "tar" \in Text /\ << >> \in Seq(Nat) /\ <<"tar", "1">> \in Seq(Text)
      BY DEF Text
    <3>2. p.name = "tar" /\ p.compressor = name /\ p.lead = <<"tar", "1">> /\ p.files = r.files
      BY <2>5
    <3> HIDE DEF p
    <3>3. p \in Package
      BY <2>3, <2>4, <2>5, <3>1 DEF Package
    <3> QED
      BY <3>2, <3>3
  <2> HIDE DEF p
  <2> DEFINE c == cmd'
  <2>7. c = [op |-> cmd.op, in |-> cmd.in, out |-> cmd.out, arg |-> cmd.arg, stage |-> "allow",
             source |-> cmd.source, package |-> p, before |-> cmd.before, next |-> cmd.next]
    BY <1>1, <1>3 DEF IsCommand
  <2>8. /\ IsCommand(c)
        /\ c.op = cmd.op /\ c.out = cmd.out /\ c.arg = cmd.arg /\ c.stage = "allow"
        /\ c.package = p /\ c.before = cmd.before /\ c.next = cmd.next
    BY <1>1, <2>7 DEF IsCommand
  <2> HIDE DEF c
  <2>9. OutputOK(disk, c)
    BY <1>1, <2>1, <2>8 DEF Running, OutputOK, Old
  <2>10. TarOK(c)
    <3>1. SetupDecompressor(p.compressor)
      BY <2>4, <2>6
    <3>2. c.arg.tar \in Tars /\ p.files = LastEntries(c.arg.tar.entries)
      BY <2>2, <2>3, <2>6, <2>8
    <3> QED
      BY <2>6, <2>8, <3>1, <3>2 DEF TarOK
  <2>11. c # NoCommand
    BY <2>8, NoCommandFields
  <2> QED
    BY <1>1, <1>3, <2>1, <2>8, <2>9, <2>10, <2>11 DEF CommandsInv, Running, c
<1> QED
  BY <1>2, <1>3 DEF ReadTar

\* Of these the allow list leaves some.
LEMMA AllowListInv == CommandsInv /\ AllowList => CommandsInv'
<1> DEFINE list == cmd.arg.allow
           files == cmd.package.files
           kept == Restrict(files, {n \in DOMAIN files : files[n].kind = "dir" => n \in list})
<1> SUFFICES ASSUME CommandsInv, AllowList PROVE CommandsInv'
  OBVIOUS
<1>1. cmd # NoCommand /\ Running(disk, cmd) /\ exit = NoCommand /\ DiskOK(disk) /\ IsCommand(cmd)
      /\ cmd.stage = "allow" /\ disk' = disk
  BY AtStage DEF AllowList
<1>2. cmd.op = "tar2rpm" /\ TarOK(cmd)
  BY <1>1 DEF Running, ReadOK
<1>3. cmd.package \in Package /\ SetupDecompressor(cmd.package.compressor)
      /\ cmd.package.lead = <<cmd.package.name, "1">> /\ files = LastEntries(cmd.arg.tar.entries)
      /\ cmd.arg.tar \in Tars
  BY <1>1, <1>2 DEF TarOK
<1>4. files \in FileMaps /\ IsFiniteSet(DOMAIN files)
  BY <1>3 DEF Package
<1>5. ASSUME NEW m, m = KeptFiles(files, list), exit' = exit,
             cmd' = [cmd EXCEPT !.stage = "write", !.package = [cmd.package EXCEPT !.files = m]]
      PROVE  CommandsInv'
  <2>1. m \in FileMaps /\ IsFiniteSet(DOMAIN m)
    <3>1. PICK S \in SUBSET STRING :
            files \in [S -> [kind : {"dir", "link", "reg"}, body : Nat, owner : Text]]
      BY <1>4 DEF FileMaps
    <3>2. PICK T \in SUBSET S : m = [x \in T |-> files[x]]
      <4> DEFINE T == {n \in DOMAIN files : list = NoList \/ files[n].kind # "dir" \/ n \in list}
      <4>1. m = [x \in T |-> files[x]] /\ T \subseteq S
        BY <1>5, <3>1 DEF KeptFiles, Restrict
      <4> HIDE DEF T
      <4> QED
        BY <4>1
    <3>3. m \in [T -> [kind : {"dir", "link", "reg"}, body : Nat, owner : Text]]
          /\ T \in SUBSET STRING
      BY <3>1, <3>2
    <3>4. IsFiniteSet(T)
      BY <1>4, <3>1, FS_Subset
    <3> QED
      BY <3>2, <3>3, <3>4 DEF FileMaps
  <2> DEFINE q == cmd.package
             p == [q EXCEPT !.files = m]
             c == cmd'
  <2>2. p = [name |-> q.name, files |-> m, log |-> q.log, compressor |-> q.compressor,
             lead |-> q.lead, signed |-> q.signed]
    <3>1. q = [name |-> q.name, files |-> q.files, log |-> q.log, compressor |-> q.compressor,
               lead |-> q.lead, signed |-> q.signed]
      BY <1>3 DEF Package
    <3> HIDE DEF q
    <3> QED
      BY <3>1
  <2>3. p.name = q.name /\ p.files = m /\ p.compressor = q.compressor /\ p.lead = q.lead
    BY <2>2
  <2>4. c = [op |-> cmd.op, in |-> cmd.in, out |-> cmd.out, arg |-> cmd.arg, stage |-> "write",
             source |-> cmd.source, package |-> p, before |-> cmd.before, next |-> cmd.next]
    BY <1>1, <1>5 DEF IsCommand
  <2> HIDE DEF p
  <2>5. p \in Package
    BY <1>3, <2>1, <2>2 DEF Package
  <2>6. /\ IsCommand(c)
        /\ c.op = cmd.op /\ c.out = cmd.out /\ c.arg = cmd.arg /\ c.stage = "write"
        /\ c.package = p /\ c.before = cmd.before /\ c.next = cmd.next
    BY <1>1, <2>4 DEF IsCommand
  <2> HIDE DEF c, q
  <2>7. OutputOK(disk, c)
    <3>1. /\ FileOK(cmd.before) /\ cmd.out \in DOMAIN disk /\ cmd.next = 1
          /\ FileIn(disk, cmd.out) = << >>
      BY <1>1, <1>2 DEF Running, OutputOK, Old
    <3>2. Written(c) \in Seq(Unit) /\ Len(Written(c)) \in Nat
      <4>1. Written(c) = Units(p, FALSE) /\ FALSE \in BOOLEAN
        BY <1>2, <2>6 DEF Written
      <4> QED
        BY <2>5, <4>1, UnitsShape
    <3>3. Overwritten(<< >>, << >>, Written(c), 0)
      BY EmptyFile, OverNone
    <3>4. Old(c) = << >>
      BY <1>2, <2>6 DEF Old
    <3> QED
      BY <2>6, <3>1, <3>2, <3>3, <3>4 DEF OutputOK
  <2>8. TarOK(c)
    <3>1. SetupDecompressor(p.compressor)
      BY <1>3, <2>3 DEF q
    <3>2. c.arg.tar \in Tars /\ p.files = KeptFiles(LastEntries(c.arg.tar.entries), c.arg.allow)
      BY <1>3, <1>5, <2>3, <2>6
    <3>3. p.lead = <<p.name, "1">>
      BY <1>3, <2>3 DEF q
    <3> QED
      BY <2>5, <2>6, <3>1, <3>2, <3>3 DEF TarOK
  <2>9. c # NoCommand
    BY <2>6, NoCommandFields
  <2> QED
    BY <1>1, <1>2, <1>5, <2>6, <2>7, <2>8, <2>9 DEF CommandsInv, Running, c
<1>6. CASE list = NoList /\ Goto("write")
  <2>1. KeptFiles(files, list) = files
    <3>1. files = [x \in DOMAIN files |-> files[x]]
      BY <1>4 DEF FileMaps
    <3>2. {n \in DOMAIN files : list = NoList \/ files[n].kind # "dir" \/ n \in list} = DOMAIN files
      BY <1>6
    <3> QED
      BY <3>1, <3>2 DEF KeptFiles, Restrict
  <2>2. [cmd.package EXCEPT !.files = files] = cmd.package
    BY <1>3 DEF Package
  <2>3. [cmd EXCEPT !.stage = "write"] = [cmd EXCEPT !.stage = "write", !.package = cmd.package]
    BY <1>1 DEF IsCommand
  <2> QED
    BY <1>5, <1>6, <2>1, <2>2, <2>3 DEF Goto
<1>7. CASE list # NoList /\ Exit("error")
  BY <1>1, <1>7, ExitInv DEF EndsSo
<1>8. CASE /\ list # NoList /\ exit' = exit
           /\ cmd' = [cmd EXCEPT !.stage = "write", !.package.files =
                               Restrict(@, {n \in DOMAIN @ : @[n].kind = "dir" => n \in list})]
  <2>1. kept = KeptFiles(files, list)
    <3>1. {n \in DOMAIN files : list = NoList \/ files[n].kind # "dir" \/ n \in list}
            = {n \in DOMAIN files : files[n].kind = "dir" => n \in list}
      BY <1>8
    <3> QED
      BY <3>1 DEF KeptFiles
  <2>2. cmd' = [cmd EXCEPT !.stage = "write", !.package = [cmd.package EXCEPT !.files = kept]]
    BY <1>1, <1>8 DEF IsCommand
  <2> HIDE DEF kept
  <2> QED
    BY <1>5, <1>8, <2>1, <2>2
<1> QED
  BY <1>6, <1>7, <1>8 DEF AllowList

\* sign has its key.
LEMMA ReadKeyInv == CommandsInv /\ ReadKey => CommandsInv'
<1> SUFFICES ASSUME CommandsInv, ReadKey PROVE CommandsInv'
  OBVIOUS
<1>1. cmd # NoCommand /\ Running(disk, cmd) /\ exit = NoCommand /\ DiskOK(disk) /\ IsCommand(cmd)
      /\ cmd.stage = "key" /\ disk' = disk
  BY AtStage DEF ReadKey
<1>2. CASE Exit("error")
  BY <1>1, <1>2, ExitInv DEF EndsSo
<1>3. CASE Goto("read")
  <2> DEFINE c == cmd'
  <2>1. /\ IsCommand(c)
        /\ c.op = cmd.op /\ c.in = cmd.in /\ c.out = cmd.out /\ c.arg = cmd.arg
        /\ c.stage = "read"
        /\ c.source = cmd.source /\ c.package = cmd.package /\ c.before = cmd.before
        /\ c.next = cmd.next
    BY <1>1, <1>3, GotoFields DEF Goto
  <2> HIDE DEF c
  <2>2. cmd.op = "sign" /\ ReadOK(cmd)
    BY <1>1 DEF Running, TarOK, ReadOK
  <2>3. OutputOK(disk, c)
    BY <1>1, <2>1, <2>2 DEF Running, OutputOK, Old
  <2>4. ReadOK(c)
    BY <1>1, <2>1, <2>2 DEF ReadOK
  <2>5. c # NoCommand /\ exit' = NoCommand
    BY <1>1, <1>3, <2>1, NoCommandFields DEF Goto
  <2> QED
    BY <1>1, <2>1, <2>2, <2>3, <2>4, <2>5 DEF CommandsInv, Running, c
<1> QED
  BY <1>2, <1>3 DEF ReadKey

\* A package is read, and its lead is in the file.
LEMMA ReadInputInv == CommandsInv /\ ReadInput => CommandsInv'
<1> SUFFICES ASSUME CommandsInv, ReadInput PROVE CommandsInv'
  OBVIOUS
<1>1. cmd # NoCommand /\ Running(disk, cmd) /\ exit = NoCommand /\ DiskOK(disk) /\ IsCommand(cmd)
      /\ cmd.stage = "read" /\ disk' = disk
  BY AtStage DEF ReadInput
<1>2. PICK p \in Reads(File(cmd.in)) :
       \/ p = NoPackage /\ (Exit("error") \/ Exit("panic"))
       \/ p # NoPackage /\ cmd.op = "dump" /\ Exit("ok")
       \/ /\ p # NoPackage /\ cmd.op # "dump"
          /\ cmd' = [cmd EXCEPT !.source = p, !.package = [p EXCEPT !.signed = cmd.op = "sign"],
                       !.stage = IF cmd.op = "sign" THEN "open" ELSE "edit"]
          /\ UNCHANGED exit
  BY DEF ReadInput
<1>3. cmd.op # "tar2rpm" /\ ReadOK(cmd)
  BY <1>1 DEF Running, TarOK
<1>4. ASSUME NEW how \in {"error", "panic"}, Exit(how) PROVE CommandsInv'
  <2>1. EndsSo(cmd, how)
    BY <1>1, <1>4 DEF EndsSo
  <2> QED
    BY <1>1, <1>4, <2>1, ExitInv
<1>5. CASE p # NoPackage /\ cmd.op = "dump" /\ Exit("ok")
  BY <1>1, <1>5, ExitInv DEF EndsSo
<1>6. CASE /\ p # NoPackage /\ cmd.op # "dump"
           /\ cmd' = [cmd EXCEPT !.source = p, !.package = [p EXCEPT !.signed = cmd.op = "sign"],
                        !.stage = IF cmd.op = "sign" THEN "open" ELSE "edit"]
           /\ UNCHANGED exit
  <2> DEFINE c == cmd'
  <2>1. PICK stage, q : /\ stage = IF cmd.op = "sign" THEN "open" ELSE "edit"
                        /\ q = [p EXCEPT !.signed = cmd.op = "sign"]
    OBVIOUS
  <2>2. c = [op |-> cmd.op, in |-> cmd.in, out |-> cmd.out, arg |-> cmd.arg, stage |-> stage,
             source |-> p, package |-> q, before |-> cmd.before, next |-> cmd.next]
    <3>1. PICK k : k = [cmd EXCEPT !.source = p]
      OBVIOUS
    <3>2. k = [op |-> cmd.op, in |-> cmd.in, out |-> cmd.out, arg |-> cmd.arg,
            stage |-> cmd.stage,
             source |-> p, package |-> cmd.package, before |-> cmd.before, next |-> cmd.next]
      BY <1>1, <3>1 DEF IsCommand
    <3>3. PICK l : l = [k EXCEPT !.package = q]
      OBVIOUS
    <3>4. l = [op |-> cmd.op, in |-> cmd.in, out |-> cmd.out, arg |-> cmd.arg,
            stage |-> cmd.stage,
             source |-> p, package |-> q, before |-> cmd.before, next |-> cmd.next]
      BY ONLY <3>2, <3>3
    <3>5. c = [l EXCEPT !.stage = stage]
      BY ONLY <1>6, <2>1, <3>1, <3>3 DEF c
    <3> HIDE DEF c
    <3> QED
      BY ONLY <3>4, <3>5
  <2>3. /\ IsCommand(c)
        /\ c.op = cmd.op /\ c.in = cmd.in /\ c.out = cmd.out /\ c.arg = cmd.arg
        /\ c.stage = stage
        /\ c.source = p /\ c.package = q /\ c.before = cmd.before /\ c.next = cmd.next
    <3> HIDE DEF c
    <3> QED
      BY <1>1, <2>2 DEF IsCommand
  <2> HIDE DEF c
  <2>4. FileOK(FileIn(disk, cmd.in)) /\ File(cmd.in) = FileIn(disk, cmd.in)
    BY <1>1, FileTyped DEF File, FileIn
  <2>5. /\ p \in Package /\ SetupDecompressor(p.compressor)
        /\ Len(FileIn(disk, cmd.in)) > 0 /\ FileIn(disk, cmd.in)[1] = LeadUnit(p.lead)
    BY <1>2, <1>6, <2>4, ReadsPackage
  <2>6. cmd.in = cmd.out => FileIn(disk, cmd.in) = cmd.before
    BY <1>1, <1>3 DEF Running, OutputOK, Old
  <2>7. OutputOK(disk, c)
    BY <1>1, <1>3, <2>1, <2>3 DEF Running, OutputOK, Old
  <2>8. ReadOK(c)
    <3>1. c.in = c.out => Len(c.before) > 0 /\ c.before[1] = LeadUnit(c.source.lead)
      BY <2>3, <2>5, <2>6
    <3>2. c.source \in Package /\ SetupDecompressor(c.source.compressor)
      BY <2>3, <2>5
    <3>3. CASE cmd.op = "sign"
      <4>1. stage = "open" /\ c.package = [c.source EXCEPT !.signed = TRUE]
        <5>1. (cmd.op = "sign") = TRUE
          BY <3>3
        <5>2. q = [p EXCEPT !.signed = TRUE]
          BY <2>1, <5>1
        <5> QED
          BY <2>1, <2>3, <3>3, <5>2
      <4> QED
        BY <2>3, <3>1, <3>2, <3>3, <4>1 DEF ReadOK
    <3>4. CASE cmd.op # "sign"
      <4>1. stage = "edit" /\ c.package = [c.source EXCEPT !.signed = FALSE]
        <5>1. (cmd.op = "sign") = FALSE
          BY <3>4
        <5>2. q = [p EXCEPT !.signed = FALSE]
          BY <2>1, <5>1
        <5> QED
          BY <2>1, <2>3, <3>4, <5>2
      <4>2. cmd.op = "inject" /\ cmd.arg.index \in Int
        BY <1>3, <1>6, <3>4 DEF ReadOK
      <4> QED
        BY <2>3, <3>1, <3>2, <4>1, <4>2 DEF ReadOK
    <3> QED
      BY <3>3, <3>4
  <2>9. c # NoCommand /\ exit' = NoCommand
    <3>1. c.stage # "none"
      BY <2>1, <2>3
    <3> QED
      BY <1>1, <1>6, <3>1, NoCommandFields
  <2> QED
    BY <1>1, <1>3, <2>3, <2>7, <2>8, <2>9 DEF CommandsInv, Running, c
<1> QED
  BY <1>2, <1>4, <1>5, <1>6

\* The entry that is changed is the one that the index means.
LEMMA EditIsInjected ==
  ASSUME NEW q \in Package, NEW index \in Int, NEW i, i = Effective(index, Len(q.log)),
         i \in 0 .. Len(q.log) - 1
  PROVE  Injected([[q EXCEPT !.signed = FALSE] EXCEPT !.log[i + 1] = @ + 1], q, index)
<1> DEFINE n == Len(q.log)
           at == {j \in 1 .. n : index \in {j - 1, j - 1 - n}}
<1>1. q.log \in Seq(Nat) /\ n \in Nat
  BY DEF Package
<1>2. i \in Nat /\ i + 1 \in 1 .. n
  BY <1>1
<1>3. at = {i + 1}
  <2> HIDE DEF n
  <2> USE DEF n
  <2>1. i = IF index < 0 THEN n + index ELSE index
    BY DEF Effective
  <2> HIDE DEF n
  <2> QED
    BY <1>1, <1>2, <2>1
<1>4. PICK r : r = [q EXCEPT !.signed = FALSE]
  OBVIOUS
<1>5. r = [name |-> q.name, files |-> q.files, log |-> q.log, compressor |-> q.compressor,
           lead |-> q.lead, signed |-> FALSE]
  BY <1>4 DEF Package
<1>6. PICK l : l = [q.log EXCEPT ![i + 1] = @ + 1]
  OBVIOUS
<1>7. [r EXCEPT !.log[i + 1] = @ + 1] = [r EXCEPT !.log = l]
  BY <1>5, <1>6
<1>8. l = [j \in 1 .. n |-> IF j \in at THEN q.log[j] + 1 ELSE q.log[j]]
  <2>1. DOMAIN q.log = 1 .. n
    BY <1>1
  <2> HIDE DEF n, at
  <2> QED
    BY <1>3, <1>6, <2>1
<1>9. [r EXCEPT !.log = l] = [q EXCEPT !.signed = FALSE, !.log = l]
  BY <1>4
<1> QED
  BY <1>3, <1>4, <1>7, <1>8, <1>9 DEF Injected

\* inject-in-changelog changes one entry.
LEMMA EditInv == CommandsInv /\ Edit => CommandsInv'
<1> DEFINE q == cmd.source
           n == Len(q.log)
           index == cmd.arg.index
           i == Effective(index, n)
<1> SUFFICES ASSUME CommandsInv, Edit PROVE CommandsInv'
  OBVIOUS
<1>1. cmd # NoCommand /\ Running(disk, cmd) /\ exit = NoCommand /\ DiskOK(disk) /\ IsCommand(cmd)
      /\ cmd.stage = "edit" /\ disk' = disk
  BY AtStage DEF Edit
<1>2. cmd.op = "inject" /\ ReadOK(cmd) /\ index \in Int
  BY <1>1 DEF Running, TarOK, ReadOK
<1>3. /\ q \in Package /\ SetupDecompressor(q.compressor)
      /\ cmd.package = [q EXCEPT !.signed = FALSE]
      /\ cmd.in = cmd.out => Len(cmd.before) > 0 /\ cmd.before[1] = LeadUnit(q.lead)
  BY <1>1, <1>2 DEF ReadOK
<1>4. n \in Nat
  BY <1>3 DEF Package
<1>5. CASE Exit("error")
  <2>1. EndsSo(cmd, "error")
    BY <1>1 DEF EndsSo
  <2> QED
    BY <1>1, <1>5, <2>1, ExitInv
<1>6. CASE n > 0 /\ i = n /\ Exit("panic")
  <2>1. index = n
    <3> HIDE DEF n, index
    <3> QED
      BY <1>2, <1>4, <1>6 DEF Effective
  <2>2. EndsSo(cmd, "panic")
    BY <1>1, <2>1 DEF EndsSo
  <2> QED
    BY <1>1, <1>6, <2>2, ExitInv
<1>7. CASE /\ i \in 0 .. n - 1
           /\ cmd' = [cmd EXCEPT !.stage = "open", !.package.log[i + 1] = @ + 1]
           /\ UNCHANGED exit
  <2> DEFINE c == cmd'
             p == [cmd.package EXCEPT !.log[i + 1] = @ + 1]
  <2>1. Injected(p, q, index)
    BY <1>2, <1>3, <1>7, EditIsInjected
  <2>2. c = [cmd EXCEPT !.stage = "open", !.package = p]
    BY <1>1, <1>7 DEF IsCommand
  <2> HIDE DEF p
  <2>3. c = [op |-> cmd.op, in |-> cmd.in, out |-> cmd.out, arg |-> cmd.arg, stage |-> "open",
             source |-> q, package |-> p, before |-> cmd.before, next |-> cmd.next]
    BY <1>1, <2>2 DEF IsCommand
  <2> HIDE DEF c, q
  <2>4. /\ IsCommand(c)
        /\ c.op = cmd.op /\ c.in = cmd.in /\ c.out = cmd.out /\ c.arg = cmd.arg
        /\ c.stage = "open"
        /\ c.source = q /\ c.package = p /\ c.before = cmd.before /\ c.next = cmd.next
    BY <1>1, <2>3 DEF IsCommand
  <2>5. OutputOK(disk, c)
    BY <1>1, <1>2, <2>4 DEF Running, OutputOK, Old
  <2>6. ReadOK(c)
    BY <1>2, <1>3, <2>1, <2>4 DEF ReadOK
  <2>7. c # NoCommand
    BY <2>4, NoCommandFields
  <2> QED
    BY <1>1, <1>2, <1>7, <2>4, <2>5, <2>6, <2>7 DEF CommandsInv, Running, c
<1> QED
  BY <1>5, <1>6, <1>7 DEF Edit

\* The output is opened and stays as it is.
LEMMA OpenOutputInv == CommandsInv /\ OpenOutput => CommandsInv'
<1> SUFFICES ASSUME CommandsInv, OpenOutput PROVE CommandsInv'
  OBVIOUS
<1>1. cmd # NoCommand /\ Running(disk, cmd) /\ exit = NoCommand /\ DiskOK(disk) /\ IsCommand(cmd)
      /\ cmd.stage = "open"
  BY AtStage DEF OpenOutput
<1>2. CASE Exit("error") /\ UNCHANGED disk
  <2>1. EndsSo(cmd, "error")
    BY <1>1 DEF EndsSo
  <2> QED
    BY <1>1, <1>2, <2>1, ExitInv
<1>3. CASE Goto("write") /\ disk' = Put(disk, cmd.out, File(cmd.out))
  <2> DEFINE c == cmd'
             d == disk'
  <2>1. /\ IsCommand(c)
        /\ c.op = cmd.op /\ c.in = cmd.in /\ c.out = cmd.out /\ c.arg = cmd.arg
        /\ c.stage = "write"
        /\ c.source = cmd.source /\ c.package = cmd.package /\ c.before = cmd.before
        /\ c.next = cmd.next
    BY <1>1, <1>3, GotoFields DEF Goto
  <2>2. File(cmd.out) = FileIn(disk, cmd.out) /\ FileOK(FileIn(disk, cmd.out))
    BY <1>1, FileTyped DEF File, FileIn
  <2>3. DiskOK(d) /\ cmd.out \in DOMAIN d /\ FileIn(d, cmd.out) = FileIn(disk, cmd.out)
    BY <1>1, <1>3, <2>2, PutTyped
  <2> HIDE DEF c, d
  <2>4. cmd.op # "tar2rpm" /\ ReadOK(cmd)
    BY <1>1 DEF Running, TarOK
  <2>5. FileIn(d, c.out) = c.before /\ c.next = 1 /\ FileOK(c.before) /\ Old(c) = c.before
    BY <1>1, <2>1, <2>3, <2>4 DEF Running, OutputOK, Old
  <2>6. cmd.package \in Package
    BY <1>1, PackageTyped
  <2>7. Written(c) \in Seq(Unit) /\ Len(Written(c)) \in Nat
    <3>1. (c.op # "tar2rpm") \in BOOLEAN
      OBVIOUS
    <3> QED
      BY <2>1, <2>6, <3>1, UnitsShape DEF Written
  <2>8. Overwritten(c.before, c.before, Written(c), 0)
    BY <2>5, OverNone DEF FileOK
  <2>9. OutputOK(d, c)
    BY <2>1, <2>3, <2>5, <2>7, <2>8 DEF OutputOK
  <2>10. ReadOK(c)
    BY <1>1, <2>1, <2>4 DEF ReadOK
  <2>11. c # NoCommand /\ exit' = NoCommand
    BY <1>1, <1>3, <2>1, NoCommandFields DEF Goto
  <2> QED
    BY <2>1, <2>3, <2>4, <2>9, <2>10, <2>11 DEF CommandsInv, Running, c, d
<1> QED
  BY <1>2, <1>3 DEF OpenOutput

\* One more unit is written over what was there.
LEMMA WriteUnitInv == CommandsInv /\ WriteUnit => CommandsInv'
<1> SUFFICES ASSUME CommandsInv, WriteUnit PROVE CommandsInv'
  OBVIOUS
<1>1. cmd # NoCommand /\ Running(disk, cmd) /\ exit = NoCommand /\ DiskOK(disk) /\ IsCommand(cmd)
      /\ cmd.stage = "write"
  BY AtStage DEF WriteUnit
<1> DEFINE u == Written(cmd)
           f == FileIn(disk, cmd.out)
           g == Over(f, cmd.next, u[cmd.next])
           c == cmd'
           d == disk'
<1>2. u \in Seq(Unit) /\ Len(u) \in Nat /\ u[1].section = "lead"
  <2>1. /\ u \in Seq(Unit) /\ Len(u) \in Nat
        /\ u[1] = LeadUnit(LeadName(cmd.package, cmd.op # "tar2rpm"))
    BY <1>1, WrittenTyped
  <2>2. \A lead : LeadUnit(lead).section = "lead"
    BY DEF LeadUnit
  <2> QED
    BY <2>1, <2>2
<1>3. /\ cmd.next \in 1 .. Len(u) + 1 /\ Overwritten(f, Old(cmd), u, cmd.next - 1)
      /\ cmd.out \in DOMAIN disk /\ FileOK(cmd.before) /\ FileOK(f) /\ f = disk[cmd.out]
  BY <1>1, FileTyped DEF Running, OutputOK, FileIn
<1>4. /\ cmd.next <= Len(u) /\ d = [disk EXCEPT ![cmd.out] = g]
      /\ c = [cmd EXCEPT !.next = cmd.next + 1] /\ exit' = exit
  <2>1. Output = u
    BY DEF Output, Written
  <2> HIDE DEF u
  <2> QED
    BY <1>3, <2>1 DEF WriteUnit
<1> HIDE DEF u, f
<1>5. c = [op |-> cmd.op, in |-> cmd.in, out |-> cmd.out, arg |-> cmd.arg, stage |-> "write",
           source |-> cmd.source, package |-> cmd.package, before |-> cmd.before,
           next |-> cmd.next + 1]
  BY <1>1, <1>4 DEF IsCommand
<1> HIDE DEF c
<1>6. /\ IsCommand(c)
      /\ c.op = cmd.op /\ c.in = cmd.in /\ c.out = cmd.out /\ c.arg = cmd.arg
      /\ c.stage = "write"
      /\ c.source = cmd.source /\ c.package = cmd.package /\ c.before = cmd.before
      /\ c.next = cmd.next + 1
  BY <1>1, <1>5 DEF IsCommand
<1>7. Overwritten(g, Old(cmd), u, cmd.next)
  <2>1. PICK n : n = cmd.next - 1
    OBVIOUS
  <2>2. n \in Nat /\ n < Len(u) /\ n + 1 = cmd.next
    BY <1>2, <1>3, <1>4, <2>1
  <2>3. Old(cmd) \in Seq(Unit)
    BY <1>3, EmptyFile DEF Old, FileOK
  <2>4. Overwritten(f, Old(cmd), u, n)
    BY <1>3, <2>1
  <2> HIDE DEF g
  <2>5. g = Over(f, n + 1, u[n + 1])
    BY <2>2 DEF g
  <2> QED
    BY <1>2, <2>2, <2>3, <2>4, <2>5, OverNext
<1> HIDE DEF g
<1>8. FileOK(g)
  <2>1. g \in Seq(Unit)
    BY <1>7 DEF Overwritten
  <2>2. ASSUME g # << >> PROVE g[1].section = "lead"
    <3>1. Len(g) > 0 /\ Len(g) \in Nat
      BY <2>1, <2>2
    <3>2. g[1] = u[1]
      BY <1>3, <1>7, <3>1 DEF Overwritten
    <3> QED
      BY <1>2, <3>2
  <2> QED
    BY <2>1, <2>2 DEF FileOK
<1>9. DiskOK(d) /\ c.out \in DOMAIN d /\ FileIn(d, c.out) = g
  <2>1. /\ DOMAIN d = DOMAIN disk /\ d = [x \in DOMAIN disk |-> d[x]]
        /\ \A x \in DOMAIN disk : d[x] = IF x = cmd.out THEN g ELSE disk[x]
    BY <1>4
  <2> HIDE DEF d
  <2>2. \A x \in DOMAIN d : FileOK(d[x])
    BY <1>1, <1>8, <2>1 DEF DiskOK
  <2> QED
    BY <1>3, <1>6, <2>1, <2>2 DEF DiskOK, FileIn
<1> HIDE DEF d
<1>10. Written(c) = u /\ Old(c) = Old(cmd)
  BY <1>1, <1>6 DEF Written, Old, u
<1>11. OutputOK(d, c)
  <2>1. c.next \in 1 .. Len(Written(c)) + 1 /\ c.next - 1 = cmd.next
    BY <1>2, <1>3, <1>4, <1>6, <1>10
  <2>2. Overwritten(FileIn(d, c.out), Old(c), Written(c), c.next - 1)
    BY <1>7, <1>9, <1>10, <2>1
  <2> QED
    BY <1>3, <1>6, <1>9, <2>1, <2>2 DEF OutputOK
<1>12. IF c.op = "tar2rpm" THEN TarOK(c) ELSE ReadOK(c)
  <2>1. CASE cmd.op = "tar2rpm"
    <3>1. TarOK(cmd)
      BY <1>1, <2>1 DEF Running
    <3> QED
      BY <1>1, <1>6, <2>1, <3>1 DEF TarOK
  <2>2. CASE cmd.op # "tar2rpm"
    <3>1. ReadOK(cmd)
      BY <1>1, <2>2 DEF Running
    <3> QED
      BY <1>1, <1>6, <2>2, <3>1 DEF ReadOK
  <2> QED
    BY <2>1, <2>2
<1>13. c # NoCommand
  BY <1>6, NoCommandFields
<1> QED
  BY <1>1, <1>4, <1>6, <1>9, <1>11, <1>12, <1>13 DEF CommandsInv, Running, c, d

\* Write ends in one way or another.
LEMMA WriteEndsInv ==
  CommandsInv /\ (SignerFails \/ WriteFails \/ WriteEnds \/ Kill) => CommandsInv'
<1> SUFFICES ASSUME CommandsInv, SignerFails \/ WriteFails \/ WriteEnds \/ Kill
             PROVE  CommandsInv'
  OBVIOUS
<1>1. CASE SignerFails
  <2>1. cmd # NoCommand /\ EndsSo(cmd, "error")
    BY <1>1, AtStage DEF SignerFails, EndsSo
  <2> QED
    BY <1>1, <2>1, ExitInv DEF SignerFails
<1>2. CASE WriteFails
  <2>1. cmd # NoCommand /\ EndsSo(cmd, "io")
    BY <1>2, AtStage DEF WriteFails, EndsSo
  <2> QED
    BY <1>2, <2>1, ExitInv DEF WriteFails
<1>3. CASE WriteEnds
  <2>1. cmd # NoCommand /\ cmd.next > Len(Written(cmd))
    BY <1>3, AtStage DEF WriteEnds, Output, Written
  <2>2. EndsSo(cmd, "ok")
    BY <1>3, <2>1 DEF WriteEnds, EndsSo
  <2> QED
    BY <1>3, <2>1, <2>2, ExitInv DEF WriteEnds
<1>4. CASE Kill
  <2>1. cmd # NoCommand /\ EndsSo(cmd, "killed")
    BY <1>4 DEF Kill, EndsSo
  <2> QED
    BY <1>4, <2>1, ExitInv DEF Kill
<1> QED
  BY <1>1, <1>2, <1>3, <1>4

\* Any command may be started.
LEMMA CommandInv == CommandsInv /\ Command => CommandsInv'
<1> SUFFICES ASSUME CommandsInv, Command PROVE CommandsInv'
  OBVIOUS
<1>1. ASSUME NEW out \in Paths, NEW tar \in Tars, NEW setting \in Settings,
        NEW allow \in AllowLists,
             StartTar2rpm(out, tar, setting, allow)
      PROVE  CommandsInv'
  <2>1. PICK arg : arg = [tar |-> tar, setting |-> setting, allow |-> allow]
    OBVIOUS
  <2>2. arg.tar \in Tars
    BY <2>1
  <2>3. PICK c : c = [NoCommand EXCEPT !.op = "tar2rpm", !.out = out, !.stage = "create",
          !.arg = arg]
    OBVIOUS
  <2>4. c = [op |-> "tar2rpm", in |-> "", out |-> out, arg |-> arg, stage |-> "create",
             source |-> NoPackage, package |-> NoPackage, before |-> << >>, next |-> 1]
    BY <2>1, <2>3 DEF NoCommand
  <2>5. Start(c)
    BY <1>1, <2>1, <2>3 DEF StartTar2rpm
  <2> QED
    BY <2>2, <2>4, <2>5, StartInv
<1>2. ASSUME NEW in \in Paths, NEW out \in Paths, StartSign(in, out)
      PROVE  CommandsInv'
  <2>1. PICK arg : arg = EmptyMap
    OBVIOUS
  <2>2. PICK c : c = [NoCommand EXCEPT !.op = "sign", !.in = in, !.out = out, !.stage = "key"]
    OBVIOUS
  <2>3. c = [op |-> "sign", in |-> in, out |-> out, arg |-> arg, stage |-> "key",
             source |-> NoPackage, package |-> NoPackage, before |-> << >>, next |-> 1]
    BY <2>1, <2>2 DEF NoCommand
  <2>4. Start(c)
    BY <1>2, <2>1, <2>2 DEF StartSign
  <2> QED
    BY <2>3, <2>4, StartInv
<1>3. ASSUME NEW in \in Paths, NEW out \in Paths, NEW index \in Indexes,
             StartInject(in, out, index)
      PROVE  CommandsInv'
  <2>1. PICK arg : arg = [index |-> index]
    OBVIOUS
  <2>2. arg.index \in Int
    BY <2>1, CommandsAssumption
  <2>3. PICK c : c = [NoCommand EXCEPT !.op = "inject", !.in = in, !.out = out,
          !.stage = "read", !.arg = arg]
    OBVIOUS
  <2>4. c = [op |-> "inject", in |-> in, out |-> out, arg |-> arg, stage |-> "read",
             source |-> NoPackage, package |-> NoPackage, before |-> << >>, next |-> 1]
    BY <2>1, <2>3 DEF NoCommand
  <2>5. Start(c)
    BY <1>3, <2>1, <2>3 DEF StartInject
  <2> QED
    BY <2>2, <2>4, <2>5, StartInv
<1>4. ASSUME NEW in \in Paths, StartDump(in)
      PROVE  CommandsInv'
  <2>1. PICK arg : arg = EmptyMap
    OBVIOUS
  <2>2. PICK c : c = [NoCommand EXCEPT !.op = "dump", !.in = in, !.out = in, !.stage = "read"]
    OBVIOUS
  <2>3. c = [op |-> "dump", in |-> in, out |-> in, arg |-> arg, stage |-> "read",
             source |-> NoPackage, package |-> NoPackage, before |-> << >>, next |-> 1]
    BY <2>1, <2>2 DEF NoCommand
  <2>4. Start(c)
    BY <1>4, <2>1, <2>2 DEF StartDump
  <2> QED
    BY <2>3, <2>4, StartInv
<1> QED
  BY <1>1, <1>2, <1>3, <1>4 DEF Command

\* Every step.
LEMMA NextInv == CommandsInv /\ [Next]_vars => CommandsInv'
<1> SUFFICES ASSUME CommandsInv, [Next]_vars PROVE CommandsInv'
  OBVIOUS
<1>1. CASE Command
  BY <1>1, CommandInv
<1>2. CASE Step
  BY <1>2, CreateInv, ReadTarInv, AllowListInv, ReadKeyInv, ReadInputInv, EditInv, OpenOutputInv,
     WriteUnitInv, WriteEndsInv DEF Step
<1>3. CASE Kill
  BY <1>3, WriteEndsInv
<1>4. CASE UNCHANGED vars
  BY <1>4 DEF vars, CommandsInv
<1> QED
  BY <1>1, <1>2, <1>3, <1>4 DEF Next

\* The invariant always holds.
LEMMA CommandsInvAlways == Spec => []CommandsInv
BY InitInv, NextInv, PTL DEF Spec

\* A command that reports success has left the whole package in its output, and it can be
\* read back unless a longer file was written over: tar2rpm (main.go:122-173) the last entry
\* of every name in the stream, sign the input with a signature.
THEOREM SuccessCorrect == Spec => []SuccessReadsBack
BY CommandsInvAlways, InvSuccess, PTL

\* A command that fails for another reason than w.Write leaves the package it works on in
\* place as it was (sign/main.go:86, rpm.go:272), and tar2rpm no trace of an older file.
THEOREM FailureCorrect == Spec => []FailureKeepsOld
BY CommandsInvAlways, InvFailure, PTL

\* inject-in-changelog adds to the one entry that the index means and to no other
\* (inject-in-changelog/main.go:60-70).
THEOREM InjectCorrect == Spec => []InjectChangesOne
BY CommandsInvAlways, InvInject, PTL
=============================================================================
