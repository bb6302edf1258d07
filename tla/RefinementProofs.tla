-------------------------- MODULE RefinementProofs --------------------------
(***************************************************************************)
(* That RPM implements PackageWriter, but for its ending: the package a     *)
(* first Write puts out is the one RPMRefinement defines of the caller's    *)
(* values, for all values of the constants of RPM with no ghost file that   *)
(* has another flag.                                                        *)
(***************************************************************************)
EXTENDS RPMProofs, RPMRefinement

-----------------------------------------------------------------------------
(* Listings.                                                                *)

\* s is a sequence that lists S in the order R.
IsListing(s, S, R) == s \in Seq(S) /\ Lists(s, S, R)

Strict(R) == \A a, b : <<a, b>> \in R => <<b, a>> \notin R

\* No element is twice in a list that has a strict order.
LEMMA ListsOnce ==
  ASSUME NEW s, NEW S, NEW R, NEW n \in Nat, s \in [1 .. n -> S], Lists(s, S, R), Strict(R),
         NEW i \in 1 .. n, NEW j \in 1 .. n, s[i] = s[j]
  PROVE  i = j
<1>1. ~(i < j) /\ ~(j < i)
  BY DEF Lists, Strict
<1> QED
  BY <1>1

\* Two lists of one set in one strict order are the same.
LEMMA ListsAgree ==
  ASSUME NEW S, NEW R, Strict(R), NEW n \in Nat,
         NEW s \in [1 .. n -> S], Lists(s, S, R), NEW t \in [1 .. n -> S], Lists(t, S, R)
  PROVE  s = t
<1> DEFINE A == {k \in Nat : \A i \in 1 .. n : i <= k => s[i] = t[i]}
<1>1. 0 \in A
  OBVIOUS
<1>2. ASSUME NEW k \in Nat, k \in A PROVE k + 1 \in A
  <2>1. SUFFICES ASSUME k + 1 \in 1 .. n PROVE s[k + 1] = t[k + 1]
    BY <1>2
  <2>2. PICK j \in 1 .. n : t[j] = s[k + 1]
    BY <2>1 DEF Lists
  <2>3. PICK l \in 1 .. n : s[l] = t[k + 1]
    BY <2>1 DEF Lists
  <2>4. ~(j <= k)
    <3>1. SUFFICES ASSUME j <= k PROVE FALSE
      OBVIOUS
    <3>2. s[j] = s[k + 1]
      BY <1>2, <2>2, <3>1
    <3> QED
      BY <2>1, <3>1, <3>2, ListsOnce
  <2>5. ~(l <= k)
    <3>1. SUFFICES ASSUME l <= k PROVE FALSE
      OBVIOUS
    <3>2. t[l] = t[k + 1]
      BY <1>2, <2>3, <3>1
    <3> QED
      BY <2>1, <3>1, <3>2, ListsOnce
  <2>6. CASE j = k + 1 \/ l = k + 1
    BY <2>2, <2>3, <2>6
  <2>7. CASE k + 1 < j /\ k + 1 < l
    <3>1. <<t[k + 1], t[j]>> \in R /\ <<s[k + 1], s[l]>> \in R
      BY <2>1, <2>7 DEF Lists
    <3> QED
      BY <2>2, <2>3, <3>1 DEF Strict
  <2> QED
    BY <2>4, <2>5, <2>6, <2>7
<1> HIDE DEF A
<1>3. n \in A
  BY <1>1, <1>2, Induction
<1>4. \A i \in 1 .. n : s[i] = t[i]
  BY <1>3 DEF A
<1> QED
  BY <1>4

\* A listing is the one that Listing chooses.
LEMMA ListingIs ==
  ASSUME NEW S, NEW R, Strict(R), NEW s, IsListing(s, S, R)
  PROVE  Listing(S, R) = s /\ Cardinality(S) = Len(s)
<1> DEFINE n == Len(s)
<1>1. n \in Nat /\ s \in [1 .. n -> S] /\ Lists(s, S, R)
  BY DEF IsListing
<1> HIDE DEF n
<1>2. Cardinality(S) = n
  <2>1. \A i, j \in 1 .. n : s[i] = s[j] => i = j
    BY <1>1, ListsOnce
  <2>2. \A x \in S : \E i \in 1 .. n : s[i] = x
    BY <1>1 DEF Lists
  <2>3. s \in Bijection(1 .. n, S)
    BY <1>1, <2>1, <2>2 DEF Bijection, Injection, Surjection, IsInjective
  <2> QED
    BY <1>1, <2>3, FS_CountingElements DEF ExistsBijection
<1> DEFINE t == Listing(S, R)
<1>3. t \in [1 .. n -> S] /\ Lists(t, S, R)
  BY <1>1, <1>2 DEF Listing
<1> HIDE DEF t
<1>4. t = s
  BY <1>1, <1>3, ListsAgree
<1> QED
  BY <1>2, <1>4 DEF t, n

\* One more element, behind all others.
LEMMA ListsMore ==
  ASSUME NEW S, NEW R, NEW s, IsListing(s, S, R), NEW x, NEW Q, R \subseteq Q,
         \A y \in S : <<y, x>> \in Q
  PROVE  IsListing(Append(s, x), S \cup {x}, Q)
<1> DEFINE T == S \cup {x}
           n == Len(s)
           t == Append(s, x)
<1>1. n \in Nat /\ s \in Seq(S) /\ s \in Seq(T) /\ DOMAIN s = 1 .. n /\ x \in T
  BY DEF IsListing
<1>2. /\ t \in Seq(T) /\ Len(t) = n + 1 /\ t[n + 1] = x
      /\ \A i \in 1 .. n : t[i] = s[i]
  BY <1>1, AppendProperties
<1>3. DOMAIN t = 1 .. n + 1
  BY <1>2
<1> HIDE DEF t, n
<1>4. \A y \in T : \E i \in 1 .. n + 1 : t[i] = y
  BY <1>1, <1>2 DEF IsListing, Lists
<1>5. ASSUME NEW i \in 1 .. n + 1, NEW j \in 1 .. n + 1, i < j
      PROVE  <<t[i], t[j]>> \in Q
  <2>1. i \in 1 .. n /\ t[i] = s[i] /\ s[i] \in S
    BY <1>1, <1>2, <1>5
  <2>2. CASE j = n + 1
    BY <1>2, <2>1, <2>2
  <2>3. CASE j \in 1 .. n
    BY <1>1, <1>2, <1>5, <2>1, <2>3 DEF IsListing, Lists
  <2> QED
    BY <1>1, <2>2, <2>3
<1> QED
  BY <1>2, <1>3, <1>4, <1>5 DEF IsListing, Lists, t

\* The orders are strict.
LEMMA OrdersStrict ==
  ASSUME NEW N, N \subseteq Nat
  PROVE  Strict(Before(N)) /\ Strict(MentionedBefore(N))
<1>1. ASSUME NEW a, NEW b, <<a, b>> \in Before(N), <<b, a>> \in Before(N)
      PROVE  FALSE
  <2>1. a \in N /\ b \in N /\ a < b /\ b < a
    BY <1>1 DEF Before
  <2> QED
    BY <2>1
<1>2. ASSUME NEW a, NEW b, <<a, b>> \in MentionedBefore(N), <<b, a>> \in MentionedBefore(N)
      PROVE  FALSE
  <2>1. PICK m \in N : SplitDir[m] = a /\ \A k \in N : SplitDir[k] = b => m < k
    BY <1>2 DEF MentionedBefore
  <2>2. PICK n \in N : SplitDir[n] = b /\ \A k \in N : SplitDir[k] = a => n < k
    BY <1>2 DEF MentionedBefore
  <2> QED
    BY <2>1, <2>2
<1> QED
  BY <1>1, <1>2 DEF Strict

\* A name behind all others: what is before what stays, and its directory, if it is
\* a new one, comes last.
LEMMA OrdersGrow ==
  ASSUME NEW N, N \subseteq Nat, NEW x \in Nat, \A n \in N : n < x
  PROVE  /\ Before(N) \subseteq Before(N \cup {x})
         /\ MentionedBefore(N) \subseteq MentionedBefore(N \cup {x})
         /\ \A n \in N : <<n, x>> \in Before(N \cup {x})
         /\ DirsOf(N \cup {x}) = DirsOf(N) \cup {SplitDir[x]}
         /\ SplitDir[x] \notin DirsOf(N) =>
              \A d \in DirsOf(N) : <<d, SplitDir[x]>> \in MentionedBefore(N \cup {x})
<1> DEFINE M == N \cup {x}
<1>1. Before(N) \subseteq Before(M) /\ \A n \in N : <<n, x>> \in Before(M)
  BY DEF Before
<1>2. DirsOf(M) = DirsOf(N) \cup {SplitDir[x]}
  BY DEF DirsOf
<1>3. ASSUME NEW p \in MentionedBefore(N) PROVE p \in MentionedBefore(M)
  <2>1. /\ p \in DirsOf(M) \X DirsOf(M)
        /\ \E n \in N : SplitDir[n] = p[1] /\ \A m \in N : SplitDir[m] = p[2] => n < m
    BY <1>2, <1>3 DEF MentionedBefore
  <2>2. \E n \in M : SplitDir[n] = p[1] /\ \A m \in M : SplitDir[m] = p[2] => n < m
    BY <2>1
  <2> QED
    BY <2>1, <2>2 DEF MentionedBefore
<1>4. ASSUME SplitDir[x] \notin DirsOf(N), NEW d \in DirsOf(N)
      PROVE  <<d, SplitDir[x]>> \in MentionedBefore(M)
  <2>1. PICK n \in N : SplitDir[n] = d
    BY DEF DirsOf
  <2>2. \A m \in M : SplitDir[m] = SplitDir[x] => m = x
    BY <1>4 DEF DirsOf
  <2> DEFINE p == <<d, SplitDir[x]>>
  <2>3. p \in DirsOf(M) \X DirsOf(M) /\ p[1] = d /\ p[2] = SplitDir[x]
    BY <1>2
  <2> HIDE DEF p
  <2>4. \E k \in M : SplitDir[k] = p[1] /\ \A m \in M : SplitDir[m] = p[2] => k < m
    BY <2>1, <2>2, <2>3
  <2>5. p \in MentionedBefore(M)
    BY <2>3, <2>4 DEF MentionedBefore
  <2> QED
    BY <2>5 DEF p
<1> QED
  BY <1>1, <1>2, <1>3, <1>4
-----------------------------------------------------------------------------
(* What the caller has set.                                                 *)

MetaType ==
  [name : Nat, version : Nat, release : Nat, arch : Nat, epoch : Nat, sourcePackage : Nat,
   rels : [RelTags -> Seq([name : Nat, sense : Senses, version : Nat])]]

\* The relation that NewRPM has a package provide.
Self == [name |-> meta.name, sense |-> "=", version |-> FullVersion(meta.version, meta.release)]

\* The metadata is that of NewRPM, the map of signatures was made, and nothing
\* closes an RPM.
SetInv ==
  /\ meta \in MetaType
  /\ Self \in Range(meta.rels.provides)
  /\ lead = [name |-> meta.name, fromBinary |-> FALSE]
  /\ customSigsNil = FALSE
  /\ closed = FALSE
  /\ Root \notin DOMAIN files

\* A new object is one of a package that provides itself, without files (NewRPM).
LEMMA InitSet == Init => SetInv
<1> SUFFICES ASSUME NEW m \in Metas, NewRPM(m) PROVE SetInv
  BY DEF Init
<1>1. m \in MetaType
  BY MetasAssumption DEF MetaType
<1> DEFINE r == [name |-> m.name, sense |-> "=", version |-> FullVersion(m.version, m.release)]
           p == AddIfMissing(m.rels.provides, r)
           Rel == [name : Nat, sense : Senses, version : Nat]
<1>2. FullVersion(m.version, m.release) \in Nat
  BY <1>1 DEF FullVersion, MetaType
<1>3. r \in Rel /\ m.rels \in [RelTags -> Seq(Rel)] /\ m.rels.provides \in Seq(Rel)
  <2>1. m.name \in Nat /\ m.rels \in [RelTags -> Seq(Rel)]
    BY <1>1 DEF MetaType
  <2>2. "provides" \in RelTags
    BY DEF RelTags
  <2>4. "=" \in Senses
    BY DEF Senses
  <2>3. m.rels["provides"] \in Seq(Rel)
    BY <2>1, <2>2
  <2> QED
    BY <2>1, <2>3, <2>4, <1>2
<1> HIDE DEF r
<1>4. p \in Seq(Rel) /\ r \in Range(p)
  <2>1. CASE r \in Range(m.rels.provides)
    BY <1>3, <2>1 DEF AddIfMissing
  <2>2. CASE r \notin Range(m.rels.provides)
    <3>1. p = Append(m.rels.provides, r)
      BY <2>2 DEF AddIfMissing
    <3>2. p \in Seq(Rel) /\ p[Len(m.rels.provides) + 1] = r
          /\ Len(m.rels.provides) + 1 \in DOMAIN p
      BY <1>3, <3>1
    <3> QED
      BY <3>2 DEF Range
  <2> QED
    BY <2>1, <2>2
<1> DEFINE a == IF m.arch = 0 THEN 6 ELSE m.arch
           q == [m.rels EXCEPT !.provides = p]
<1>5. q \in [RelTags -> Seq(Rel)] /\ q.provides = p
  BY <1>3, <1>4 DEF RelTags
<1>6. meta = [m EXCEPT !.arch = a, !.rels = q]
  BY DEF NewRPM, NewRPMMeta, r
<1> HIDE DEF p, q
<1>7. a \in Nat
  BY <1>1 DEF MetaType
<1> HIDE DEF a
<1>8. /\ meta \in MetaType /\ meta.rels = q /\ meta.name = m.name
      /\ meta.version = m.version /\ meta.release = m.release
  BY <1>1, <1>5, <1>6, <1>7 DEF MetaType
<1>9. Self = r /\ Self \in Range(meta.rels.provides)
  BY <1>4, <1>5, <1>8 DEF Self, r
<1>10. /\ lead = [name |-> m.name, fromBinary |-> FALSE] /\ customSigsNil = FALSE
       /\ closed = FALSE /\ Root \notin DOMAIN files
  BY DEF NewRPM, EmptyMap
<1> QED
  BY <1>8, <1>9, <1>10 DEF SetInv

\* No call changes the metadata or the lead, and none adds the root: AddFile skips it.
LEMMA NextSet == SetInv /\ [Next]_vars => SetInv'
<1> SUFFICES ASSUME SetInv, [Next]_vars PROVE SetInv'
  OBVIOUS
<1>1. UNCHANGED <<meta, lead, customSigsNil, closed>>
  BY DEF Next, Call, WriteStart, WriteStep, AddFile, AllowListDirs, AddScript, SetChangelog,
     AddCustomTag, AddCustomSig, SetPGPSigner, ClearSignatures, SetSignature, Calling,
     WriteFile, ClosePayload, WriteLead, WriteSignatures, WritePad, WriteHeader, WritePayload,
     vars, apiVars
<1>2. Root \notin DOMAIN files'
  <2>1. CASE Call
    <3>1. \/ files' = files \/ \E n, f : n # Root /\ files' = Put(files, n, f)
          \/ \E T : T \subseteq DOMAIN files /\ files' = Restrict(files, T)
      BY <2>1 DEF Call, AddFile, AllowListDirs, AddScript, SetChangelog, AddCustomTag,
         AddCustomSig, SetPGPSigner, ClearSignatures, SetSignature, Calling, apiVars
    <3>2. ASSUME NEW n, NEW f, n # Root, files' = Put(files, n, f) PROVE Root \notin DOMAIN files'
      BY <3>2 DEF SetInv, Put
    <3>3. ASSUME NEW T, T \subseteq DOMAIN files, files' = Restrict(files, T)
          PROVE  Root \notin DOMAIN files'
      <4>1. DOMAIN files' = T
        BY <3>3 DEF Restrict
      <4> QED
        BY <3>3, <4>1 DEF SetInv
    <3> QED
      BY <3>1, <3>2, <3>3 DEF SetInv
  <2>2. CASE ~Call
    <3>1. files' = files
      BY <2>2 DEF Next, WriteStart, WriteStep, WriteFile, ClosePayload, WriteLead,
         WriteSignatures, WritePad, WriteHeader, WritePayload, vars, apiVars
    <3> QED
      BY <3>1 DEF SetInv
  <2> QED
    BY <2>1, <2>2
<1> QED
  BY <1>1, <1>2 DEF SetInv, Self

\* So what the caller has set can be asked of a writer of packages.
LEMMA ContentIs == SetInv => IsContent(Content)
<1>1. ASSUME SetInv PROVE Content.lead = Content.meta.name /\ Root \notin DOMAIN Content.files
  BY <1>1 DEF SetInv, Content
<1>2. ASSUME SetInv
      PROVE  [name |-> Content.meta.name, sense |-> "=",
              version |-> FullVersion(Content.meta.version, Content.meta.release)]
                \in Range(Content.meta.rels.provides)
  BY <1>2 DEF SetInv, Self, Content
<1> QED
  BY <1>1, <1>2 DEF IsContent
-----------------------------------------------------------------------------
(* The files of a first Write.                                              *)

\* The files that Write has passed, those of them that have a payload, and what the
\* payload has of one.
Passed == DOMAIN files \ todo
WithPayload(N) == {n \in N : files[n].type # {"ghost"}}
EntryFor(n) == CpioEntry(n, files[n])

\* ns and ps list those files, and the arrays and the payload are what comes of them.
Listed(ns, ps) ==
  /\ IsListing(ns, Passed, Before(Passed))
  /\ IsListing(ps, WithPayload(Passed), Before(WithPayload(Passed)))
  /\ Len(rows) = Len(ns)
  /\ \A i \in 1 .. Len(ns) :
       /\ IsRowOf(i, ns[i])
       /\ \A a \in FileArrays \ {"dirindexes"} :
            rows[i][a] = Row(NewDirIndex, ns[i], files[ns[i]])[a]
  /\ Len(cpio.entries) = Len(ps)
  /\ \A k \in 1 .. Len(ps) : cpio.entries[k] = EntryFor(ps[k])

\* Nothing is in the arrays of an object that was not written; while its first
\* Write runs, they are made of the files it has passed, which come before those
\* left.
ListedInv ==
  /\ writes = 0 => rows = << >> /\ cpio.entries = << >>
  /\ writes = 1 /\ pc \in {"files"} \cup SectionSteps => \E ns, ps : Listed(ns, ps)
  /\ writes = 1 /\ pc = "files" => \A n \in Passed, k \in todo : n < k

\* What was passed stays as it was passed while the walk's variables stay.
LEMMA ListedStays ==
  ASSUME NEW ns, NEW ps, Listed(ns, ps), UNCHANGED <<files, todo, rows, di, cpio.entries>>
  PROVE  Listed(ns, ps)'
<1>1. Passed' = Passed /\ WithPayload(Passed)' = WithPayload(Passed)
  BY DEF Passed, WithPayload
<1>2. \A i, n : IsRowOf(i, n)' = IsRowOf(i, n)
  BY DEF IsRowOf
<1>3. \A n : EntryFor(n)' = EntryFor(n)
  BY DEF EntryFor
<1> QED
  BY <1>1, <1>2, <1>3 DEF Listed

\* Nothing is listed by the empty list.
LEMMA EmptyListing == ASSUME NEW R PROVE IsListing(<< >>, {}, R)
BY DEF IsListing, Lists

\* A first Write starts with no file passed.
LEMMA StartListed ==
  ASSUME rows' = << >>, cpio.entries' = << >>, Passed' = {}
  PROVE  Listed(<< >>, << >>)'
<1>1. WithPayload({})' = {}
  BY DEF WithPayload
<1>2. Len(<< >>) = 0
  OBVIOUS
<1> QED
  BY <1>1, <1>2, EmptyListing DEF Listed

\* Another file passed: it is the last in each list.
LEMMA FileListed ==
  ASSUME ObjectOK, ObjectOK', NEW n \in Names, WriteFile(n), pc' = "files",
         NEW ns, NEW ps, Listed(ns, ps), \A m \in Passed, k \in todo : m < k
  PROVE  /\ \E ms, qs : Listed(ms, qs)'
         /\ \A m \in Passed', k \in todo' : m < k
<1> DEFINE f == files[n]
           P == Passed
           Q == WithPayload(P)
<1>1. /\ n \in todo /\ n \in DOMAIN files /\ todo' = todo \ {n} /\ files' = files
      /\ \A k \in todo : n <= k
      /\ DOMAIN files \subseteq Names /\ f \in FileType
  BY FileTyped DEF WriteFile, IsNext, ObjectOK, Return, apiVars
<1>2. /\ di' = DirAdd(di, SplitDir[n])
      /\ rows' = Append(rows, Row(di, n, f))
      /\ \/ IsGhost(f) /\ cpio' = cpio
         \/ ~IsGhost(f) /\ CpioWrite(n, f)
  BY DEF WriteFile, Return
<1>3. P' = P \cup {n} /\ P \subseteq Nat /\ n \in Nat /\ n \notin P /\ \A m \in P : m < n
  BY <1>1, NamesAssumption DEF Passed
<1>4. \A m \in P', k \in todo' : m < k
  <2>1. \A k \in todo' : k \in todo /\ k # n /\ k \in Nat
    BY <1>1, NamesAssumption DEF ObjectOK
  <2> QED
    BY <1>1, <1>3, <2>1
<1> HIDE DEF P
<1>5. IsListing(Append(ns, n), P', Before(P'))
  <2>1. Before(P) \subseteq Before(P') /\ \A m \in P : <<m, n>> \in Before(P')
    BY <1>3, OrdersGrow
  <2>2. IsListing(ns, P, Before(P))
    BY DEF Listed, P
  <2> QED
    BY <1>3, <2>1, <2>2, ListsMore
<1>6. \E qs : /\ IsListing(qs, WithPayload(P'), Before(WithPayload(P')))
              /\ Len(cpio'.entries) = Len(qs)
              /\ \A k \in 1 .. Len(qs) : cpio'.entries[k] = EntryFor(qs[k])
  <2>1. /\ IsListing(ps, Q, Before(Q)) /\ Len(cpio.entries) = Len(ps)
        /\ \A k \in 1 .. Len(ps) : cpio.entries[k] = EntryFor(ps[k])
    BY DEF Listed, P
  <2>2. CASE IsGhost(f)
    <3>1. WithPayload(P') = Q
      BY <1>3, <2>2 DEF WithPayload, IsGhost
    <3> QED
      BY <1>2, <2>1, <2>2, <3>1
  <2>3. CASE ~IsGhost(f)
    <3>1. WithPayload(P') = Q \cup {n} /\ Q \subseteq P
      BY <1>3, <2>3 DEF WithPayload, IsGhost
    <3>2. Before(Q) \subseteq Before(Q \cup {n}) /\ \A m \in Q : <<m, n>> \in Before(Q \cup {n})
      BY <1>3, <3>1, OrdersGrow
    <3>3. IsListing(Append(ps, n), Q \cup {n}, Before(Q \cup {n}))
      BY <2>1, <3>2, ListsMore
    <3>4. cpio'.entries = Append(cpio.entries, EntryFor(n)) /\ cpio.entries \in Seq(EntryType)
      BY <1>2, <2>3 DEF CpioWrite, EntryFor, ObjectOK
    <3>5. ps \in Seq(Q)
      BY <2>1 DEF IsListing
    <3>6. /\ Len(cpio'.entries) = Len(cpio.entries) + 1 /\ Len(cpio.entries) \in Nat
          /\ cpio'.entries[Len(cpio.entries) + 1] = EntryFor(n)
          /\ \A k \in 1 .. Len(cpio.entries) : cpio'.entries[k] = cpio.entries[k]
      BY <3>4
    <3>7. /\ Len(Append(ps, n)) = Len(ps) + 1 /\ Append(ps, n)[Len(ps) + 1] = n
          /\ \A k \in 1 .. Len(ps) : Append(ps, n)[k] = ps[k]
      BY <3>5
    <3>8. \A k \in 1 .. Len(Append(ps, n)) : cpio'.entries[k] = EntryFor(Append(ps, n)[k])
      BY <2>1, <3>6, <3>7
    <3> QED
      BY <2>1, <3>1, <3>3, <3>6, <3>7, <3>8
  <2> QED
    BY <2>2, <2>3
<1>8. /\ Len(rows') = Len(Append(ns, n))
      /\ \A i \in 1 .. Len(Append(ns, n)) :
           /\ IsRowOf(i, Append(ns, n)[i])'
           /\ \A a \in FileArrays \ {"dirindexes"} :
                rows'[i][a] = Row(NewDirIndex, Append(ns, n)[i], files[Append(ns, n)[i]])[a]
  <2> DEFINE ms == Append(ns, n)
             l == Len(ns)
  <2>1. ns \in Seq(P) /\ Len(rows) = l /\ l \in Nat /\ P \subseteq Names
    BY <1>1 DEF Listed, IsListing, Passed, P
  <2>2. Len(ms) = l + 1 /\ ms[l + 1] = n /\ \A i \in 1 .. l : ms[i] = ns[i] /\ ns[i] \in Names
    BY <2>1
  <2>3. /\ Len(rows') = l + 1 /\ rows'[l + 1] = Row(di, n, f)
        /\ \A i \in 1 .. l : rows'[i] = rows[i]
    BY <1>2, <2>1 DEF ObjectOK
  <2>4. IsRowOf(l + 1, n)'
    <3>1. IsRowOf(Len(rows), n)'
      BY NewRowNames
    <3> QED
      BY <2>3, <3>1 DEF IsRowOf
  <2>5. \A a \in FileArrays \ {"dirindexes"} : Row(di, n, f)[a] = Row(NewDirIndex, n, f)[a]
    BY DEF Row, FileArrays
  <2> HIDE DEF ms, l
  <2>6. ASSUME NEW i \in 1 .. l
        PROVE  /\ IsRowOf(i, ms[i])'
               /\ \A a \in FileArrays \ {"dirindexes"} :
                    rows'[i][a] = Row(NewDirIndex, ms[i], files[ms[i]])[a]
    <3>1. /\ IsRowOf(i, ns[i])
          /\ \A a \in FileArrays \ {"dirindexes"} :
               rows[i][a] = Row(NewDirIndex, ns[i], files[ns[i]])[a]
      BY DEF Listed, l
    <3>2. IsRowOf(i, ns[i])'
      BY <2>1, <2>2, <3>1, OldRowsName
    <3>3. ms[i] = ns[i] /\ rows'[i] = rows[i]
      BY <2>2, <2>3
    <3>4. \A a \in FileArrays \ {"dirindexes"} :
            rows'[i][a] = Row(NewDirIndex, ms[i], files[ms[i]])[a]
      BY <3>1, <3>3
    <3> QED
      BY <3>2, <3>3, <3>4 DEF IsRowOf
  <2>7. /\ IsRowOf(l + 1, ms[l + 1])'
        /\ \A a \in FileArrays \ {"dirindexes"} :
             rows'[l + 1][a] = Row(NewDirIndex, ms[l + 1], files[ms[l + 1]])[a]
    BY <2>2, <2>3, <2>4, <2>5 DEF IsRowOf
  <2>8. \A i \in 1 .. l + 1 : i \in 1 .. l \/ i = l + 1
    BY <2>1
  <2> QED
    BY <2>2, <2>3, <2>6, <2>7, <2>8 DEF ms
<1>9. PICK qs : /\ IsListing(qs, WithPayload(P'), Before(WithPayload(P')))
                /\ Len(cpio'.entries) = Len(qs)
                /\ \A k \in 1 .. Len(qs) : cpio'.entries[k] = EntryFor(qs[k])
  BY <1>6
<1>10. /\ P' = Passed' /\ WithPayload(P)' = WithPayload(P') /\ \A m : EntryFor(m)' = EntryFor(m)
  BY <1>1 DEF P, WithPayload, EntryFor
<1>11. Listed(Append(ns, n), qs)'
  BY <1>1, <1>5, <1>8, <1>9, <1>10 DEF Listed, P
<1> QED
  BY <1>4, <1>10, <1>11

\* Every step keeps it.
LEMMA NextListed == ObjectOK /\ ObjectOK' /\ Called /\ ListedInv /\ [Next]_vars => ListedInv'
<1> SUFFICES ASSUME ObjectOK, ObjectOK', Called, ListedInv, [Next]_vars PROVE ListedInv'
  OBVIOUS
<1>0. writes \in Nat
  BY CallsAssumption DEF ObjectOK
<1>1. CASE Call
  <2>1. pc' \in {"idle", "panic"} /\ UNCHANGED <<rows, cpio, writes>>
    BY <1>1 DEF Call, AddFile, AllowListDirs, AddScript, SetChangelog, AddCustomTag,
       AddCustomSig, SetPGPSigner, ClearSignatures, SetSignature, Calling, Idle,
       Panic, payloadVars, writeVars
  <2> QED
    BY <2>1 DEF ListedInv, SectionSteps
<1>2. CASE WriteStart
  <2>1. /\ UNCHANGED <<rows, cpio, files>> /\ writes' = writes + 1
        /\ pc' = "idle" \/ (pc' = "files" /\ todo' = DOMAIN files)
    BY <1>2 DEF WriteStart, payloadVars, apiVars
  <2>2. writes' # 0 /\ (writes' = 1 => writes = 0)
    BY <1>0, <2>1
  <2>3. CASE pc' = "files"
    <3>1. Passed' = {}
      BY <2>1, <2>3 DEF Passed
    <3>2. ASSUME writes = 0 PROVE \E ns, ps : Listed(ns, ps)'
      BY <2>1, <3>1, <3>2, StartListed DEF ListedInv
    <3> QED
      BY <2>1, <2>2, <3>1, <3>2 DEF ListedInv
  <2> QED
    BY <2>1, <2>2, <2>3 DEF ListedInv, SectionSteps
<1>3. ASSUME NEW n \in Names, WriteFile(n) PROVE ListedInv'
  <2>1. pc = "files" /\ writes' = writes /\ writes > 0 /\ pc' \in {"files", "idle"}
    BY <1>3 DEF WriteFile, Return, Called
  <2>2. ASSUME writes = 1, pc' = "files"
        PROVE  /\ \E ns, ps : Listed(ns, ps)'
               /\ \A m \in Passed', k \in todo' : m < k
    BY <1>3, <2>1, <2>2, FileListed DEF ListedInv
  <2> QED
    BY <1>0, <2>1, <2>2 DEF ListedInv, SectionSteps
<1>4. ASSUME WriteStep, ~ \E n \in Names : WriteFile(n) PROVE ListedInv'
  <2>1. /\ pc \in {"files"} \cup SectionSteps /\ writes' = writes /\ pc' # "files"
        /\ UNCHANGED <<files, rows, di>>
    BY <1>4 DEF WriteStep, ClosePayload, WriteLead, WriteSignatures, WritePad, WriteHeader,
       WritePayload, Take, Refuse, Return, Goto, apiVars, payloadVars, SectionSteps
  <2>2. cpio'.entries = cpio.entries
    BY <1>4 DEF WriteStep, ClosePayload, WriteLead, WriteSignatures, WritePad, WriteHeader,
       WritePayload, payloadVars, ObjectOK
  <2>3. pc' \in SectionSteps => todo' = todo
    BY <1>4 DEF WriteStep, ClosePayload, WriteLead, WriteSignatures, WritePad, WriteHeader,
       WritePayload, Take, Refuse, Return, Goto, SectionSteps
  <2>4. ASSUME writes = 1, pc' \in SectionSteps PROVE \E ns, ps : Listed(ns, ps)'
    <3>1. PICK ns, ps : Listed(ns, ps)
      BY <2>1, <2>4 DEF ListedInv
    <3>2. Listed(ns, ps)'
      BY <2>1, <2>2, <2>3, <2>4, <3>1, ListedStays
    <3> QED
      BY <3>2
  <2>5. writes # 0
    BY <2>1 DEF Called
  <2> QED
    BY <1>0, <2>1, <2>4, <2>5 DEF ListedInv
<1>5. CASE UNCHANGED vars
  <2>1. UNCHANGED <<pc, writes, files, todo, rows, di, cpio>>
    BY <1>5 DEF vars, apiVars, payloadVars, writeVars
  <2>2. ASSUME NEW ns, NEW ps, Listed(ns, ps) PROVE Listed(ns, ps)'
    BY <2>1, <2>2, ListedStays
  <2>3. Passed' = Passed
    BY <2>1 DEF Passed
  <2> QED
    BY <2>1, <2>2, <2>3 DEF ListedInv
<1> QED
  BY <1>1, <1>2, <1>3, <1>4, <1>5 DEF Next, WriteStep

-----------------------------------------------------------------------------
(* The directories of a new object's first Write.                           *)

\* The directory list is that of the files passed.
DirsListed == IsListing(di.l, DirsOf(Passed), MentionedBefore(Passed))

\* With the files, it is listed what was passed.
Walked(ns, ps) == Listed(ns, ps) /\ DirsListed

WalkInv ==
  /\ Called /\ ListedInv
  /\ writes = 0 => di = NewDirIndex
  /\ writes = 1 /\ pc \in {"files"} \cup SectionSteps => DirsListed

\* A file passed brings its directory, if that is a new one.
LEMMA FileDirs ==
  ASSUME PathOK, NEW n \in Names, WriteFile(n), pc' = "files", DirsListed,
         \A m \in Passed, k \in todo : m < k
  PROVE  DirsListed'
<1> DEFINE P == Passed
<1>1. /\ n \in todo /\ n \in DOMAIN files /\ todo' = todo \ {n} /\ files' = files
      /\ DOMAIN files \subseteq Names
  BY DEF WriteFile, IsNext, PathOK, ObjectOK, Return, apiVars
<1>2. di' = DirAdd(di, SplitDir[n])
  BY DEF WriteFile
<1>3. P' = P \cup {n} /\ P \subseteq Nat /\ n \in Nat /\ \A m \in P : m < n
  BY <1>1, NamesAssumption DEF Passed
<1> HIDE DEF P
<1>7. IsListing(di'.l, DirsOf(P'), MentionedBefore(P'))
  <2> DEFINE d == SplitDir[n]
  <2>1. /\ MentionedBefore(P) \subseteq MentionedBefore(P') /\ DirsOf(P') = DirsOf(P) \cup {d}
        /\ d \notin DirsOf(P) => \A e \in DirsOf(P) : <<e, d>> \in MentionedBefore(P')
    BY <1>3, OrdersGrow
  <2>2. IsListing(di.l, DirsOf(P), MentionedBefore(P))
    BY DEF DirsListed, P
  <2>3. d \in DOMAIN di.m <=> d \in DirsOf(P)
    <3>1. d \in DOMAIN di.m => d \in DirsOf(P)
      <4>1. ASSUME d \in DOMAIN di.m PROVE di.l[di.m[d] + 1] = d /\ di.m[d] + 1 \in 1 .. Len(di.l)
        BY <4>1 DEF PathOK, ObjectOK, MapLeads
      <4>2. di.l \in Seq(DirsOf(P))
        BY <2>2 DEF IsListing
      <4> QED
        BY <4>1, <4>2
    <3>2. ASSUME d \in DirsOf(P) PROVE d \in DOMAIN di.m
      <4>1. PICK i \in DOMAIN di.l : di.l[i] = d
        BY <2>2, <3>2 DEF IsListing, Lists
      <4>2. i \in 1 .. Len(di.l)
        BY <2>2, <4>1 DEF IsListing
      <4> QED
        BY <4>1, <4>2 DEF PathOK, DirIndexOK
    <3> QED
      BY <3>1, <3>2
  <2> HIDE DEF d
  <2>4. CASE d \in DirsOf(P)
    <3>1. di' = di /\ DirsOf(P') = DirsOf(P)
      BY <1>2, <2>1, <2>3, <2>4 DEF DirAdd, d
    <3> QED
      BY <2>1, <2>2, <3>1 DEF IsListing, Lists
  <2>5. CASE d \notin DirsOf(P)
    <3>1. di'.l = Append(di.l, d)
      BY <1>2, <2>3, <2>5 DEF DirAdd, d
    <3>2. \A e \in DirsOf(P) : <<e, d>> \in MentionedBefore(P')
      BY <2>1, <2>5
    <3> QED
      BY <2>1, <2>2, <3>1, <3>2, ListsMore
  <2> QED
    BY <2>4, <2>5
<1> QED
  BY <1>7 DEF DirsListed, P

\* Every step keeps the directories listed.
LEMMA NextWalk == PathOK /\ PathOK' /\ WalkInv /\ [Next]_vars => WalkInv'
<1> SUFFICES ASSUME PathOK, PathOK', WalkInv, [Next]_vars PROVE WalkInv'
  OBVIOUS
<1>0. writes \in Nat
  BY CallsAssumption DEF PathOK, ObjectOK
<1>1. Called' /\ ListedInv'
  BY NextCalled, NextListed DEF WalkInv, PathOK
<1>2. ASSUME UNCHANGED <<di, writes>>,
             pc' \in {"files"} \cup SectionSteps =>
               pc \in {"files"} \cup SectionSteps /\ UNCHANGED <<files, todo>>
      PROVE  WalkInv'
  BY <1>1, <1>2 DEF WalkInv, DirsListed, Passed
<1>3. CASE Call
  <2>1. pc' \in {"idle", "panic"} /\ UNCHANGED <<di, writes>>
    BY <1>3 DEF Call, AddFile, AllowListDirs, AddScript, SetChangelog, AddCustomTag,
       AddCustomSig, SetPGPSigner, ClearSignatures, SetSignature, Calling, Idle,
       Panic, payloadVars, writeVars
  <2> QED
    BY <1>2, <2>1 DEF SectionSteps
<1>4. CASE WriteStart
  <2>1. /\ UNCHANGED <<di, files>> /\ writes' = writes + 1
        /\ pc' = "idle" \/ (pc' = "files" /\ todo' = DOMAIN files)
    BY <1>4 DEF WriteStart, payloadVars, apiVars
  <2>2. writes' # 0 /\ (writes' = 1 => writes = 0)
    BY <1>0, <2>1
  <2>3. ASSUME writes' = 1, pc' = "files" PROVE DirsListed'
    <3>1. Passed' = {} /\ di'.l = << >>
      BY <2>1, <2>2, <2>3 DEF Passed, WalkInv, NewDirIndex
    <3>2. DirsOf({}) = {}
      BY DEF DirsOf
    <3> QED
      BY <3>1, <3>2, EmptyListing DEF DirsListed
  <2> QED
    BY <1>1, <2>1, <2>2, <2>3 DEF WalkInv, SectionSteps
<1>5. ASSUME NEW n \in Names, WriteFile(n) PROVE WalkInv'
  <2>1. pc = "files" /\ writes' = writes /\ writes > 0 /\ pc' \in {"files", "idle"}
    BY <1>5 DEF WriteFile, Return, WalkInv, Called
  <2>2. ASSUME writes = 1, pc' = "files" PROVE DirsListed'
    BY <1>5, <2>1, <2>2, FileDirs DEF WalkInv, ListedInv
  <2> QED
    BY <1>0, <1>1, <2>1, <2>2 DEF WalkInv, SectionSteps
<1>6. ASSUME WriteStep, ~ \E n \in Names : WriteFile(n) PROVE WalkInv'
  <2>1. /\ pc \in {"files"} \cup SectionSteps /\ UNCHANGED <<files, di, writes>>
        /\ pc' # "files" /\ (pc' \in SectionSteps => todo' = todo)
    BY <1>6 DEF WriteStep, ClosePayload, WriteLead, WriteSignatures, WritePad, WriteHeader,
       WritePayload, Take, Refuse, Return, Goto, apiVars, payloadVars, SectionSteps
  <2> QED
    BY <1>2, <2>1
<1>7. CASE UNCHANGED vars
  BY <1>2, <1>7 DEF vars, apiVars, payloadVars, writeVars
<1> QED
  BY <1>3, <1>4, <1>5, <1>6, <1>7 DEF Next, WriteStep

\* A new object has passed nothing.
LEMMA InitWalk == Init => WalkInv
BY DEF Init, NewRPM, WalkInv, Called, ListedInv, SectionSteps

-----------------------------------------------------------------------------
(* Header and payload of a first Write.                                     *)

\* What writeFile makes of a file is what the package has of it.
LEMMA DescribedIs ==
  ASSUME NEW c, NEW n, c.files[n] \in FileType
  PROVE  /\ ModeOf(c.files[n]) = EntryMode(c.files[n])
         /\ Described(c, n).dirindexes = Position(SplitDir[n], Directories(c)) - 1
         /\ \A a \in FileArrays \ {"dirindexes"} :
              Described(c, n)[a] = Row(NewDirIndex, n, c.files[n])[a]
<1> DEFINE f == c.files[n]
<1>1. f.mode \subseteq TypeBits
  BY DEF FileType
<1>2. /\ Kind(f) = "directory" <=> IsDir(f)
      /\ Kind(f) = "symlink" <=> IsSymlink(f) /\ ~IsDir(f)
      /\ Kind(f) = "file" <=> IsRegular(f)
  <2>1. "dir" \notin f.mode => (f.mode = Symlink <=> Symlink \subseteq f.mode)
    BY <1>1 DEF TypeBits, Symlink
  <2>2. CASE "dir" \in f.mode
    <3>1. f.mode # Symlink
      BY <2>2 DEF Symlink
    <3> QED
      BY <2>2, <3>1 DEF Kind, IsDir, IsRegular
  <2>3. CASE "dir" \notin f.mode /\ f.mode = Symlink
    BY <2>1, <2>3 DEF Kind, IsDir, IsSymlink, IsRegular
  <2>4. CASE "dir" \notin f.mode /\ f.mode # Symlink
    BY <2>1, <2>4 DEF Kind, IsDir, IsSymlink, IsRegular
  <2> QED
    BY <2>2, <2>3, <2>4
<1>3. ModeOf(f) = EntryMode(f)
  BY <1>2 DEF ModeOf, EntryMode
<1> HIDE DEF f
<1>4. Described(c, n) =
        [dirindexes |-> Position(SplitDir[n], Directories(c)) - 1,
         basenames |-> SplitBase[n],
         fileowners |-> f.owner, filemtimes |-> f.time, fileflags |-> f.type,
         filesizes |-> IF IsDir(f) THEN 4096 ELSE f.body % Words,
         filedigests |-> IF IsRegular(f) THEN <<f.body>> ELSE << >>,
         filelinktos |-> IF IsSymlink(f) /\ ~IsDir(f) THEN <<f.body>> ELSE << >>,
         filemodes |-> EntryMode(f)]
  BY <1>2, <1>3 DEF Described, f
<1>5. \A a \in FileArrays \ {"dirindexes"} : Described(c, n)[a] = Row(NewDirIndex, n, f)[a]
  BY <1>4 DEF Row, FileArrays
<1> QED
  BY <1>3, <1>4, <1>5 DEF f

\* Where the files of a first Write were passed, its file index and its payload are
\* those of the package.
LEMMA WalkedAll ==
  ASSUME GhostsAlone, PathOK, WalkInv, writes = 1, pc \in SectionSteps, cpio.closed
  PROVE  /\ FileNames(Content) \in Seq(Names)
         /\ Len(rows) = Len(FileNames(Content)) /\ Len(rows) = Cardinality(DOMAIN files)
         /\ Directories(Content) = di.l
         /\ \A a \in FileArrays : Column(Content, a) = [i \in DOMAIN rows |-> rows[i][a]]
         /\ PayloadOf(Content) = Payload
<1>1. PICK ns, ps : Walked(ns, ps)
  BY DEF WalkInv, ListedInv, Walked
<1> DEFINE N == DOMAIN files
           Q == WithPayload(N)
<1>2. Passed = N /\ N \subseteq Names /\ N \subseteq Nat
  <2>1. todo = {}
    BY DEF PathOK, ObjectOK, SectionSteps
  <2> QED
    BY <2>1, NamesAssumption DEF Passed, PathOK, ObjectOK
<1>3. Content.files = files /\ \A n \in N : Content.files[n] \in FileType
  BY DEF Content, PathOK, ObjectOK
<1>4. FileNames(Content) = ns /\ ns \in Seq(N) /\ Cardinality(N) = Len(ns)
  <2>1. IsListing(ns, N, Before(N)) /\ Strict(Before(N))
    BY <1>1, <1>2, OrdersStrict DEF Walked, Listed, DirsListed
  <2>2. Listing(N, Before(N)) = ns /\ Cardinality(N) = Len(ns)
    BY <2>1, ListingIs
  <2> QED
    BY <1>3, <2>1, <2>2 DEF FileNames, IsListing
<1>5. Directories(Content) = di.l
  <2>1. IsListing(di.l, DirsOf(N), MentionedBefore(N)) /\ Strict(MentionedBefore(N))
    BY <1>1, <1>2, OrdersStrict DEF Walked, Listed, DirsListed
  <2>2. Listing(DirsOf(N), MentionedBefore(N)) = di.l
    BY <2>1, ListingIs
  <2> QED
    BY <1>3, <2>2 DEF Directories
<1>6. PayloadOf(Content) = Payload
  <2>1. IsListing(ps, Q, Before(Q)) /\ Strict(Before(Q))
    BY <1>1, <1>2, OrdersStrict DEF Walked, Listed, WithPayload
  <2>2. Listing(Q, Before(Q)) = ps /\ ps \in Seq(Q)
    BY <2>1, ListingIs DEF IsListing
  <2>3. InPayload(Content) = Q
    <3>1. \A n \in N : "ghost" \notin files[n].type <=> files[n].type # {"ghost"}
      BY DEF PathOK, TypeOK, GhostsAlone
    <3> QED
      BY <1>3, <3>1 DEF InPayload, WithPayload
  <2> DEFINE entries == [i \in DOMAIN ps |-> EntryFor(ps[i])]
  <2>4. PayloadOf(Content) = [entries |-> entries, complete |-> TRUE]
    <3>1. \A i \in DOMAIN ps : ps[i] \in N
      BY <2>2 DEF WithPayload
    <3>2. \A i \in DOMAIN ps : ModeOf(files[ps[i]]) = EntryMode(files[ps[i]])
      BY <1>3, <3>1, DescribedIs
    <3> QED
      BY <1>3, <2>2, <2>3, <3>2 DEF PayloadOf, EntryFor, CpioEntry
  <2>5. /\ cpio.entries \in Seq(EntryType) /\ Len(cpio.entries) = Len(ps)
        /\ \A k \in 1 .. Len(ps) : cpio.entries[k] = EntryFor(ps[k])
    BY <1>1 DEF Walked, Listed, PathOK, ObjectOK
  <2>6. entries = cpio.entries
    <3>1. DOMAIN cpio.entries = DOMAIN ps /\ DOMAIN ps = 1 .. Len(ps)
      BY <2>2, <2>5
    <3>2. cpio.entries = [k \in DOMAIN cpio.entries |-> cpio.entries[k]]
      BY <2>5
    <3> QED
      BY <2>5, <3>1, <3>2
  <2>7. cpio.closed = TRUE
    BY DEF PathOK, ObjectOK
  <2> QED
    BY <2>4, <2>6, <2>7 DEF Payload
<1>7. /\ Len(rows) = Len(ns) /\ rows \in Seq(RowType) /\ DOMAIN rows = DOMAIN ns
      /\ DOMAIN ns = 1 .. Len(ns)
  BY <1>1, <1>4 DEF Walked, Listed, PathOK, ObjectOK
<1>8. ASSUME NEW a \in FileArrays PROVE Column(Content, a) = [i \in DOMAIN rows |-> rows[i][a]]
  <2>1. ASSUME NEW i \in DOMAIN ns
        PROVE  rows[i][a] = IF a = "dirindexes" THEN Position(SplitDir[ns[i]], di.l) - 1
                                                ELSE Row(NewDirIndex, ns[i], files[ns[i]])[a]
    <3>1. /\ i \in 1 .. Len(ns) /\ IsRowOf(i, ns[i])
          /\ a # "dirindexes" => rows[i][a] = Row(NewDirIndex, ns[i], files[ns[i]])[a]
      BY <1>1, <1>7 DEF Walked, Listed
    <3>2. rows[i].dirindexes = Position(SplitDir[ns[i]], di.l) - 1
      <4> DEFINE p == rows[i].dirindexes + 1
                 q == Position(SplitDir[ns[i]], di.l)
      <4>1. p \in 1 .. Len(di.l) /\ di.l[p] = SplitDir[ns[i]] /\ rows[i].dirindexes = p - 1
        BY <3>1 DEF IsRowOf, PathOK, ObjectOK
      <4>2. DOMAIN di.l = 1 .. Len(di.l)
        BY DEF PathOK, ObjectOK
      <4>3. q \in 1 .. Len(di.l) /\ di.l[q] = SplitDir[ns[i]]
        BY <4>1, <4>2 DEF Position
      <4> HIDE DEF p, q
      <4>4. di.m[di.l[p]] = p - 1 /\ di.m[di.l[q]] = q - 1
        BY <4>1, <4>3 DEF PathOK, DirIndexOK
      <4>5. p - 1 = q - 1
        BY <4>1, <4>3, <4>4
      <4> QED
        BY <4>1, <4>5 DEF q
    <3> QED
      BY <3>1, <3>2
  <2>2. Column(Content, a) =
          [i \in DOMAIN ns |->
             IF a = "dirindexes" THEN Position(SplitDir[ns[i]], di.l) - 1
                                 ELSE Row(NewDirIndex, ns[i], files[ns[i]])[a]]
    <3>1. ASSUME NEW i \in DOMAIN ns
          PROVE  Described(Content, ns[i])[a] =
                   IF a = "dirindexes" THEN Position(SplitDir[ns[i]], di.l) - 1
                                       ELSE Row(NewDirIndex, ns[i], files[ns[i]])[a]
      <4>1. Content.files[ns[i]] \in FileType
        BY <1>3, <1>4
      <4> QED
        BY <1>3, <1>5, <4>1, DescribedIs
    <3> QED
      BY <1>4, <3>1 DEF Column
  <2> QED
    BY <1>7, <2>1, <2>2
<1> QED
  BY <1>2, <1>4, <1>5, <1>6, <1>7, <1>8

\* The maps that AddEntries makes, and those of the package.
LEMMA Overs ==
  ASSUME NEW f, NEW g, NEW h
  PROVE  /\ AddEntries(g, f) = f ++ g
         /\ (f ++ g) ++ h = f ++ (g ++ h)
         /\ DOMAIN f \cap DOMAIN g = {} => f ++ g = g ++ f
<1>1. AddEntries(g, f) = f ++ g
  BY DEF AddEntries, ++
<1>2. (f ++ g) ++ h = f ++ (g ++ h)
  BY DEF ++
<1>3. DOMAIN f \cap DOMAIN g = {} => f ++ g = g ++ f
  BY DEF ++
<1> QED
  BY <1>1, <1>2, <1>3

\* The parts of the header, each what PackageWriter is promised.
LEMMA HeaderIs ==
  ASSUME GhostsAlone, PathOK, SetInv, WalkInv, ContentInv, writes = 1, pc \in SectionSteps
  PROVE  HeaderEntries = HeaderOf(Content)
<1> DEFINE c == Content
           n == DOMAIN files
           set == {k \in DOMAIN ProgTag : c.scripts[k] # 0}
           p == PayloadOf(c)
           rel == [t \in {r \in RelTags : c.meta.rels[r] # << >>} |-> c.meta.rels[t]]
           cols == [a \in IF DOMAIN c.files = {} THEN {} ELSE FileArrays |-> Column(c, a)]
           dirs == [t \in IF DOMAIN c.files = {} THEN {} ELSE {"dirnames"} |-> Directories(c)]
           nums == [t \in IF DOMAIN c.files = {} THEN {} ELSE {"fileinodes"} |->
                      [i \in 1 .. Cardinality(DOMAIN c.files) |-> i]]
           log == [t \in IF c.changelog = << >> THEN {} ELSE {"changelog"} |-> c.changelog]
           scr == [k \in set |-> c.scripts[k]]
           prog == [t \in {ProgTag[k] : k \in set} |-> "/bin/sh"]
           epoch == [t \in {"epoch"} \ {e \in {"epoch"} : c.meta.epoch = 0} |-> c.meta.epoch]
           base == [name |-> c.meta.name, version |-> c.meta.version,
                    release |-> c.meta.release, arch |-> c.meta.arch,
                    sourcerpm |-> c.meta.sourcePackage,
                    size |-> BodySum(p.entries) % Words, payloaddigest |-> p]
<1>1. HeaderOf(c) =
        c.customTags ++ rel ++ cols ++ dirs ++ nums ++ log ++ scr ++ prog ++ epoch ++ base
  BY DEF HeaderOf
<1>2. /\ c.meta = meta /\ c.files = files /\ c.scripts = scripts /\ c.changelog = changelog
      /\ c.customTags = customTags
  BY DEF Content
<1> HIDE DEF c
<1>3. /\ p = Payload /\ Directories(c) = di.l
      /\ \A a \in FileArrays : Column(c, a) = [i \in DOMAIN rows |-> rows[i][a]]
      /\ Len(rows) = Cardinality(n)
  BY WalkedAll DEF ContentInv, c
<1> HIDE DEF p
<1>4. RelationIndexes = rel
  BY <1>2 DEF RelationIndexes, Restrict
<1>5. ChangelogIndex = log
  BY <1>2 DEF ChangelogIndex, Put, EmptyMap
<1>6. EpochIndex = epoch
  <2>1. meta.epoch \in Nat
    BY DEF SetInv, MetaType
  <2>2. CASE meta.epoch = 0
    <3>1. EpochIndex = EmptyMap
      BY <2>2 DEF EpochIndex
    <3>2. {"epoch"} \ {e \in {"epoch"} : c.meta.epoch = 0} = {}
      BY <1>2, <2>2
    <3> QED
      BY <3>1, <3>2 DEF EmptyMap
  <2>3. CASE meta.epoch > 0
    <3>1. EpochIndex = [x \in {"epoch"} |-> meta.epoch]
      BY <2>3 DEF EpochIndex, Put, EmptyMap
    <3>2. {"epoch"} \ {e \in {"epoch"} : c.meta.epoch = 0} = {"epoch"}
      BY <1>2, <2>1, <2>3
    <3> QED
      BY <1>2, <3>1, <3>2
  <2> QED
    BY <2>1, <2>2, <2>3
<1>7. ScriptIndexes = prog ++ scr
  <2>1. \A k \in DOMAIN ProgTag : scripts[k] \in Nat
    BY DEF PathOK, ObjectOK
  <2>2. {k \in DOMAIN ProgTag : scripts[k] > 0} = set
    BY <1>2, <2>1
  <2>3. scr = Restrict(scripts, set)
    BY <1>2 DEF Restrict
  <2>4. ScriptIndexes = AddEntries(Restrict(scripts, set), prog)
    BY <2>2 DEF ScriptIndexes
  <2>5. AddEntries(Restrict(scripts, set), prog) = prog ++ Restrict(scripts, set)
    BY Overs
  <2> QED
    BY ONLY <2>3, <2>4, <2>5
<1>8. DOMAIN scr \cap DOMAIN prog = {}
  BY DEF ProgTag
<1>9. FileIndexes = (dirs ++ nums) ++ cols
  <2>1. CASE n = {}
    <3>1. cols = EmptyMap /\ dirs = EmptyMap /\ nums = EmptyMap
      BY <1>2, <2>1 DEF EmptyMap
    <3>2. EmptyMap ++ EmptyMap = EmptyMap
      BY DEF ++, EmptyMap
    <3> QED
      BY <2>1, <3>1, <3>2 DEF FileIndexes
  <2>2. CASE n # {}
    <3> DEFINE both == [dirnames |-> AllDirs(di), fileinodes |-> [i \in DOMAIN rows |-> i]]
    <3>1. DOMAIN rows = 1 .. Cardinality(n)
      BY <1>3 DEF PathOK, ObjectOK
    <3>2. cols = [a \in FileArrays |-> [i \in DOMAIN rows |-> rows[i][a]]]
      BY <1>2, <1>3, <2>2
    <3>3. both = dirs ++ nums
      <4>1. PICK x, y : x = di.l /\ y = [i \in DOMAIN rows |-> i]
        OBVIOUS
      <4>2. dirs = [t \in {"dirnames"} |-> x]
        BY <1>2, <1>3, <2>2, <4>1
      <4>3. nums = [t \in {"fileinodes"} |-> y]
        BY <1>2, <2>2, <3>1, <4>1
      <4>4. both = [dirnames |-> x, fileinodes |-> y]
        BY <4>1 DEF AllDirs
      <4>5. [dirnames |-> x, fileinodes |-> y] =
              [t \in {"dirnames"} |-> x] ++ [t \in {"fileinodes"} |-> y]
        BY DEF ++
      <4> QED
        BY <4>2, <4>3, <4>4, <4>5
    <3>4. FileIndexes = AddEntries(cols, both)
      BY <2>2, <3>2 DEF FileIndexes
    <3>5. AddEntries(cols, both) = both ++ cols
      BY Overs
    <3> QED
      BY ONLY <3>3, <3>4, <3>5
  <2> QED
    BY <2>1, <2>2
<1>10. DOMAIN (dirs ++ nums) \cap DOMAIN cols = {}
  BY DEF ++, FileArrays
<1>11. GenIndexes = log ++ ((prog ++ scr) ++ (epoch ++ base))
  <2>1. payloadSize = BodySum(p.entries)
    BY <1>3 DEF ContentInv, Payload
  <2>2. base = [name |-> meta.name, version |-> meta.version, release |-> meta.release,
                arch |-> meta.arch, sourcerpm |-> meta.sourcePackage,
                size |-> payloadSize % Words, payloaddigest |-> Payload]
    BY <1>2, <1>3, <2>1
  <2> HIDE DEF base
  <2>3. GenIndexes =
          AddEntries(AddEntries(AddEntries(base, EpochIndex), ScriptIndexes), ChangelogIndex)
    BY <2>2 DEF GenIndexes
  <2> HIDE DEF log, scr, prog, epoch
  <2>4. \A f, g : AddEntries(g, f) = f ++ g
    BY Overs
  <2> QED
    BY <1>5, <1>6, <1>7, <2>3, <2>4
<1> HIDE DEF rel, cols, dirs, nums, log, scr, prog, epoch, base
<1>12. HeaderEntries = customTags ++ (rel ++ (((dirs ++ nums) ++ cols) ++ GenIndexes))
  <2>1. AddEntries(GenIndexes, FileIndexes) = ((dirs ++ nums) ++ cols) ++ GenIndexes
    BY <1>9, Overs
  <2>2. AddEntries(((dirs ++ nums) ++ cols) ++ GenIndexes, RelationIndexes) =
          rel ++ (((dirs ++ nums) ++ cols) ++ GenIndexes)
    BY <1>4, Overs
  <2>3. \A f, g : AddEntries(g, f) = f ++ g
    BY Overs
  <2> QED
    BY <2>1, <2>2, <2>3 DEF HeaderEntries
<1>13. (dirs ++ nums) ++ cols = cols ++ (dirs ++ nums) /\ prog ++ scr = scr ++ prog
  BY <1>8, <1>10, Overs
<1> DEFINE tail == epoch ++ base
<1>14. customTags ++ rel ++ cols ++ dirs ++ nums ++ log ++ scr ++ prog ++ epoch ++ base =
       customTags ++ (rel ++ ((cols ++ (dirs ++ nums)) ++ (log ++ ((scr ++ prog) ++ tail))))
  BY Overs
<1> QED
  BY <1>1, <1>2, <1>11, <1>12, <1>13, <1>14 DEF c
-----------------------------------------------------------------------------
(* The package of a first Write.                                            *)

\* The signatures are those of the package.
LEMMA SignaturesAre ==
  ASSUME GhostsAlone, PathOK, SetInv, WalkInv, ContentInv, writes = 1, pc \in SectionSteps, HeaderBuilt
  PROVE  /\ PackageOf(Content).header = hdr
         /\ PackageOf(Content).payload = Payload
         /\ PackageOf(Content).lead = LeadName(lead.name, LeadVersion)
         /\ PackageOf(Content).sig =
              [h |-> "signatures", entries |-> AddEntries(Signatures(hdr), customSigs)]
<1> DEFINE c == Content
           header == [h |-> "immutable", entries |-> HeaderOf(c)]
           payload == PayloadOf(c)
           rsa == [t \in IF c.signed THEN {"rsa"} ELSE {} |-> header]
           pgp == [t \in IF c.signed THEN {"pgp"} ELSE {} |-> <<header, payload>>]
           base == [size |-> <<header, payload>>, sha256 |-> header,
                    payloadsize |-> BodySum(payload.entries) % Words]
           sigs == [h |-> "signatures", entries |-> c.customSigs ++ rsa ++ pgp ++ base]
<1>1. PackageOf(c) =
        [lead |-> LeadName(c.lead, FullVersion(c.meta.version, c.meta.release)),
         sig |-> sigs, pad |-> 0, header |-> header, payload |-> payload]
  BY DEF PackageOf
<1>2. /\ c.meta = meta /\ c.customSigs = customSigs /\ c.signed = pgpSigner
      /\ c.lead = lead.name
  BY DEF Content
<1> HIDE DEF c
<1>3. header = hdr
  BY HeaderIs DEF HeaderBuilt, c
<1>4. payload = Payload
  BY WalkedAll DEF ContentInv, c
<1>5. LeadVersion = FullVersion(meta.version, meta.release)
  BY DEF LeadVersion, SetInv
<1> HIDE DEF header, payload
<1> DEFINE own == [size |-> <<hdr, Payload>>, sha256 |-> hdr, payloadsize |-> payloadSize % Words]
           keys == IF pgpSigner THEN [rsa |-> hdr, pgp |-> <<hdr, Payload>>] ELSE EmptyMap
<1>6. base = own
  BY <1>3, <1>4 DEF ContentInv, Payload
<1>7. keys = rsa ++ pgp
  <2>1. CASE pgpSigner
    <3>1. PICK x, y : x = hdr /\ y = <<hdr, Payload>>
      OBVIOUS
    <3>2. rsa = [t \in {"rsa"} |-> x] /\ pgp = [t \in {"pgp"} |-> y]
      BY <1>2, <1>3, <1>4, <2>1, <3>1
    <3>3. keys = [rsa |-> x, pgp |-> y]
      BY <2>1, <3>1
    <3>4. [rsa |-> x, pgp |-> y] = [t \in {"rsa"} |-> x] ++ [t \in {"pgp"} |-> y]
      BY DEF ++
    <3> QED
      BY <3>2, <3>3, <3>4
  <2>2. CASE ~pgpSigner
    <3>1. rsa = EmptyMap /\ pgp = EmptyMap /\ keys = EmptyMap
      BY <1>2, <2>2 DEF EmptyMap
    <3>2. EmptyMap ++ EmptyMap = EmptyMap
      BY DEF ++, EmptyMap
    <3> QED
      BY <3>1, <3>2
  <2> QED
    BY <2>1, <2>2
<1>8. Signatures(hdr) = AddEntries(own, keys)
  BY DEF Signatures
<1> HIDE DEF rsa, pgp, base, own, keys
<1>9. \A f, g : AddEntries(g, f) = f ++ g
  BY Overs
<1>10. AddEntries(Signatures(hdr), customSigs) = customSigs ++ ((rsa ++ pgp) ++ base)
  BY <1>6, <1>7, <1>8, <1>9
<1>11. customSigs ++ rsa ++ pgp ++ base = customSigs ++ ((rsa ++ pgp) ++ base)
  BY Overs
<1>12. sigs.entries = AddEntries(Signatures(hdr), customSigs)
  BY <1>2, <1>10, <1>11
<1>13. sigs = [h |-> "signatures", entries |-> AddEntries(Signatures(hdr), customSigs)]
  BY <1>12
<1> HIDE DEF sigs
<1>14. /\ PackageOf(c).header = header /\ PackageOf(c).payload = payload
       /\ PackageOf(c).lead = LeadName(c.lead, FullVersion(c.meta.version, c.meta.release))
       /\ PackageOf(c).sig = sigs
  BY <1>1
<1> QED
  BY <1>2, <1>3, <1>4, <1>5, <1>13, <1>14 DEF c

\* What the writer has of the package, section by section.
TakenInv ==
  /\ pc \in {"files", "lead"} => image = EmptyMap
  /\ pc = "sig" => image = [lead |-> LeadName(lead.name, LeadVersion)]
  /\ pc \in {"pad", "header", "payload"} =>
       /\ DOMAIN image = {"lead", "sig"} \cup (IF pc = "pad" THEN {} ELSE {"pad"})
                         \cup (IF pc = "payload" THEN {"header"} ELSE {})
       /\ image = [k \in DOMAIN image |-> image[k]]
       /\ image["lead"] = LeadName(lead.name, LeadVersion)
       /\ pc # "pad" => image["pad"] = 0

\* g is f with x under the new key k.
Added(g, f, k, x) ==
  /\ DOMAIN g = DOMAIN f \cup {k}
  /\ g = [t \in DOMAIN g |-> g[t]]
  /\ g[k] = x
  /\ \A t \in DOMAIN f : g[t] = f[t]

\* A section that the writer takes is put to those it has.
LEMMA PutIs ==
  ASSUME NEW f, NEW k, NEW x, k \notin DOMAIN f
  PROVE  Added(Put(f, k, x), f, k, x)
BY DEF Put, Added

\* The sections that the writer has are those before the one Write is at.
LEMMA NextTaken == SetInv /\ TakenInv /\ [Next]_vars => TakenInv'
<1> SUFFICES ASSUME SetInv, TakenInv, [Next]_vars PROVE TakenInv'
  OBVIOUS
<1>1. CASE Call
  <2>1. pc' \in {"idle", "panic"}
    BY <1>1, CallContent
  <2> QED
    BY <2>1 DEF TakenInv
<1>2. CASE WriteStart
  BY <1>2 DEF WriteStart, SetInv, TakenInv
<1>3. ASSUME NEW n \in Names, WriteFile(n) PROVE TakenInv'
  BY <1>3 DEF WriteFile, Return, TakenInv
<1>4. CASE ClosePayload
  BY <1>4 DEF ClosePayload, Return, Goto, TakenInv
<1>5. ASSUME pc' # "idle", UNCHANGED <<meta, lead>> PROVE LeadVersion' = LeadVersion /\ lead' = lead
  BY <1>5 DEF LeadVersion
<1>6. CASE WriteLead
  <2>1. CASE pc' = "idle"
    BY <2>1 DEF TakenInv
  <2>2. CASE pc' # "idle"
    <3>1. /\ image' = Put(EmptyMap, "lead", LeadName(lead.name, LeadVersion)) /\ pc' = "sig"
          /\ UNCHANGED <<meta, lead>>
      BY <1>6, <2>2 DEF WriteLead, Take, Refuse, Return, Goto, TakenInv, apiVars
    <3>2. image' = [lead |-> LeadName(lead.name, LeadVersion)]
      BY <3>1 DEF Put, EmptyMap
    <3> QED
      BY <1>5, <2>2, <3>1, <3>2 DEF TakenInv
  <2> QED
    BY <2>1, <2>2
<1>7. CASE WriteSignatures
  <2>1. CASE pc' = "idle"
    BY <2>1 DEF TakenInv
  <2>2. CASE pc' # "idle"
    <3>1. PICK x : image' = Put(image, "sig", x)
      BY <1>7, <2>2 DEF WriteSignatures, Take, Refuse, Return
    <3>2. /\ pc' = "pad" /\ UNCHANGED <<meta, lead>>
          /\ DOMAIN image = {"lead"} /\ image["lead"] = LeadName(lead.name, LeadVersion)
      BY <1>7, <2>2 DEF WriteSignatures, Take, Refuse, Return, Goto, TakenInv, apiVars
    <3>3. "sig" \notin DOMAIN image
      BY <3>2
    <3>4. /\ DOMAIN image' = {"lead", "sig"} /\ image' = [k \in DOMAIN image' |-> image'[k]]
          /\ image'["lead"] = image["lead"]
      <4>1. /\ DOMAIN image' = DOMAIN image \cup {"sig"}
            /\ image' = [k \in DOMAIN image' |-> image'[k]]
            /\ image'["sig"] = x
            /\ \A t \in DOMAIN image : image'[t] = image[t]
        <5>1. Added(Put(image, "sig", x), image, "sig", x)
          BY <3>3, PutIs
        <5>2. Added(image', image, "sig", x)
          BY <3>1, <5>1, Zenon
        <5> QED
          BY ONLY <5>2 DEF Added
      <4> QED
        BY <3>2, <4>1
    <3> QED
      BY <1>5, <2>2, <3>2, <3>4 DEF TakenInv
  <2> QED
    BY <2>1, <2>2
<1>8. CASE WritePad
  <2>1. CASE pc' = "idle"
    BY <2>1 DEF TakenInv
  <2>2. CASE pc' # "idle"
    <3>1. /\ image' = Put(image, "pad", 0) /\ pc = "pad" /\ pc' = "header"
          /\ UNCHANGED <<meta, lead>>
      BY <1>8, <2>2 DEF WritePad, Take, Refuse, Return, Goto, apiVars
    <3>2. DOMAIN image = {"lead", "sig"} /\ image["lead"] = LeadName(lead.name, LeadVersion)
      BY <3>1 DEF TakenInv
    <3>3. "pad" \notin DOMAIN image
      BY <3>2
    <3>4. /\ DOMAIN image' = {"lead", "sig", "pad"}
          /\ image' = [k \in DOMAIN image' |-> image'[k]]
          /\ image'["lead"] = image["lead"] /\ image'["pad"] = 0
      <4>1. /\ DOMAIN image' = DOMAIN image \cup {"pad"}
            /\ image' = [k \in DOMAIN image' |-> image'[k]]
            /\ image'["pad"] = 0
            /\ \A t \in DOMAIN image : image'[t] = image[t]
        <5>1. Added(Put(image, "pad", 0), image, "pad", 0)
          BY <3>3, PutIs
        <5>2. Added(image', image, "pad", 0)
          BY <3>1, <5>1, Zenon
        <5> QED
          BY ONLY <5>2 DEF Added
      <4> QED
        BY <3>2, <4>1
    <3> QED
      BY <1>5, <2>2, <3>1, <3>2, <3>4 DEF TakenInv
  <2> QED
    BY <2>1, <2>2
<1>9. CASE WriteHeader
  <2>1. CASE pc' = "idle"
    BY <2>1 DEF TakenInv
  <2>2. CASE pc' # "idle"
    <3>1. /\ image' = Put(image, "header", hdr) /\ pc = "header" /\ pc' = "payload"
          /\ UNCHANGED <<meta, lead>>
      BY <1>9, <2>2 DEF WriteHeader, Take, Refuse, Return, Goto, apiVars
    <3>2. /\ DOMAIN image = {"lead", "sig", "pad"}
          /\ image["lead"] = LeadName(lead.name, LeadVersion) /\ image["pad"] = 0
      BY <3>1 DEF TakenInv
    <3>3. "header" \notin DOMAIN image
      BY <3>2
    <3>4. /\ DOMAIN image' = {"lead", "sig", "pad", "header"}
          /\ image' = [k \in DOMAIN image' |-> image'[k]]
          /\ image'["lead"] = image["lead"] /\ image'["pad"] = 0
      <4>1. /\ DOMAIN image' = DOMAIN image \cup {"header"}
            /\ image' = [k \in DOMAIN image' |-> image'[k]]
            /\ image'["header"] = hdr
            /\ \A t \in DOMAIN image : image'[t] = image[t]
        <5>1. Added(Put(image, "header", hdr), image, "header", hdr)
          BY <3>3, PutIs
        <5>2. Added(image', image, "header", hdr)
          BY <3>1, <5>1, Zenon
        <5> QED
          BY ONLY <5>2 DEF Added
      <4> QED
        BY <3>2, <4>1
    <3> QED
      BY <1>5, <2>2, <3>1, <3>2, <3>4 DEF TakenInv
  <2> QED
    BY <2>1, <2>2
<1>10. CASE WritePayload
  BY <1>10 DEF WritePayload, Refuse, Return, TakenInv
<1>11. CASE UNCHANGED vars
  BY <1>11 DEF vars, apiVars, writeVars, TakenInv, LeadVersion
<1> QED
  BY <1>1, <1>2, <1>3, <1>4, <1>6, <1>7, <1>8, <1>9, <1>10, <1>11 DEF Next, WriteStep
-----------------------------------------------------------------------------
(* The steps.                                                               *)

\* While Write runs, the writer has not all of the sections.
LEMMA RunningShort == OutInv /\ pc \in {"files"} \cup SectionSteps => out # Steps
<1> SUFFICES ASSUME OutInv, pc \in {"files"} \cup SectionSteps, out = Steps PROVE FALSE
  OBVIOUS
<1>1. pc # "files"
  BY StepsDiffer DEF OutInv
<1>2. PICK k \in 1 .. 5 : pc = Steps[k]
  BY <1>1, StepsDiffer DEF SectionSteps
<1>3. Len(out) = k - 1
  BY <1>2 DEF OutInv, TakenBefore
<1>4. Len(out) = 5
  BY StepsDiffer
<1>5. k - 1 # 5
  BY ONLY k \in 1 .. 5
<1> QED
  BY ONLY <1>3, <1>4, <1>5

\* Write's result tells whether the writer has all of them, at any time.
ResultInv == OutInv /\ (res = "ok" <=> out = Steps)

\* Every step keeps that.
LEMMA NextResult == ResultInv /\ ContentInv' /\ [Next]_vars => ResultInv'
<1> SUFFICES ASSUME ResultInv, ContentInv', [Next]_vars PROVE ResultInv'
  OBVIOUS
<1>1. OutInv'
  BY NextOut DEF ResultInv
<1>2. CASE pc' = "idle"
  BY <1>1, <1>2 DEF ResultInv, OutInv
<1>3. CASE pc' \in {"files"} \cup SectionSteps
  <2>1. res' = "none"
    BY <1>3 DEF ContentInv
  <2>2. (OutInv /\ pc \in {"files"} \cup SectionSteps => out # Steps)'
    BY RunningShort, PTL
  <2> QED
    BY <1>1, <1>3, <2>1, <2>2 DEF ResultInv
<1>4. CASE pc' = "panic"
  <2>1. UNCHANGED <<out, res>>
    BY <1>4 DEF Next, Call, WriteStart, WriteStep, AddFile, AllowListDirs, AddScript, SetChangelog,
       AddCustomTag, AddCustomSig, SetPGPSigner, ClearSignatures, SetSignature, Panic,
       WriteFile, ClosePayload, WriteLead, WriteSignatures, WritePad, WriteHeader, WritePayload,
       Take, Refuse, Return, Goto, vars, writeVars
  <2> QED
    BY <1>1, <2>1 DEF ResultInv
<1> QED
  BY <1>1, <1>2, <1>3, <1>4 DEF OutInv

\* All of it.
RefInv == PathOK /\ ContentInv /\ SetInv /\ WalkInv /\ TakenInv /\ ResultInv

\* The invariant that the steps need.
LEMMA RefAlways == Spec => []RefInv
<1>1. Init => RefInv
  <2>1. Init => ResultInv
    BY StepsDiffer DEF Init, ResultInv, OutInv
  <2> QED
    BY <2>1, InitPath, InitContent, InitSet, InitWalk DEF RefInv, Init, TakenInv
<1>2. RefInv /\ PathOK' /\ [Next]_vars => RefInv'
  BY NextContent, NextSet, NextWalk, NextTaken, NextResult DEF RefInv, PathOK
<1> QED
  BY <1>1, <1>2, PathInv, PTL DEF Spec

\* The last section of a first Write: what the writer has is the package.
LEMMA Delivered ==
  ASSUME GhostsAlone, RefInv, pc = "payload", image' = Put(image, "payload", Payload)
  PROVE  /\ image' # EmptyMap
         /\ writes = 1 => image' = PackageOf(Content)
<1>1. /\ DOMAIN image = {"lead", "sig", "pad", "header"}
      /\ image["lead"] = LeadName(lead.name, LeadVersion) /\ image["pad"] = 0
  BY DEF RefInv, TakenInv
<1>2. /\ image["header"] = hdr /\ HeaderBuilt
      /\ image["sig"] = [h |-> "signatures", entries |-> AddEntries(Signatures(hdr), customSigs)]
  BY DEF RefInv, ContentInv, SigsBuilt
<1>3. "payload" \notin DOMAIN image
  BY <1>1
<1>4. /\ DOMAIN image' = DOMAIN image \cup {"payload"}
      /\ image' = [t \in DOMAIN image' |-> image'[t]]
      /\ image'["payload"] = Payload
      /\ \A t \in DOMAIN image : image'[t] = image[t]
  <2>1. Added(Put(image, "payload", Payload), image, "payload", Payload)
    BY <1>3, PutIs
  <2>2. Added(image', image, "payload", Payload)
    BY <2>1, Zenon
  <2> QED
    BY ONLY <2>2 DEF Added
<1>5. DOMAIN image' = {"lead", "sig", "pad", "header", "payload"}
  BY <1>1, <1>4
<1>6. image' # EmptyMap
  BY <1>5 DEF EmptyMap
<1>7. ASSUME writes = 1 PROVE image' = PackageOf(Content)
  <2> DEFINE p == PackageOf(Content)
  <2>1. p = [lead |-> p.lead, sig |-> p.sig, pad |-> 0, header |-> p.header, payload |-> p.payload]
    BY DEF PackageOf
  <2>2. /\ p.header = hdr /\ p.payload = Payload /\ p.lead = LeadName(lead.name, LeadVersion)
        /\ p.sig = [h |-> "signatures", entries |-> AddEntries(Signatures(hdr), customSigs)]
    BY <1>2, <1>7, SignaturesAre DEF RefInv, SectionSteps
  <2> HIDE DEF p
  <2>3. /\ image'["lead"] = p.lead /\ image'["sig"] = p.sig /\ image'["pad"] = 0
        /\ image'["header"] = p.header /\ image'["payload"] = p.payload
    <3>1. "lead" \in DOMAIN image /\ "sig" \in DOMAIN image /\ "pad" \in DOMAIN image
          /\ "header" \in DOMAIN image
      BY <1>1
    <3> QED
      BY <1>1, <1>2, <1>4, <2>2, <3>1
  <2> DEFINE q == image'
  <2> HIDE DEF q
  <2>4. q = [t \in {"lead", "sig", "pad", "header", "payload"} |-> q[t]]
    BY <1>4, <1>5 DEF q
  <2>5. /\ q["lead"] = p.lead /\ q["sig"] = p.sig /\ q["pad"] = 0
        /\ q["header"] = p.header /\ q["payload"] = p.payload
    BY <2>3 DEF q
  <2>6. q = [lead |-> p.lead, sig |-> p.sig, pad |-> 0, header |-> p.header, payload |-> p.payload]
    BY ONLY <2>4, <2>5
  <2> QED
    BY <2>1, <2>6 DEF p, q
<1> QED
  BY <1>6, <1>7

\* A new object is a writer that nothing was asked of.
LEMMA InitWriter == Init => PW!Init
<1> SUFFICES ASSUME Init PROVE PW!Init
  OBVIOUS
<1>1. IsContent(Content)
  BY InitSet, ContentIs
<1>2. pc = "idle" /\ res = "none" /\ writes = 0
  BY DEF Init
<1>3. out # Steps
  BY StepsDiffer DEF Init
<1> QED
  BY <1>1, <1>2, <1>3 DEF PW!Init, SectionSteps

\* Every step is one of the writer's, or none.
LEMMA NextWriter ==
  ASSUME GhostsAlone PROVE RefInv /\ RefInv' /\ [Next]_vars => [PW!Next]_(PW!vars)
<1> SUFFICES ASSUME RefInv, RefInv', [Next]_vars PROVE [PW!Next]_(PW!vars)
  OBVIOUS
<1> DEFINE Running == pc \in {"files"} \cup SectionSteps
           Result == IF res \in {"none", "ok"} THEN res ELSE "error"
           Package == IF out = Steps THEN image ELSE EmptyMap
<1>0. (out = Steps <=> res = "ok") /\ (out' = Steps <=> res' = "ok")
  BY DEF RefInv, ResultInv
<1>1. IsContent(Content)' /\ (Running => res = "none")
  <2>1. SetInv' => IsContent(Content)'
    BY ContentIs, PTL
  <2>2. Running => res = "none"
    BY DEF RefInv, ContentInv
  <2>3. SetInv'
    BY DEF RefInv
  <2> QED
    BY <2>1, <2>2, <2>3
<1>2. CASE Call
  <2>1. /\ ~Running /\ ~Running' /\ UNCHANGED <<writes, res, image>>
    <3>1. writes' = writes
      BY <1>2 DEF Call, AddFile, AllowListDirs, AddScript, SetChangelog, AddCustomTag,
         AddCustomSig, SetPGPSigner, ClearSignatures, SetSignature, Panic, writeVars
    <3> QED
      BY <1>2, <3>1, CallContent DEF SectionSteps
  <2>2. PW!Change
    BY <1>0, <1>1, <2>1 DEF PW!Change
  <2> QED
    BY <2>2 DEF PW!Next
<1>3. CASE WriteStart
  <2>1. /\ ~Running /\ Running' /\ writes' = writes + 1 /\ res' = "none" /\ UNCHANGED apiVars
    BY <1>3 DEF WriteStart, Idle, SectionSteps, RefInv, SetInv
  <2>2. Content' = Content
    BY <2>1 DEF Content, apiVars
  <2>3. PW!Begin
    BY <1>0, <2>1, <2>2 DEF PW!Begin
  <2> QED
    BY <2>3 DEF PW!Next
<1>4. CASE WriteStep
  <2>1. /\ Running /\ UNCHANGED <<apiVars, writes>> /\ res = "none"
        /\ \/ pc' \in {"files"} \cup SectionSteps /\ res' = res
           \/ pc' = "idle" /\ res' \notin {"none", "ok"}
           \/ pc = "payload" /\ pc' = "idle" /\ res' = "ok" /\ image' = Put(image, "payload", Payload)
    <3>1. Running /\ UNCHANGED <<apiVars, writes>>
      BY <1>4 DEF WriteStep, WriteFile, ClosePayload, WriteLead, WriteSignatures, WritePad,
         WriteHeader, WritePayload, Take, Refuse, Return, Goto, SectionSteps
    <3>2. \/ pc' \in {"files"} \cup SectionSteps /\ res' = res
          \/ pc' = "idle" /\ res' \notin {"none", "ok"}
          \/ pc = "payload" /\ pc' = "idle" /\ res' = "ok" /\ image' = Put(image, "payload", Payload)
      BY <1>4 DEF WriteStep, WriteFile, ClosePayload, WriteLead, WriteSignatures, WritePad,
         WriteHeader, WritePayload, Take, Refuse, Return, Goto, SectionSteps
    <3> QED
      BY <1>1, <3>1, <3>2
  <2>2. Content' = Content
    BY <2>1 DEF Content, apiVars
  <2>3. CASE pc' \in {"files"} \cup SectionSteps /\ res' = res
    <3>1. Running' /\ Result' = Result /\ Package' = Package
      BY <1>0, <2>1, <2>3
    <3> QED
      BY <2>1, <2>2, <3>1 DEF PW!vars
  <2>4. CASE pc' = "idle" /\ res' \notin {"none", "ok"}
    <3>1. ~Running' /\ Result' = "error" /\ Package' = Package
      BY <1>0, <2>1, <2>4 DEF SectionSteps
    <3>2. PW!Fail
      BY <2>1, <2>2, <3>1 DEF PW!Fail
    <3> QED
      BY <3>2 DEF PW!Next
  <2>5. CASE pc = "payload" /\ pc' = "idle" /\ res' = "ok" /\ image' = Put(image, "payload", Payload)
    <3>1. ~Running' /\ Result' = "ok" /\ Package' = image'
      BY <1>0, <2>5 DEF SectionSteps
    <3>2. image' # EmptyMap /\ (writes' = 1 => image' = PackageOf(Content))
      BY <2>1, <2>5, Delivered
    <3>3. PW!Deliver
      BY <2>1, <2>2, <3>1, <3>2 DEF PW!Deliver
    <3> QED
      BY <3>3 DEF PW!Next
  <2> QED
    BY <2>1, <2>3, <2>4, <2>5
<1>5. CASE UNCHANGED vars
  <2>1. UNCHANGED <<apiVars, pc, writes, res, out, image>>
    BY <1>5 DEF vars, writeVars
  <2>2. Content' = Content
    BY <2>1 DEF Content, apiVars
  <2> QED
    BY <2>1, <2>2 DEF PW!vars
<1> QED
  BY <1>2, <1>3, <1>4, <1>5 DEF Next

\* Every behaviour of RPM is one of a writer of packages, but for its ending: a first
\* Write that reports success has put out the package of the caller's values, and a
\* Write that reports an error has not put out all of one (rpm.go, Write), unless a
\* ghost file has another flag.
THEOREM WriterCorrect == ASSUME GhostsAlone PROVE Spec => WritesPackage
BY InitWriter, NextWriter, RefAlways, PTL DEF Spec, WritesPackage
=============================================================================
