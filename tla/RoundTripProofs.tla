-------------------------- MODULE RoundTripProofs ---------------------------
(***************************************************************************)
(* What survives a package's being written, read and written again, for all *)
(* values of the constants of RoundTrip that the assumptions of a theorem   *)
(* name.                                                                    *)
(***************************************************************************)
EXTENDS RefinementProofs, RoundTrip

-----------------------------------------------------------------------------
(* Assumptions.                                                             *)

\* ReadRPMFile takes these tags out of the header and understands them as what
\* Write computed: a caller who sets one of them to something else loses it, or
\* the package cannot be read.  A pretrans script may be set as a tag.
OwnTag(t, v) == t \in PoppedTags => t = "pretrans" /\ v \in Nat \ {0}

\* The caller adds tags of their own.
OwnTags == \A t \in CustomTags : OwnTag(t[1], t[2])

\* Every file the caller adds has its entry in the payload.
NoGhosts == \A f \in Files : f.type # {"ghost"}

-----------------------------------------------------------------------------
(* A complete package.                                                      *)

\* Tags that every header has a number of, and those of the file index.
NumberTags == {"name", "version", "release", "arch", "sourcerpm", "size"}
FileTags == FileArrays \cup {"dirnames", "fileinodes"}

\* Lists of relations.
RelSeqs == Seq([name : Nat, sense : Senses, version : Nat])

\* The arrays of a file index have as many elements as there are files, and the
\* directories are a list.
IsIndex(h) ==
  /\ FileTags \subseteq DOMAIN h
  /\ h["filemodes"] \in Seq(SUBSET TypeBits)
  /\ h["fileflags"] \in Seq(SUBSET FlagBits)
  /\ h["fileowners"] \in Seq(STRING)
  /\ \A a \in FileArrays : h[a] = [i \in 1 .. Len(h["filemodes"]) |-> h[a][i]]
  /\ h["fileinodes"] = [i \in 1 .. Len(h["filemodes"]) |-> i]
  /\ h["dirnames"] \in Seq(STRING)

\* Every tag that is read has a value of its type, and one that is left out when it
\* has nothing to say has something to say.
IsHeader(h) ==
  /\ h = [t \in DOMAIN h |-> h[t]]
  /\ NumberTags \cup {"payloaddigest"} \subseteq DOMAIN h
  /\ \A t \in NumberTags : h[t] \in Nat
  /\ "epoch" \in DOMAIN h => h["epoch"] \in Nat \ {0}
  /\ \A t \in RelTags \cap DOMAIN h : h[t] \in RelSeqs /\ h[t] # << >>
  /\ "changelog" \in DOMAIN h => h["changelog"] # << >>
  /\ "pretrans" \in DOMAIN h => h["pretrans"] \in Nat \ {0}
  /\ "pretransprog" \in DOMAIN h => "pretrans" \in DOMAIN h /\ h["pretransprog"] = "/bin/sh"
  /\ FileTags \cap DOMAIN h = {} \/ IsIndex(h)

\* The header of a package, and the entries of its payload.
PackageHeader(package) == package["header"].entries
PackageEntries(package) == package["payload"].entries

\* A whole payload behind the header that has its digest.
IsPackage(package) ==
  /\ IsHeader(PackageHeader(package))
  /\ PackageEntries(package) \in Seq(EntryType)
  /\ package["payload"] = [entries |-> PackageEntries(package), complete |-> TRUE]
  /\ PackageHeader(package)["payloaddigest"] = package["payload"]

-----------------------------------------------------------------------------
(* The inductive invariant.                                                 *)

\* What w has taken: OutInv less one direction of its last part, since an object
\* that was read from a complete output has no result.
OutShort ==
  /\ out \in Seq(Taken)
  /\ pc \in {"idle", "panic", "files"} \cup SectionSteps
  /\ pc = "files" => out = << >>
  /\ \A k \in 1 .. 5 : pc = Steps[k] => TakenBefore(k)
  /\ res = "ok" => out = Steps

\* The caller's tags are their own.
TagsOK ==
  /\ customTags = [t \in DOMAIN customTags |-> customTags[t]]
  /\ \A t \in DOMAIN customTags : OwnTag(t, customTags[t])

\* What w has of lead and header is what the object is.
BuildInv ==
  /\ pc \in {"sig", "pad", "header", "payload"} =>
       "lead" \in DOMAIN image /\ image["lead"] = LeadName(lead.name, LeadVersion)
  /\ pc \in {"pad", "header", "payload"} => HeaderBuilt
  /\ pc = "payload" => "header" \in DOMAIN image /\ image["header"] = hdr

\* All of it, and that a complete output is a package.
RTInv ==
  /\ ObjectOK /\ Called /\ RowsInv /\ OrderInv /\ ClosedInv /\ ListedInv
  /\ OutShort /\ BuildInv
  /\ meta \in MetaType
  /\ TagsOK
  /\ out = Steps => IsPackage(image)
  /\ reads \in Nat

-----------------------------------------------------------------------------
(* The header, tag by tag.                                                  *)

\* What a header has of a tag, from the last map that has it.
LEMMA HeaderParts ==
  ASSUME NEW t
  PROVE  /\ t \in DOMAIN HeaderEntries <=>
              \/ t \in NumberTags \cup {"payloaddigest"}
              \/ t \in DOMAIN EpochIndex \/ t \in DOMAIN ScriptIndexes
              \/ t \in DOMAIN ChangelogIndex \/ t \in DOMAIN FileIndexes
              \/ t \in DOMAIN RelationIndexes \/ t \in DOMAIN customTags
         /\ t \in DOMAIN customTags => HeaderEntries[t] = customTags[t]
         /\ t \notin DOMAIN customTags =>
              /\ t \in DOMAIN RelationIndexes => HeaderEntries[t] = RelationIndexes[t]
              /\ t \notin DOMAIN RelationIndexes =>
                   /\ t \in DOMAIN FileIndexes => HeaderEntries[t] = FileIndexes[t]
                   /\ t \notin DOMAIN FileIndexes =>
                        /\ t \in DOMAIN ChangelogIndex => HeaderEntries[t] = ChangelogIndex[t]
                        /\ t \notin DOMAIN ChangelogIndex =>
                             /\ t \in DOMAIN ScriptIndexes => HeaderEntries[t] = ScriptIndexes[t]
                             /\ t \notin DOMAIN ScriptIndexes =>
                                  /\ t \in DOMAIN EpochIndex => HeaderEntries[t] = EpochIndex[t]
                                  /\ t \notin DOMAIN EpochIndex =>
                                       /\ t = "name" => HeaderEntries[t] = meta.name
                                       /\ t = "version" => HeaderEntries[t] = meta.version
                                       /\ t = "release" => HeaderEntries[t] = meta.release
                                       /\ t = "arch" => HeaderEntries[t] = meta.arch
                                       /\ t = "sourcerpm" => HeaderEntries[t] = meta.sourcePackage
                                       /\ t = "size" => HeaderEntries[t] = payloadSize % Words
                                       /\ t = "payloaddigest" => HeaderEntries[t] = Payload
<1> DEFINE base == [name |-> meta.name, version |-> meta.version, release |-> meta.release,
     arch |-> meta.arch, sourcerpm |-> meta.sourcePackage, size |-> payloadSize % Words,
     payloaddigest |-> Payload]
<1>1. t \in DOMAIN base <=> t \in NumberTags \cup {"payloaddigest"}
  BY DEF NumberTags
<1>2. /\ base["name"] = meta.name /\ base["version"] = meta.version
      /\ base["release"] = meta.release /\ base["arch"] = meta.arch
      /\ base["sourcerpm"] = meta.sourcePackage /\ base["size"] = payloadSize % Words
      /\ base["payloaddigest"] = Payload
  OBVIOUS
<1> HIDE DEF base
<1> DEFINE g1 == AddEntries(base, EpochIndex)
           g2 == AddEntries(g1, ScriptIndexes)
           g3 == AddEntries(g2, ChangelogIndex)
           h1 == AddEntries(g3, FileIndexes)
           h2 == AddEntries(h1, RelationIndexes)
<1>3. HeaderEntries = AddEntries(h2, customTags)
  BY DEF HeaderEntries, GenIndexes, base
<1> HIDE DEF g1, g2, g3, h1, h2
<1>4. ASSUME NEW f, NEW g
      PROVE  /\ t \in DOMAIN AddEntries(f, g) <=> t \in DOMAIN f \/ t \in DOMAIN g
             /\ t \in DOMAIN g => AddEntries(f, g)[t] = g[t]
             /\ t \in DOMAIN f /\ t \notin DOMAIN g => AddEntries(f, g)[t] = f[t]
  BY DEF AddEntries
<1>5. /\ t \in DOMAIN g1 <=> t \in DOMAIN base \/ t \in DOMAIN EpochIndex
      /\ t \in DOMAIN EpochIndex => g1[t] = EpochIndex[t]
      /\ t \in DOMAIN base /\ t \notin DOMAIN EpochIndex => g1[t] = base[t]
  BY <1>4 DEF g1
<1>6. /\ t \in DOMAIN g2 <=> t \in DOMAIN g1 \/ t \in DOMAIN ScriptIndexes
      /\ t \in DOMAIN ScriptIndexes => g2[t] = ScriptIndexes[t]
      /\ t \in DOMAIN g1 /\ t \notin DOMAIN ScriptIndexes => g2[t] = g1[t]
  BY <1>4 DEF g2
<1>7. /\ t \in DOMAIN g3 <=> t \in DOMAIN g2 \/ t \in DOMAIN ChangelogIndex
      /\ t \in DOMAIN ChangelogIndex => g3[t] = ChangelogIndex[t]
      /\ t \in DOMAIN g2 /\ t \notin DOMAIN ChangelogIndex => g3[t] = g2[t]
  BY <1>4 DEF g3
<1>8. /\ t \in DOMAIN h1 <=> t \in DOMAIN g3 \/ t \in DOMAIN FileIndexes
      /\ t \in DOMAIN FileIndexes => h1[t] = FileIndexes[t]
      /\ t \in DOMAIN g3 /\ t \notin DOMAIN FileIndexes => h1[t] = g3[t]
  BY <1>4 DEF h1
<1>9. /\ t \in DOMAIN h2 <=> t \in DOMAIN h1 \/ t \in DOMAIN RelationIndexes
      /\ t \in DOMAIN RelationIndexes => h2[t] = RelationIndexes[t]
      /\ t \in DOMAIN h1 /\ t \notin DOMAIN RelationIndexes => h2[t] = h1[t]
  BY <1>4 DEF h2
<1>10. /\ t \in DOMAIN HeaderEntries <=> t \in DOMAIN h2 \/ t \in DOMAIN customTags
       /\ t \in DOMAIN customTags => HeaderEntries[t] = customTags[t]
       /\ t \in DOMAIN h2 /\ t \notin DOMAIN customTags => HeaderEntries[t] = h2[t]
  BY <1>3, <1>4
<1>11. t \in {"name", "version", "release", "arch", "sourcerpm", "size", "payloaddigest"}
         <=> t \in NumberTags \cup {"payloaddigest"}
  BY DEF NumberTags
<1>12. t \in DOMAIN HeaderEntries <=>
              \/ t \in NumberTags \cup {"payloaddigest"}
              \/ t \in DOMAIN EpochIndex \/ t \in DOMAIN ScriptIndexes
              \/ t \in DOMAIN ChangelogIndex \/ t \in DOMAIN FileIndexes
              \/ t \in DOMAIN RelationIndexes \/ t \in DOMAIN customTags
  BY <1>1, <1>5, <1>6, <1>7, <1>8, <1>9, <1>10, Zenon
<1> QED
  BY <1>1, <1>2, <1>5, <1>6, <1>7, <1>8, <1>9, <1>10, <1>11, <1>12

\* The tags of the scriptlets.
ScriptTags ==
  {"pretrans", "prein", "postin", "preun", "postun", "posttrans", "pretransprog",
   "preinprog", "postinprog", "preunprog", "postunprog", "posttransprog"}

\* The scriptlets that are set, with their interpreters.
LEMMA ScriptPart ==
  /\ DOMAIN ScriptIndexes \subseteq ScriptTags
  /\ "pretrans" \in DOMAIN ScriptIndexes <=> scripts["pretrans"] > 0
  /\ "pretrans" \in DOMAIN ScriptIndexes => ScriptIndexes["pretrans"] = scripts["pretrans"]
  /\ "pretransprog" \in DOMAIN ScriptIndexes <=> scripts["pretrans"] > 0
  /\ "pretransprog" \in DOMAIN ScriptIndexes => ScriptIndexes["pretransprog"] = "/bin/sh"
<1> DEFINE set == {k \in DOMAIN ProgTag : scripts[k] > 0}
           progs == {ProgTag[k] : k \in set}
<1>1. DOMAIN ScriptIndexes \subseteq ScriptTags
  BY ScriptDomain, ProgTags DEF ScriptTags
<1>2. /\ DOMAIN ScriptIndexes = set \cup progs
      /\ \A t \in progs : ScriptIndexes[t] = "/bin/sh"
      /\ \A t \in set : t \notin progs => ScriptIndexes[t] = scripts[t]
  BY DEF ScriptIndexes, AddEntries, Restrict
<1>3. /\ DOMAIN ProgTag = {"pretrans", "prein", "postin", "preun", "postun", "posttrans"}
      /\ ProgTag["pretrans"] = "pretransprog"
      /\ \A k \in DOMAIN ProgTag : ProgTag[k] = "pretransprog" => k = "pretrans"
      /\ \A k \in DOMAIN ProgTag : ProgTag[k] # "pretrans"
  BY DEF ProgTag
<1>4. "pretrans" \in set <=> scripts["pretrans"] > 0
  BY <1>3
<1>5. "pretransprog" \notin set /\ "pretrans" \notin progs
  BY <1>3
<1>6. "pretransprog" \in progs <=> "pretrans" \in set
  BY <1>3
<1> HIDE DEF set, progs
<1> QED
  BY <1>1, <1>2, <1>4, <1>5, <1>6

\* The other parts that may be left out.
LEMMA OtherParts ==
  /\ DOMAIN EpochIndex = IF meta.epoch > 0 THEN {"epoch"} ELSE {}
  /\ meta.epoch > 0 => EpochIndex["epoch"] = meta.epoch
  /\ DOMAIN ChangelogIndex = IF changelog # << >> THEN {"changelog"} ELSE {}
  /\ changelog # << >> => ChangelogIndex["changelog"] = changelog
  /\ DOMAIN RelationIndexes = {t \in RelTags : meta.rels[t] # << >>}
  /\ \A t \in DOMAIN RelationIndexes : RelationIndexes[t] = meta.rels[t]
<1>1. /\ DOMAIN EpochIndex = IF meta.epoch > 0 THEN {"epoch"} ELSE {}
      /\ meta.epoch > 0 => EpochIndex["epoch"] = meta.epoch
  BY DEF EpochIndex, Put, EmptyMap
<1>2. /\ DOMAIN ChangelogIndex = IF changelog # << >> THEN {"changelog"} ELSE {}
      /\ changelog # << >> => ChangelogIndex["changelog"] = changelog
  BY DEF ChangelogIndex, Put, EmptyMap
<1>3. /\ DOMAIN RelationIndexes = {t \in RelTags : meta.rels[t] # << >>}
      /\ \A t \in DOMAIN RelationIndexes : RelationIndexes[t] = meta.rels[t]
  BY DEF RelationIndexes, Restrict
<1> QED
  BY <1>1, <1>2, <1>3

\* The file index of a package that has files.
LEMMA FilePart ==
  /\ DOMAIN FileIndexes = IF DOMAIN files = {} THEN {} ELSE FileTags
  /\ DOMAIN files # {} =>
       /\ \A a \in FileArrays : FileIndexes[a] = [i \in DOMAIN rows |-> rows[i][a]]
       /\ FileIndexes["dirnames"] = di.l
       /\ FileIndexes["fileinodes"] = [i \in DOMAIN rows |-> i]
<1>1. CASE DOMAIN files = {}
  BY <1>1 DEF FileIndexes, EmptyMap
<1>2. CASE DOMAIN files # {}
  <2> DEFINE cols == [a \in FileArrays |-> [i \in DOMAIN rows |-> rows[i][a]]]
             dirs == [dirnames |-> AllDirs(di), fileinodes |-> [i \in DOMAIN rows |-> i]]
  <2>1. FileIndexes = AddEntries(cols, dirs)
    BY <1>2 DEF FileIndexes
  <2>2. DOMAIN cols = FileArrays /\ \A a \in FileArrays : cols[a] = [i \in DOMAIN rows |-> rows[i][a]]
    OBVIOUS
  <2>3. /\ DOMAIN dirs = {"dirnames", "fileinodes"} /\ dirs["dirnames"] = di.l
        /\ dirs["fileinodes"] = [i \in DOMAIN rows |-> i]
    BY DEF AllDirs
  <2>4. "dirnames" \notin FileArrays /\ "fileinodes" \notin FileArrays
    BY DEF FileArrays
  <2> HIDE DEF cols, dirs
  <2>5. /\ DOMAIN FileIndexes = FileArrays \cup {"dirnames", "fileinodes"}
        /\ \A t \in DOMAIN FileIndexes :
             FileIndexes[t] = IF t \in {"dirnames", "fileinodes"} THEN dirs[t] ELSE cols[t]
    BY <2>1, <2>2, <2>3 DEF AddEntries
  <2>6. \A a \in FileArrays : FileIndexes[a] = [i \in DOMAIN rows |-> rows[i][a]]
    BY <2>2, <2>4, <2>5
  <2>7. FileIndexes["dirnames"] = di.l /\ FileIndexes["fileinodes"] = [i \in DOMAIN rows |-> i]
    BY <2>3, <2>5
  <2> QED
    BY <1>2, <2>5, <2>6, <2>7 DEF FileTags
<1> QED
  BY <1>1, <1>2

\* No two parts have a tag in common, and the tags that are read are these.
LEMMA TagsApart ==
  /\ PoppedTags = NumberTags \cup RelTags \cup FileTags \cup
       {"epoch", "changelog", "payloaddigest", "pretrans", "pretransprog"}
  /\ \A t \in NumberTags \cup {"payloaddigest"} :
       t \notin RelTags \cup FileTags \cup ScriptTags \cup {"epoch", "changelog"}
  /\ \A t \in RelTags : t \notin FileTags \cup ScriptTags \cup {"epoch", "changelog"}
  /\ \A t \in FileTags : t \notin ScriptTags \cup {"epoch", "changelog"}
  /\ \A t \in ScriptTags : t \notin {"epoch", "changelog"}
<1>1. PoppedTags = NumberTags \cup RelTags \cup FileTags \cup
       {"epoch", "changelog", "payloaddigest", "pretrans", "pretransprog"}
  BY DEF PoppedTags, NumberTags, FileTags
<1>2. \A t \in NumberTags \cup {"payloaddigest"} :
       t \notin RelTags \cup FileTags \cup ScriptTags \cup {"epoch", "changelog"}
  BY DEF NumberTags, RelTags, FileTags, FileArrays, ScriptTags
<1>3. \A t \in RelTags : t \notin FileTags \cup ScriptTags \cup {"epoch", "changelog"}
  BY DEF RelTags, FileTags, FileArrays, ScriptTags
<1>4. \A t \in FileTags : t \notin ScriptTags \cup {"epoch", "changelog"}
  BY DEF FileTags, FileArrays, ScriptTags
<1>5. \A t \in ScriptTags : t \notin {"epoch", "changelog"}
  BY DEF ScriptTags
<1> QED
  BY <1>1, <1>2, <1>3, <1>4, <1>5

\* What the header has of the tags that are read, and of the others: of the former,
\* the caller may have set the pretrans scriptlet alone.
LEMMA HeaderTags ==
  ASSUME TagsOK
  PROVE  LET h == HeaderEntries
         IN  /\ NumberTags \cup {"payloaddigest"} \subseteq DOMAIN h
             /\ h["name"] = meta.name /\ h["version"] = meta.version
             /\ h["release"] = meta.release /\ h["arch"] = meta.arch
             /\ h["sourcerpm"] = meta.sourcePackage /\ h["size"] = payloadSize % Words
             /\ h["payloaddigest"] = Payload
             /\ "epoch" \in DOMAIN h <=> meta.epoch > 0
             /\ "epoch" \in DOMAIN h => h["epoch"] = meta.epoch
             /\ "changelog" \in DOMAIN h <=> changelog # << >>
             /\ "changelog" \in DOMAIN h => h["changelog"] = changelog
             /\ "pretransprog" \in DOMAIN h <=> scripts["pretrans"] > 0
             /\ "pretransprog" \in DOMAIN h => h["pretransprog"] = "/bin/sh"
             /\ "pretrans" \in DOMAIN h <=>
                  scripts["pretrans"] > 0 \/ "pretrans" \in DOMAIN customTags
             /\ "pretrans" \in DOMAIN h =>
                  h["pretrans"] = IF "pretrans" \in DOMAIN customTags THEN customTags["pretrans"]
                                                                      ELSE scripts["pretrans"]
<1> DEFINE h == HeaderEntries
<1>1. ASSUME NEW t \in PoppedTags, t # "pretrans" PROVE t \notin DOMAIN customTags
  BY <1>1 DEF TagsOK, OwnTag
<1>2. ASSUME NEW t \in NumberTags \cup {"payloaddigest"}
      PROVE  /\ t \notin DOMAIN EpochIndex /\ t \notin DOMAIN ScriptIndexes
             /\ t \notin DOMAIN ChangelogIndex /\ t \notin DOMAIN FileIndexes
             /\ t \notin DOMAIN RelationIndexes /\ t \notin DOMAIN customTags
  <2>1. t \in PoppedTags /\ t # "pretrans"
    BY TagsApart DEF ScriptTags
  <2> QED
    BY <1>1, <2>1, TagsApart, OtherParts, FilePart, ScriptPart
<1>3. NumberTags \cup {"payloaddigest"} \subseteq DOMAIN h
  BY HeaderParts
<1>4. ASSUME NEW t \in NumberTags \cup {"payloaddigest"}
      PROVE  /\ t = "name" => HeaderEntries[t] = meta.name
             /\ t = "version" => HeaderEntries[t] = meta.version
             /\ t = "release" => HeaderEntries[t] = meta.release
             /\ t = "arch" => HeaderEntries[t] = meta.arch
             /\ t = "sourcerpm" => HeaderEntries[t] = meta.sourcePackage
             /\ t = "size" => HeaderEntries[t] = payloadSize % Words
             /\ t = "payloaddigest" => HeaderEntries[t] = Payload
  BY <1>2, HeaderParts
<1>5. /\ h["name"] = meta.name /\ h["version"] = meta.version
      /\ h["release"] = meta.release /\ h["arch"] = meta.arch
      /\ h["sourcerpm"] = meta.sourcePackage /\ h["size"] = payloadSize % Words
      /\ h["payloaddigest"] = Payload
  BY <1>4 DEF NumberTags
<1>6. /\ "epoch" \in DOMAIN h <=> meta.epoch > 0
      /\ "epoch" \in DOMAIN h => h["epoch"] = meta.epoch
  <2> DEFINE t == "epoch"
  <2>1. /\ t \notin NumberTags \cup {"payloaddigest"} /\ t \notin DOMAIN ScriptIndexes
        /\ t \notin DOMAIN ChangelogIndex /\ t \notin DOMAIN FileIndexes
        /\ t \notin DOMAIN RelationIndexes /\ t \notin DOMAIN customTags
    <3>1. t \in PoppedTags /\ t # "pretrans"
      BY TagsApart
    <3>2. t \notin DOMAIN ChangelogIndex
      BY OtherParts
    <3> QED
      BY <1>1, <3>1, <3>2, TagsApart, OtherParts, FilePart, ScriptPart
  <2>2. t \in DOMAIN EpochIndex <=> meta.epoch > 0
    BY OtherParts
  <2> QED
    BY <2>1, <2>2, HeaderParts, OtherParts
<1>7. /\ "changelog" \in DOMAIN h <=> changelog # << >>
      /\ "changelog" \in DOMAIN h => h["changelog"] = changelog
  <2> DEFINE t == "changelog"
  <2>1. /\ t \notin NumberTags \cup {"payloaddigest"} /\ t \notin DOMAIN ScriptIndexes
        /\ t \notin DOMAIN EpochIndex /\ t \notin DOMAIN FileIndexes
        /\ t \notin DOMAIN RelationIndexes /\ t \notin DOMAIN customTags
    <3>1. t \in PoppedTags /\ t # "pretrans"
      BY TagsApart
    <3>2. t \notin DOMAIN EpochIndex
      BY OtherParts
    <3> QED
      BY <1>1, <3>1, <3>2, TagsApart, OtherParts, FilePart, ScriptPart
  <2>2. t \in DOMAIN ChangelogIndex <=> changelog # << >>
    BY OtherParts
  <2> QED
    BY <2>1, <2>2, HeaderParts, OtherParts
<1>8. ASSUME NEW t \in {"pretrans", "pretransprog"}
      PROVE  /\ t \notin NumberTags \cup {"payloaddigest"}
             /\ t \notin DOMAIN EpochIndex /\ t \notin DOMAIN ChangelogIndex
             /\ t \notin DOMAIN FileIndexes /\ t \notin DOMAIN RelationIndexes
  <2>1. t \in ScriptTags
    BY DEF ScriptTags
  <2> QED
    BY <2>1, TagsApart, OtherParts, FilePart
<1>9. /\ "pretransprog" \in DOMAIN h <=> scripts["pretrans"] > 0
      /\ "pretransprog" \in DOMAIN h => h["pretransprog"] = "/bin/sh"
  <2>1. "pretransprog" \notin DOMAIN customTags
    BY <1>1, TagsApart
  <2> QED
    BY <1>8, <2>1, HeaderParts, ScriptPart
<1>10. /\ "pretrans" \in DOMAIN h <=>
            scripts["pretrans"] > 0 \/ "pretrans" \in DOMAIN customTags
       /\ "pretrans" \in DOMAIN h =>
            h["pretrans"] = IF "pretrans" \in DOMAIN customTags THEN customTags["pretrans"]
                                                                ELSE scripts["pretrans"]
  BY <1>8, HeaderParts, ScriptPart
<1> QED
  BY <1>3, <1>5, <1>6, <1>7, <1>9, <1>10

\* The relations, where there are any.
LEMMA HeaderRels ==
  ASSUME TagsOK, NEW t \in RelTags
  PROVE  /\ t \in DOMAIN HeaderEntries <=> meta.rels[t] # << >>
         /\ t \in DOMAIN HeaderEntries => HeaderEntries[t] = meta.rels[t]
<1>1. t \in PoppedTags /\ t # "pretrans"
  BY TagsApart DEF ScriptTags
<1>2. t \notin DOMAIN customTags
  BY <1>1 DEF TagsOK, OwnTag
<1>3. t \notin NumberTags \cup {"payloaddigest"} /\ t \notin FileTags \cup ScriptTags
  BY TagsApart
<1>4. /\ t \notin DOMAIN EpochIndex /\ t \notin DOMAIN ScriptIndexes
      /\ t \notin DOMAIN ChangelogIndex /\ t \notin DOMAIN FileIndexes
  BY <1>3, TagsApart, OtherParts, FilePart, ScriptPart
<1> QED
  BY <1>2, <1>3, <1>4, HeaderParts, OtherParts

\* The file index, where there are files.
LEMMA HeaderFiles ==
  ASSUME TagsOK
  PROVE  /\ \A t \in FileTags : t \in DOMAIN HeaderEntries <=> DOMAIN files # {}
         /\ DOMAIN files # {} =>
              /\ \A a \in FileArrays : HeaderEntries[a] = [i \in DOMAIN rows |-> rows[i][a]]
              /\ HeaderEntries["dirnames"] = di.l
              /\ HeaderEntries["fileinodes"] = [i \in DOMAIN rows |-> i]
<1>1. ASSUME NEW t \in FileTags
      PROVE  /\ t \in DOMAIN HeaderEntries <=> DOMAIN files # {}
             /\ DOMAIN files # {} => HeaderEntries[t] = FileIndexes[t]
  <2>1. t \in PoppedTags /\ t # "pretrans"
    BY TagsApart DEF ScriptTags
  <2>2. t \notin DOMAIN customTags
    BY <2>1 DEF TagsOK, OwnTag
  <2>3. t \notin NumberTags \cup {"payloaddigest"} /\ t \notin RelTags \cup ScriptTags
    BY TagsApart
  <2>4. /\ t \notin DOMAIN EpochIndex /\ t \notin DOMAIN ScriptIndexes
        /\ t \notin DOMAIN ChangelogIndex /\ t \notin DOMAIN RelationIndexes
    BY <2>3, TagsApart, OtherParts, ScriptPart
  <2> QED
    BY <2>2, <2>3, <2>4, HeaderParts, FilePart
<1> QED
  BY <1>1, FilePart DEF FileTags

\* The other tags are the caller's and those of the scriptlets that are not read.
LEMMA HeaderOthers ==
  ASSUME NEW t, t \notin PoppedTags
  PROVE  /\ t \in DOMAIN HeaderEntries <=>
              t \in DOMAIN customTags \/ t \in DOMAIN ScriptIndexes
         /\ t \in DOMAIN customTags => HeaderEntries[t] = customTags[t]
<1>1. /\ t \notin NumberTags \cup {"payloaddigest"} /\ t \notin FileTags /\ t \notin RelTags
      /\ t # "epoch" /\ t # "changelog"
  BY TagsApart
<1> QED
  BY <1>1, HeaderParts, OtherParts, FilePart

\* A header is a function of its tags.
LEMMA HeaderIsFunction == HeaderEntries = [t \in DOMAIN HeaderEntries |-> HeaderEntries[t]]
BY DEF HeaderEntries, AddEntries

\* So the header of an object is one that can be read.
LEMMA HeaderGood ==
  ASSUME ObjectOK, meta \in MetaType, TagsOK
  PROVE  IsHeader(HeaderEntries)
<1> DEFINE h == HeaderEntries
<1>1. \A t \in NumberTags : h[t] \in Nat
  <2>1. payloadSize % Words \in Nat
    BY CallsAssumption DEF ObjectOK
  <2>2. /\ meta.name \in Nat /\ meta.version \in Nat /\ meta.release \in Nat /\ meta.arch \in Nat
        /\ meta.sourcePackage \in Nat
    BY DEF MetaType
  <2>3. /\ h["name"] = meta.name /\ h["version"] = meta.version
        /\ h["release"] = meta.release /\ h["arch"] = meta.arch
        /\ h["sourcerpm"] = meta.sourcePackage /\ h["size"] = payloadSize % Words
    BY HeaderTags
  <2> HIDE DEF h
  <2> QED
    BY <2>1, <2>2, <2>3 DEF NumberTags
<1>2. "epoch" \in DOMAIN h => h["epoch"] \in Nat \ {0}
  BY HeaderTags DEF MetaType
<1>3. \A t \in RelTags \cap DOMAIN h : h[t] \in RelSeqs /\ h[t] # << >>
  BY HeaderRels DEF MetaType, RelSeqs
<1>4. "changelog" \in DOMAIN h => h["changelog"] # << >>
  BY HeaderTags
<1>5. "pretrans" \in DOMAIN h => h["pretrans"] \in Nat \ {0}
  <2>1. "pretrans" \in DOMAIN customTags => customTags["pretrans"] \in Nat \ {0}
    BY TagsApart DEF TagsOK, OwnTag
  <2>2. scripts["pretrans"] \in Nat
    BY DEF ObjectOK, ProgTag
  <2> QED
    BY <2>1, <2>2, HeaderTags
<1>6. "pretransprog" \in DOMAIN h => "pretrans" \in DOMAIN h /\ h["pretransprog"] = "/bin/sh"
  BY HeaderTags
<1>7. CASE DOMAIN files = {}
  <2>1. FileTags \cap DOMAIN h = {}
    BY <1>7, HeaderFiles
  <2> QED
    BY <1>1, <1>2, <1>3, <1>4, <1>5, <1>6, <2>1, HeaderTags, HeaderIsFunction DEF IsHeader
<1>8. CASE DOMAIN files # {}
  <2>1. /\ rows \in Seq(RowType) /\ DOMAIN rows = 1 .. Len(rows) /\ Len(rows) \in Nat
        /\ di.l \in Seq(STRING)
    BY DEF ObjectOK
  <2>2. \A i \in 1 .. Len(rows) :
          /\ rows[i]["filemodes"] \in SUBSET TypeBits
          /\ rows[i]["fileflags"] \in SUBSET FlagBits
          /\ rows[i]["fileowners"] \in STRING
    <3>1. \A r \in RowType : /\ r["filemodes"] \in SUBSET TypeBits
                             /\ r["fileflags"] \in SUBSET FlagBits
                             /\ r["fileowners"] \in STRING
      BY DEF RowType
    <3>2. \A i \in 1 .. Len(rows) : rows[i] \in RowType
      BY <2>1
    <3> QED
      BY <3>1, <3>2
  <2>3. /\ FileTags \subseteq DOMAIN h
        /\ \A a \in FileArrays : h[a] = [i \in 1 .. Len(rows) |-> rows[i][a]]
        /\ h["dirnames"] = di.l
        /\ h["fileinodes"] = [i \in 1 .. Len(rows) |-> i]
    BY <1>8, <2>1, HeaderFiles
  <2> HIDE DEF h
  <2>4. {"filemodes", "fileflags", "fileowners"} \subseteq FileArrays
    BY DEF FileArrays
  <2>5. /\ h["filemodes"] = [i \in 1 .. Len(rows) |-> rows[i]["filemodes"]]
        /\ h["fileflags"] = [i \in 1 .. Len(rows) |-> rows[i]["fileflags"]]
        /\ h["fileowners"] = [i \in 1 .. Len(rows) |-> rows[i]["fileowners"]]
    BY <2>3, <2>4
  <2>6. h["filemodes"] \in Seq(SUBSET TypeBits) /\ Len(h["filemodes"]) = Len(rows)
    BY <2>1, <2>2, <2>5
  <2>7. h["fileflags"] \in Seq(SUBSET FlagBits)
    BY <2>1, <2>2, <2>5
  <2>8. h["fileowners"] \in Seq(STRING)
    BY <2>1, <2>2, <2>5
  <2>9. IsIndex(h)
    BY <2>1, <2>3, <2>6, <2>7, <2>8 DEF IsIndex
  <2> QED
    BY <1>1, <1>2, <1>3, <1>4, <1>5, <1>6, <2>9, HeaderTags, HeaderIsFunction DEF IsHeader, h
<1> QED
  BY <1>7, <1>8

-----------------------------------------------------------------------------
(* The steps of Write and the calls.                                        *)

\* Between the sections, the output is not complete.
LEMMA StepsTaken == OutShort /\ pc \in {"files"} \cup SectionSteps => out # Steps
<1> SUFFICES ASSUME OutShort, pc \in {"files"} \cup SectionSteps, out = Steps PROVE FALSE
  OBVIOUS
<1>1. pc # "files"
  BY StepsDiffer DEF OutShort
<1>2. PICK k \in 1 .. 5 : pc = Steps[k]
  BY <1>1, StepsDiffer DEF SectionSteps
<1>3. Len(out) = k - 1
  BY <1>2 DEF OutShort, TakenBefore
<1>4. Len(out) = 5
  BY StepsDiffer
<1> QED
  BY <1>3, <1>4

\* What a call that fills the package leaves alone.
LEMMA CallLeaves ==
  ASSUME Call
  PROVE  /\ pc = "idle" /\ pc' \in {"idle", "panic"} /\ writes < MaxWrites
         /\ UNCHANGED <<payloadVars, todo, hdr, out, image, res, writes>>
BY DEF Call, AddFile, AllowListDirs, AddScript, SetChangelog, AddCustomTag,
   AddCustomSig, SetPGPSigner, ClearSignatures, SetSignature, Calling, Idle,
   Panic, writeVars

\* The steps keep what w took in order.
LEMMA NextOutShort == OutShort /\ [Next]_vars => OutShort'
<1> SUFFICES ASSUME OutShort, [Next]_vars PROVE OutShort'
  OBVIOUS
<1>1. CASE Call
  BY <1>1, CallLeaves, StepsDiffer DEF OutShort
<1>2. CASE WriteStart
  BY <1>2, StepsDiffer DEF WriteStart, OutShort
<1>3. CASE WriteStep
  <2>1. pc \in {"files"} \cup SectionSteps /\ pc # "idle"
    BY <1>3 DEF WriteStep, WriteFile, ClosePayload, WriteLead, WriteSignatures, WritePad,
       WriteHeader, WritePayload, SectionSteps
  <2>2. OutInv /\ res # "ok"
    BY <2>1, StepsTaken DEF OutInv, OutShort
  <2>3. OutInv'
    BY <2>2, NextOut
  <2>4. res' = "ok" => pc' = "idle"
    BY <1>3, <2>2 DEF WriteStep, WriteFile, ClosePayload, WriteLead, WriteSignatures, WritePad,
       WriteHeader, WritePayload, Return, Refuse, Take, Goto
  <2> QED
    BY <2>3, <2>4 DEF OutInv, OutShort
<1>4. CASE UNCHANGED vars
  BY <1>4 DEF vars, writeVars, OutShort, TakenBefore
<1> QED
  BY <1>1, <1>2, <1>3, <1>4 DEF Next

\* w takes the last section.
Completes ==
  /\ pc = "payload"
  /\ image' = Put(image, "payload", Payload)
  /\ UNCHANGED <<apiVars, payloadVars, closed, writes>>

\* No other step completes the output; where it is complete, only the caller does
\* anything but start anew.
LEMMA WhatCompletes ==
  ASSUME OutShort, [Next]_vars, out' = Steps
  PROVE  Completes \/ Call \/ UNCHANGED vars
<1>1. ASSUME pc \in {"files"} \cup SectionSteps PROVE out # Steps
  BY <1>1, StepsTaken
<1>2. CASE WriteStart
  BY <1>2, StepsDiffer DEF WriteStart
<1>3. CASE \E n \in Names : WriteFile(n)
  BY <1>1, <1>3 DEF WriteFile
<1>4. CASE ClosePayload
  BY <1>1, <1>4 DEF ClosePayload
<1>5. CASE WriteLead \/ WriteSignatures \/ WritePad \/ WriteHeader
  <2>1. pc' \notin SectionSteps
    <3>1. OutShort'
      BY NextOutShort
    <3>2. (OutShort /\ pc \in {"files"} \cup SectionSteps => out # Steps)'
      BY StepsTaken, PTL
    <3> QED
      BY <3>1, <3>2 DEF Steps
  <2>2. UNCHANGED out \/ out' = Append(out, "torn")
    BY <1>5, <2>1 DEF WriteLead, WriteSignatures, WritePad, WriteHeader, Take, Refuse, Return,
       Goto, SectionSteps
  <2>3. out \in Seq(Taken) /\ pc \in SectionSteps /\ out # Steps
    BY <1>1, <1>5 DEF WriteLead, WriteSignatures, WritePad, WriteHeader, SectionSteps, OutShort
  <2>4. Append(out, "torn") # Steps
    <3>1. "torn" \in Taken /\ Len(out) + 1 \in Nat /\ Len(out) = (Len(out) + 1) - 1
      BY <2>3 DEF Taken
    <3>2. Append(out, "torn")[Len(out) + 1] = "torn" /\ Len(Append(out, "torn")) = Len(out) + 1
      BY <2>3, <3>1, Appended
    <3>3. \A i \in 1 .. 5 : Steps[i] # "torn"
      BY StepsDiffer
    <3> QED
      BY <3>1, <3>2, <3>3, StepsDiffer
  <2> QED
    BY <2>2, <2>3, <2>4
<1>6. CASE WritePayload
  <2>1. pc = "payload" /\ UNCHANGED <<apiVars, payloadVars, closed, writes>>
    BY <1>6 DEF WritePayload, Return, Refuse
  <2>2. ASSUME Refuse PROVE FALSE
    <3>1. pc = Steps[5]
      BY <2>1, StepsDiffer
    <3>2. OutInv
      BY <2>1 DEF OutInv, OutShort
    <3>3. pc' = "idle" /\ res' # "ok" /\ OutInv'
      BY <2>2, <3>1, <3>2, RefuseOut DEF Refuse, Return
    <3> QED
      BY <3>3 DEF OutInv
  <2> QED
    BY <1>6, <2>1, <2>2 DEF WritePayload, Completes, Return
<1> QED
  BY <1>2, <1>3, <1>4, <1>5, <1>6 DEF Next, WriteStep

\* The metadata and the lead are set once for all, and what is added to the tags
\* is among CustomTags.
LEMMA NextKept ==
  ASSUME [Next]_vars
  PROVE  UNCHANGED <<meta, lead>> /\ (OwnTags /\ TagsOK => TagsOK')
<1>1. UNCHANGED <<meta, lead>>
  BY DEF Next, Call, WriteStart, WriteStep, AddFile, AllowListDirs, AddScript, SetChangelog,
     AddCustomTag, AddCustomSig, SetPGPSigner, ClearSignatures, SetSignature, Calling,
     WriteFile, ClosePayload, WriteLead, WriteSignatures, WritePad, WriteHeader, WritePayload,
     vars, apiVars
<1>2. customTags' = customTags \/ \E t \in CustomTags : customTags' = Put(customTags, t[1], t[2])
  BY DEF Next, Call, WriteStart, WriteStep, AddFile, AllowListDirs, AddScript, SetChangelog,
     AddCustomTag, AddCustomSig, SetPGPSigner, ClearSignatures, SetSignature, Calling,
     WriteFile, ClosePayload, WriteLead, WriteSignatures, WritePad, WriteHeader, WritePayload,
     vars, apiVars
<1>3. ASSUME OwnTags, TagsOK, NEW t \in CustomTags, customTags' = Put(customTags, t[1], t[2])
      PROVE  TagsOK'
  <2>1. OwnTag(t[1], t[2])
    BY <1>3 DEF OwnTags
  <2>2. /\ DOMAIN customTags' = DOMAIN customTags \cup {t[1]}
        /\ \A x \in DOMAIN customTags' : customTags'[x] = IF x = t[1] THEN t[2] ELSE customTags[x]
        /\ customTags' = [x \in DOMAIN customTags' |-> customTags'[x]]
    BY <1>3 DEF Put
  <2> QED
    BY <1>3, <2>1, <2>2 DEF TagsOK, OwnTag
<1>4. ASSUME TagsOK, customTags' = customTags PROVE TagsOK'
  BY <1>4 DEF TagsOK
<1> QED
  BY <1>1, <1>2, <1>3, <1>4

\* A section is made of the object as it is.
LEMMA NextBuild == BuildInv /\ [Next]_vars => BuildInv'
<1> SUFFICES ASSUME BuildInv, [Next]_vars PROVE BuildInv'
  OBVIOUS
<1>1. ASSUME pc' \notin {"sig", "pad", "header", "payload"} PROVE BuildInv'
  BY <1>1 DEF BuildInv
<1>2. ASSUME UNCHANGED <<apiVars, payloadVars>>
      PROVE  UNCHANGED <<HeaderEntries, Payload, LeadVersion, lead>>
  BY <1>2, HeaderSame DEF LeadVersion, apiVars
<1>3. CASE Call
  BY <1>1, <1>3 DEF Call, AddFile, AllowListDirs, AddScript, SetChangelog, AddCustomTag,
     AddCustomSig, SetPGPSigner, ClearSignatures, SetSignature, Calling, Idle,
     Panic, writeVars
<1>4. CASE WriteStart
  BY <1>1, <1>4 DEF WriteStart
<1>5. CASE \E n \in Names : WriteFile(n)
  BY <1>1, <1>5 DEF WriteFile, Return
<1>6. CASE ClosePayload
  BY <1>1, <1>6 DEF ClosePayload, Return, Goto
<1>7. CASE WriteLead
  <2>1. CASE Take("lead", LeadName(lead.name, LeadVersion), "sig")
    <3>1. /\ "lead" \in DOMAIN image' /\ image'["lead"] = LeadName(lead.name, LeadVersion)
          /\ pc' = "sig"
      BY <2>1 DEF Take, Put, Goto
    <3>2. UNCHANGED <<LeadVersion, lead>>
      BY <1>2, <1>7 DEF WriteLead
    <3> QED
      BY <3>1, <3>2 DEF BuildInv
  <2> QED
    BY <1>1, <1>7, <2>1 DEF WriteLead, Refuse, Return
<1>8. CASE WriteSignatures
  <2> DEFINE h == [h |-> "immutable", entries |-> HeaderEntries]
             s == [h |-> "signatures", entries |-> AddEntries(Signatures(h), customSigs)]
  <2>1. CASE Take("sig", s, "pad") /\ hdr' = h
    <3>1. UNCHANGED <<HeaderEntries, LeadVersion, lead>>
      BY <1>2, <1>8 DEF WriteSignatures
    <3>2. /\ pc' = "pad" /\ DOMAIN image \subseteq DOMAIN image'
          /\ \A k \in DOMAIN image : k # "sig" => image'[k] = image[k]
      BY <2>1 DEF Take, Put, Goto
    <3>3. pc = "sig"
      BY <1>8 DEF WriteSignatures
    <3>4. "lead" \in DOMAIN image' /\ image'["lead"] = LeadName(lead.name, LeadVersion)
      BY <3>2, <3>3 DEF BuildInv
    <3>5. HeaderBuilt'
      BY <2>1, <3>1 DEF HeaderBuilt
    <3> QED
      BY <3>1, <3>2, <3>4, <3>5 DEF BuildInv
  <2> QED
    BY <1>1, <1>8, <2>1 DEF WriteSignatures, Refuse, Return
<1>9. ASSUME pc \in {"pad", "header"}, pc' \in {"header", "payload"},
             UNCHANGED <<apiVars, payloadVars, hdr>>,
             NEW k \in {"pad", "header"}, NEW c, image' = Put(image, k, c),
             pc' = "payload" => k = "header" /\ c = hdr
      PROVE  BuildInv'
  <2>1. UNCHANGED <<HeaderEntries, LeadVersion, lead>>
    BY <1>2, <1>9
  <2>2. /\ DOMAIN image \subseteq DOMAIN image' /\ k \in DOMAIN image' /\ image'[k] = c
        /\ \A x \in DOMAIN image : x # k => image'[x] = image[x]
    BY <1>9 DEF Put
  <2>3. "lead" \in DOMAIN image' /\ image'["lead"] = LeadName(lead.name, LeadVersion)
    BY <1>9, <2>2 DEF BuildInv
  <2>4. HeaderBuilt'
    BY <1>9, <2>1 DEF BuildInv, HeaderBuilt
  <2> QED
    BY <1>9, <2>1, <2>2, <2>3, <2>4 DEF BuildInv
<1>10. CASE WritePad
  BY <1>1, <1>9, <1>10 DEF WritePad, Take, Refuse, Return, Goto
<1>11. CASE WriteHeader
  BY <1>1, <1>9, <1>11 DEF WriteHeader, Take, Refuse, Return, Goto
<1>12. CASE WritePayload
  BY <1>1, <1>12 DEF WritePayload, Refuse, Return
<1>13. CASE UNCHANGED vars
  <2>1. UNCHANGED <<apiVars, payloadVars, pc, hdr, image>>
    BY <1>13 DEF vars, writeVars
  <2> QED
    BY <1>2, <2>1 DEF BuildInv, HeaderBuilt
<1> QED
  BY <1>3, <1>4, <1>5, <1>6, <1>7, <1>8, <1>10, <1>11, <1>12, <1>13 DEF Next, WriteStep

\* Where the output becomes complete it is a package, of the object's header and payload.
LEMMA PackageNow ==
  ASSUME ObjectOK, ClosedInv, BuildInv, meta \in MetaType, TagsOK, Completes
  PROVE  /\ IsPackage(image')
         /\ PackageHeader(image') = HeaderEntries
         /\ image'["payload"] = Payload /\ PackageEntries(image') = cpio.entries
         /\ image'["lead"] = LeadName(lead.name, LeadVersion)
<1>1. /\ image'["payload"] = Payload /\ image'["header"] = hdr
      /\ image'["lead"] = LeadName(lead.name, LeadVersion)
  BY DEF Completes, BuildInv, Put
<1>2. hdr.entries = HeaderEntries
  BY DEF Completes, BuildInv, HeaderBuilt
<1>3. cpio.closed = TRUE /\ cpio.entries \in Seq(EntryType)
  BY DEF Completes, ClosedInv, SectionSteps, ObjectOK
<1>4. Payload = [entries |-> cpio.entries, complete |-> TRUE]
  BY <1>3 DEF Payload
<1>5. PackageEntries(image') = cpio.entries
  <2>1. Payload.entries = cpio.entries
    BY <1>4
  <2> QED
    BY <1>1, <2>1 DEF PackageEntries
<1>6. PackageHeader(image') = HeaderEntries
  BY <1>1, <1>2 DEF PackageHeader
<1>7. HeaderEntries["payloaddigest"] = Payload
  BY HeaderTags
<1> QED
  BY <1>1, <1>3, <1>4, <1>5, <1>6, <1>7, HeaderGood DEF IsPackage

-----------------------------------------------------------------------------
(* Reading.                                                                 *)

\* ReadRPMFile gives back an RPM object ...
Reads ==
  /\ pc = "idle" /\ writes > 0 /\ reads' = reads + 1
  /\ out = Steps
  /\ ScriptsReadable /\ ArraysCover
  /\ ReadPackage
  /\ UNCHANGED <<todo, hdr, out, image>>

\* ... or none, and leaves the one it had.
NotRead ==
  /\ pc = "idle" /\ pc' \in {"idle", "panic"}
  /\ writes > 0 /\ reads' = reads + 1
  /\ res' = res \/ res' = "unreadable"
  /\ out = Steps /\ pc' = "panic" => ~ArraysCover
  /\ UNCHANGED <<apiVars, payloadVars, closed, signatures, headers, todo, hdr, out, image,
                 writes, source>>

\* Every step is one of RPM's or one of these.
LEMMA StepCases ==
  ASSUME [RTNext]_allVars
  PROVE  ([Next]_vars /\ UNCHANGED readVars) \/ Reads \/ NotRead
<1>1. CASE ReadRPMFile
  BY <1>1 DEF ReadRPMFile, Reads, NotRead, ReadError, ReadPanic
<1> QED
  BY <1>1 DEF RTNext, Next, allVars

\* An entry of the payload has an element in each array that readFile takes.
LEMMA IndexRead ==
  ASSUME IsPackage(image), ArraysCover, NEW i \in DOMAIN PayloadEntries
  PROVE  /\ IsIndex(H) /\ i \in 1 .. Len(H["filemodes"])
         /\ i \in DOMAIN H["fileflags"] /\ i \in DOMAIN H["fileowners"]
<1> DEFINE e == PayloadEntries
<1>1. e \in Seq(EntryType) /\ IsHeader(H)
  BY DEF IsPackage, PackageEntries, PackageHeader, PayloadEntries, H
<1>2. DOMAIN e = 1 .. Len(e) /\ Len(e) \in Nat
  BY <1>1
<1>3. "filemodes" \in DOMAIN H
  <2>1. "filemodes" \notin DOMAIN H => Len(e) <= Len(<< >>)
    BY DEF ArraysCover, PopTag
  <2> QED
    BY <1>2, <2>1
<1>4. IsIndex(H)
  <2>1. "filemodes" \in FileTags
    BY DEF FileTags, FileArrays
  <2> QED
    BY <1>1, <1>3, <2>1 DEF IsHeader
<1>5. i \in 1 .. Len(H["filemodes"])
  BY <1>2, <1>3, <1>4 DEF ArraysCover, PopTag, IsIndex
<1>6. /\ {"fileflags", "fileowners"} \subseteq FileArrays
      /\ \A a \in FileArrays : H[a] = [k \in 1 .. Len(H["filemodes"]) |-> H[a][k]]
  BY <1>4 DEF IsIndex, FileArrays
<1>7. DOMAIN H["fileflags"] = 1 .. Len(H["filemodes"])
  BY <1>6
<1>8. DOMAIN H["fileowners"] = 1 .. Len(H["filemodes"])
  BY <1>6
<1> QED
  BY <1>4, <1>5, <1>7, <1>8

\* The files read are those of the payload, of the modes, flags and owners in the
\* header.
LEMMA FilesRead ==
  ASSUME IsPackage(image), ArraysCover
  PROVE  /\ DOMAIN ReadFiles \subseteq Names
         /\ ReadFiles \in [DOMAIN ReadFiles -> FileType]
<1> DEFINE e == PayloadEntries
<1>1. e \in Seq(EntryType) /\ IsHeader(H)
  BY DEF IsPackage, PackageEntries, PackageHeader, PayloadEntries, H
<1>2. DOMAIN e = 1 .. Len(e) /\ Len(e) \in Nat
  BY <1>1
<1>3. \A i \in DOMAIN e : e[i].name \in Names /\ e[i].time \in Nat /\ e[i].body \in Nat
  <2>1. \A i \in 1 .. Len(e) : e[i] \in EntryType
    BY <1>1
  <2>2. \A x \in EntryType : x.name \in Names /\ x.time \in Nat /\ x.body \in Nat
    BY DEF EntryType
  <2> QED
    BY <1>2, <2>1, <2>2
<1>4. ASSUME NEW i \in DOMAIN e PROVE ReadFile(i) \in FileType
  <2>1. /\ IsIndex(H) /\ i \in 1 .. Len(H["filemodes"])
        /\ i \in DOMAIN H["fileflags"] /\ i \in DOMAIN H["fileowners"]
    BY <1>4, IndexRead
  <2>2. H["filemodes"][i] \in SUBSET TypeBits
    BY <2>1 DEF IsIndex
  <2>3. H["fileflags"][i] \in SUBSET FlagBits
    BY <2>1 DEF IsIndex
  <2>4. H["fileowners"][i] \in STRING
    BY <2>1 DEF IsIndex
  <2> QED
    BY <1>3, <1>4, <2>2, <2>3, <2>4 DEF ReadFile, FileType
<1>5. DOMAIN ReadFiles = {e[i].name : i \in DOMAIN e}
  BY DEF ReadFiles
<1>6. ASSUME NEW n \in DOMAIN ReadFiles PROVE ReadFiles[n] \in FileType
  <2>1. \E i \in DOMAIN e : e[i].name = n
    BY <1>5
  <2>2. ReadFiles[n] = ReadFile(CHOOSE i \in DOMAIN e : e[i].name = n)
    BY DEF ReadFiles
  <2> QED
    BY <1>4, <2>1, <2>2
<1>7. ReadFiles = [n \in DOMAIN ReadFiles |-> ReadFiles[n]]
  BY DEF ReadFiles
<1> QED
  BY <1>3, <1>5, <1>6, <1>7

\* The metadata read is metadata.
LEMMA MetaRead == ASSUME IsHeader(H) PROVE ReadMeta \in MetaType
<1>1. /\ PopTag("name", 0) \in Nat /\ PopTag("version", 0) \in Nat
      /\ PopTag("release", 0) \in Nat /\ PopTag("arch", 0) \in Nat
      /\ PopTag("sourcerpm", 0) \in Nat
  BY DEF IsHeader, PopTag, NumberTags
<1>2. PopTag("epoch", 0) \in Nat
  BY DEF IsHeader, PopTag
<1>3. ASSUME NEW t \in RelTags
      PROVE  ReadRelations(t) \in Seq([name : Nat, sense : Senses, version : Nat])
  <2>1. t \in DOMAIN H => H[t] \in RelSeqs
    BY DEF IsHeader
  <2>2. << >> \in RelSeqs
    BY DEF RelSeqs
  <2> QED
    BY <2>1, <2>2 DEF ReadRelations, PopTag, RelSeqs
<1> QED
  BY <1>1, <1>2, <1>3 DEF ReadMeta, MetaType

\* An object that was read is as good as a new one.
LEMMA ReadKeeps == ASSUME RTInv, Reads PROVE RTInv'
<1>1. IsPackage(image) /\ IsHeader(H)
  BY DEF RTInv, Reads, IsPackage, PackageHeader, H
<1>2. pc' = "idle" /\ writes' = 0 /\ rows' = << >> /\ UNCHANGED <<todo, out, image>>
  BY DEF Reads, ReadPackage, ReadRows
<1>3. todo' = {} /\ 0 \in 0 .. MaxWrites
  BY <1>2, CallsAssumption DEF RTInv, ObjectOK, Reads
<1>4. cpio' = [entries |-> << >>, closed |-> FALSE] /\ closed' = FALSE
  BY DEF Reads, ReadPackage
<1>5. cpio' \in [entries : Seq(EntryType), closed : BOOLEAN] /\ cpio.entries' = << >> /\ ~cpio.closed'
  BY <1>4
<1>6. DOMAIN files' \subseteq Names /\ files' \in [DOMAIN files' -> FileType]
  BY <1>1, FilesRead DEF Reads, ReadPackage
<1>7. scripts' \in [DOMAIN ProgTag -> Nat]
  <2>1. PopTag("pretrans", 0) \in Nat
    BY <1>1 DEF IsHeader, PopTag
  <2> QED
    BY <2>1 DEF Reads, ReadPackage, ReadScripts
<1>8. di.l' \in Seq(STRING) /\ MapLeads(di)' /\ di' = [l |-> di.l', m |-> di.m']
  <2>1. di' = [l |-> PopTag("dirnames", << >>), m |-> EmptyMap]
    BY DEF Reads, ReadPackage
  <2>2. PopTag("dirnames", << >>) \in Seq(STRING)
    <3>1. "dirnames" \in DOMAIN H => H["dirnames"] \in Seq(STRING)
      BY <1>1 DEF IsHeader, IsIndex, FileTags
    <3>2. << >> \in Seq(STRING)
      OBVIOUS
    <3> QED
      BY <3>1, <3>2, Zenon DEF PopTag
  <2>3. di.m' = EmptyMap /\ di.l' = PopTag("dirnames", << >>)
    BY <2>1
  <2> QED
    BY <2>1, <2>2, <2>3 DEF MapLeads, EmptyMap
<1>9. payloadSize' \in Nat
  <2>1. PopTag("size", 0) \in Nat
    BY <1>1 DEF IsHeader, PopTag, NumberTags
  <2> QED
    BY <2>1 DEF Reads, ReadPackage
<1>10. rows' \in Seq(RowType) /\ Len(rows') = 0
  BY <1>2
<1>11. ObjectOK'
  BY <1>2, <1>3, <1>5, <1>6, <1>7, <1>8, <1>9, <1>10 DEF ObjectOK
<1>12. Called' /\ RowsInv' /\ OrderInv' /\ ListedInv'
  BY <1>2, <1>5, <1>10 DEF Called, RowsInv, RowsName, IndexCoversPackage, OrderInv, IndexSorted,
     ListedInv, SectionSteps
<1>14. ClosedInv'
  BY <1>2, <1>4 DEF ClosedInv, SectionSteps
<1>15. OutShort' /\ BuildInv'
  <2>1. OutShort'
    BY <1>2, StepsDiffer DEF RTInv, OutShort, Reads
  <2> QED
    BY <1>2, <2>1 DEF BuildInv
<1>16. meta' \in MetaType
  BY <1>1, MetaRead DEF Reads, ReadPackage
<1>17. TagsOK'
  <2>1. customTags' = Restrict(H, DOMAIN H \ PoppedTags)
    BY DEF Reads, ReadPackage
  <2> QED
    BY <2>1 DEF TagsOK, OwnTag, Restrict
<1>18. (out' = Steps => IsPackage(image')) /\ reads' \in Nat
  BY <1>1, <1>2 DEF RTInv, Reads
<1> QED
  BY <1>11, <1>12, <1>14, <1>15, <1>16, <1>17, <1>18 DEF RTInv

\* A call that does not give an object changes nothing but where the caller is.
LEMMA NotReadKeeps == ASSUME RTInv, NotRead PROVE RTInv'
<1>1. /\ pc = "idle" /\ pc' \in {"idle", "panic"} /\ todo = {}
      /\ UNCHANGED <<meta, files, scripts, customTags, di, rows, cpio, payloadSize, closed, todo, out,
                     image, writes>>
  BY DEF NotRead, RTInv, ObjectOK, apiVars, payloadVars
<1>2. ObjectOK'
  BY <1>1 DEF RTInv, ObjectOK
<1>3. RowsInv' /\ Called'
  BY <1>1, StillCovers DEF RTInv, Called, SectionSteps
<1>4. OrderInv'
  BY <1>1 DEF RTInv, OrderInv, IndexSorted, IsRowOf
<1>6. ClosedInv' /\ ListedInv'
  BY <1>1 DEF RTInv, ClosedInv, ListedInv, SectionSteps
<1>7. OutShort' /\ BuildInv'
  <2>1. OutShort'
    BY <1>1, StepsDiffer DEF RTInv, OutShort, NotRead
  <2> QED
    BY <1>1, <2>1 DEF BuildInv
<1>8. reads' \in Nat
  BY DEF RTInv, NotRead
<1> QED
  BY <1>1, <1>2, <1>3, <1>4, <1>6, <1>7, <1>8 DEF RTInv, TagsOK

\* Nor do the steps of RPM break it.
LEMMA NextKeeps ==
  ASSUME OwnTags, RTInv, [Next]_vars, UNCHANGED readVars
  PROVE  RTInv'
<1>1. ObjectOK'
  BY NextObject DEF RTInv
<1>2. Called' /\ RowsInv' /\ OrderInv' /\ ClosedInv' /\ ListedInv'
  BY <1>1, NextCalled, NextRows, NextOrder, NextClosed, NextListed DEF RTInv
<1>3. OutShort' /\ BuildInv'
  BY NextOutShort, NextBuild DEF RTInv
<1>4. meta' \in MetaType /\ TagsOK'
  BY NextKept DEF RTInv
<1>5. ASSUME out' = Steps PROVE IsPackage(image')
  <2>1. CASE Completes
    BY <2>1, PackageNow DEF RTInv
  <2>2. ASSUME Call \/ UNCHANGED vars PROVE UNCHANGED <<out, image>>
    BY <2>2, CallLeaves DEF vars, writeVars
  <2> QED
    BY <1>5, <2>1, <2>2, WhatCompletes DEF RTInv
<1> QED
  BY <1>1, <1>2, <1>3, <1>4, <1>5 DEF RTInv, readVars

\* The invariant holds from the start.
LEMMA InitRT == ASSUME RTInit PROVE RTInv
<1>1. Init
  BY DEF RTInit
<1>2. ObjectOK /\ meta \in MetaType
  BY <1>1, InitPath, InitSet DEF PathOK, SetInv
<1>3. /\ rows = << >> /\ cpio.entries = << >> /\ ~cpio.closed /\ writes = 0 /\ pc = "idle"
      /\ out = << >> /\ closed = FALSE /\ customTags = EmptyMap /\ res = "none"
  BY <1>1 DEF Init, NewRPM
<1>4. Len(rows) = 0 /\ Len(cpio.entries) = 0
  BY <1>3
<1>5. Called /\ RowsInv /\ OrderInv /\ ListedInv /\ ClosedInv
  BY <1>3, <1>4 DEF Called, RowsInv, RowsName, IndexCoversPackage, OrderInv, IndexSorted,
     ListedInv, ClosedInv, SectionSteps
<1>7. OutShort /\ BuildInv
  <2>1. OutShort
    BY <1>3, StepsDiffer DEF OutShort
  <2> QED
    BY <1>3, <2>1 DEF BuildInv
<1>8. TagsOK /\ out # Steps
  BY <1>3, StepsDiffer DEF TagsOK, EmptyMap
<1> QED
  BY <1>2, <1>5, <1>7, <1>8 DEF RTInv, RTInit

\* It holds in every reachable state.
THEOREM RoundTripInv == ASSUME OwnTags PROVE RTSpec => []RTInv
<1>1. RTInv /\ [RTNext]_allVars => RTInv'
  BY StepCases, ReadKeeps, NotReadKeeps, NextKeeps
<1>2. RTInit => RTInv
  BY InitRT
<1> QED
  BY <1>1, <1>2, PTL DEF RTSpec

\* Every file that a Write has passed has its row, of a package that was read too.
THEOREM IndexCoversRead == ASSUME OwnTags PROVE RTSpec => []IndexCoversPackage
BY RoundTripInv, PTL DEF RTInv, RowsInv

\* The signatures that w took are made with the object's custom ones.
SigInv ==
  /\ customSigs = [t \in DOMAIN customSigs |-> customSigs[t]]
  /\ pc \in {"pad", "header", "payload"} => SigsBuilt

\* It stays so when nothing they are made of changes.
LEMMA SigStays ==
  ASSUME UNCHANGED <<apiVars, payloadVars, hdr>>,
         image' = image \/ \E k \in {"pad", "header"} : \E c : image' = Put(image, k, c)
  PROVE  SigsBuilt => SigsBuilt'
<1>1. Signatures(hdr)' = Signatures(hdr) /\ customSigs' = customSigs
  BY HeaderSame DEF Signatures, apiVars, payloadVars
<1>2. "sig" \in DOMAIN image => "sig" \in DOMAIN image' /\ image'["sig"] = image["sig"]
  BY DEF Put
<1> QED
  BY <1>1, <1>2 DEF SigsBuilt

\* The steps of RPM keep it.
LEMMA NextSig == SigInv /\ [Next]_vars => SigInv'
<1> SUFFICES ASSUME SigInv, [Next]_vars PROVE SigInv'
  OBVIOUS
<1>1. ASSUME pc' \notin {"pad", "header", "payload"}, UNCHANGED apiVars PROVE SigInv'
  BY <1>1 DEF SigInv, apiVars
<1>2. CASE Call
  <2>1. customSigs' = [t \in DOMAIN customSigs' |-> customSigs'[t]]
    BY <1>2, CallContent DEF SigInv, Put
  <2> QED
    BY <1>2, <2>1, CallContent DEF SigInv
<1>3. CASE WriteStart \/ (\E n \in Names : WriteFile(n)) \/ ClosePayload \/ WriteLead
  BY <1>1, <1>3 DEF WriteStart, WriteFile, ClosePayload, WriteLead, Take, Refuse, Return, Goto
<1>4. CASE WriteSignatures
  <2> DEFINE h == [h |-> "immutable", entries |-> HeaderEntries]
             s == [h |-> "signatures", entries |-> AddEntries(Signatures(h), customSigs)]
  <2>1. UNCHANGED <<apiVars, payloadVars>>
    BY <1>4 DEF WriteSignatures
  <2>2. CASE Take("sig", s, "pad") /\ hdr' = h
    <3>1. image'["sig"] = s /\ "sig" \in DOMAIN image'
      BY <2>2 DEF Take, Put
    <3>2. Signatures(hdr)' = Signatures(h) /\ customSigs' = customSigs
      BY <2>1, <2>2, HeaderSame DEF Signatures, apiVars, payloadVars
    <3> QED
      BY <3>1, <3>2 DEF SigsBuilt, SigInv
  <2> QED
    BY <1>1, <1>4, <2>1, <2>2 DEF WriteSignatures, Refuse, Return
<1>5. CASE WritePad \/ WriteHeader
  <2>1. /\ pc \in {"pad", "header"} /\ UNCHANGED <<apiVars, payloadVars>>
        /\ pc' \in {"header", "payload"} =>
             hdr' = hdr /\ \E k \in {"pad", "header"} : \E c : image' = Put(image, k, c)
    BY <1>5 DEF WritePad, WriteHeader, Take, Refuse, Return, Goto
  <2>2. pc' \in {"idle", "header", "payload"}
    BY <1>5 DEF WritePad, WriteHeader, Take, Refuse, Return, Goto
  <2>3. ASSUME pc' \in {"header", "payload"} PROVE SigsBuilt'
    BY <2>1, <2>3, SigStays DEF SigInv
  <2> QED
    BY <1>1, <2>1, <2>2, <2>3 DEF SigInv, apiVars
<1>6. CASE WritePayload
  BY <1>1, <1>6 DEF WritePayload, Refuse, Return
<1>7. CASE UNCHANGED vars
  BY <1>7, SigStays DEF vars, writeVars, apiVars, SigInv
<1> QED
  BY <1>2, <1>3, <1>4, <1>5, <1>6, <1>7 DEF Next, WriteStep

\* What was set with AddCustomTag and AddCustomSig, and what ReadRPMFile left as custom
\* tags, is in the output with its value, written again any number of times.
THEOREM CustomRead == ASSUME OwnTags PROVE RTSpec => []CustomWins
<1>1. RTInit => SigInv
  BY DEF RTInit, Init, NewRPM, SigInv, EmptyMap
<1>2. SigInv /\ [RTNext]_allVars => SigInv'
  <2> SUFFICES ASSUME SigInv, [RTNext]_allVars PROVE SigInv'
    OBVIOUS
  <2>1. CASE Reads
    BY <2>1 DEF Reads, ReadPackage, SigInv, EmptyMap
  <2>2. CASE NotRead
    BY <2>2 DEF NotRead, SigInv, apiVars
  <2> QED
    BY <2>1, <2>2, StepCases, NextSig
<1>3. RTInv /\ SigInv => CustomWins
  <2> SUFFICES ASSUME RTInv, SigInv PROVE CustomWins
    OBVIOUS
  <2>1. ASSUME pc = "payload"
        PROVE  Restrict(image["header"].entries, DOMAIN customTags) = customTags
    <3>1. image["header"].entries = HeaderEntries
      BY <2>1 DEF RTInv, BuildInv, HeaderBuilt
    <3>2. \A t \in DOMAIN customTags : HeaderEntries[t] = customTags[t]
      BY DEF HeaderEntries, AddEntries
    <3> QED
      BY <3>1, <3>2 DEF RTInv, TagsOK, Restrict
  <2>2. ASSUME pc \in {"pad", "header", "payload"}
        PROVE  Restrict(image["sig"].entries, DOMAIN customSigs) = customSigs
    <3>1. image["sig"].entries = AddEntries(Signatures(hdr), customSigs)
      BY <2>2 DEF SigInv, SigsBuilt
    <3>2. \A t \in DOMAIN customSigs :
            AddEntries(Signatures(hdr), customSigs)[t] = customSigs[t]
      BY DEF AddEntries
    <3> QED
      BY <3>1, <3>2 DEF SigInv, Restrict
  <2> QED
    BY <2>1, <2>2 DEF CustomWins
<1> QED
  BY <1>1, <1>2, <1>3, RoundTripInv, PTL DEF RTSpec

-----------------------------------------------------------------------------
(* The output of a first Write, read.                                       *)

\* The rows of a header that are no ghosts', and the path of a name.
PlainRows(h) ==
  IF "basenames" \in DOMAIN h
  THEN {i \in DOMAIN h["basenames"] : h["fileflags"][i] # {"ghost"}}
  ELSE {}
PathOf(n) == <<SplitDir[n], SplitBase[n]>>

\* The entries of the payload are those rows' files, with the times and the sizes
\* that the rows have, and there is a row for each.
Restored(h, e) ==
  /\ {HeaderPaths(h)[i] : i \in PlainRows(h)} = {PathOf(e[k].name) : k \in DOMAIN e}
  /\ \A i \in PlainRows(h), k \in DOMAIN e :
       HeaderPaths(h)[i] = PathOf(e[k].name) =>
         /\ e[k].time = h["filemtimes"][i]
         /\ "dir" \notin h["filemodes"][i] => e[k].body % Words = h["filesizes"][i]
  /\ IF "filemodes" \in DOMAIN h THEN Len(e) <= Len(h["filemodes"]) ELSE Len(e) = 0

\* What a first Write puts out is.
FirstInv == writes = 1 /\ out = Steps => Restored(PackageHeader(image), PackageEntries(image))

\* The file index of a header, row by row.
LEMMA HeaderRows ==
  ASSUME ObjectOK, TagsOK, DOMAIN files # {}
  PROVE  LET h == HeaderEntries
         IN  /\ FileTags \subseteq DOMAIN h
             /\ \A a \in FileArrays : h[a] = [i \in 1 .. Len(rows) |-> rows[i][a]]
             /\ DOMAIN HeaderPaths(h) = 1 .. Len(rows)
             /\ \A i \in 1 .. Len(rows), n \in Names :
                  IsRowOf(i, n) => HeaderPaths(h)[i] = PathOf(n)
<1> DEFINE h == HeaderEntries
<1>1. DOMAIN rows = 1 .. Len(rows)
  BY DEF ObjectOK
<1>2. /\ FileTags \subseteq DOMAIN h /\ h["dirnames"] = di.l
      /\ \A a \in FileArrays : h[a] = [i \in 1 .. Len(rows) |-> rows[i][a]]
  BY <1>1, HeaderFiles
<1> HIDE DEF h
<1>3. /\ h["basenames"] = [i \in 1 .. Len(rows) |-> rows[i].basenames]
      /\ h["dirindexes"] = [i \in 1 .. Len(rows) |-> rows[i].dirindexes]
  BY <1>2 DEF FileArrays
<1>4. HeaderPaths(h) = [i \in 1 .. Len(rows) |-> <<di.l[rows[i].dirindexes + 1], rows[i].basenames>>]
  BY <1>2, <1>3 DEF HeaderPaths
<1>5. ASSUME NEW i \in 1 .. Len(rows), NEW n \in Names, IsRowOf(i, n)
      PROVE  HeaderPaths(h)[i] = PathOf(n)
  <2>1. di.l[rows[i].dirindexes + 1] = SplitDir[n] /\ rows[i].basenames = SplitBase[n]
    BY <1>5 DEF IsRowOf
  <2> QED
    BY <1>4, <2>1 DEF PathOf
<1>6. DOMAIN HeaderPaths(h) = 1 .. Len(rows)
  BY <1>4
<1> QED
  BY <1>2, <1>5, <1>6 DEF h

\* The sections of a first Write hold all the files of the package.
LEMMA AllListed ==
  ASSUME ListedInv, ObjectOK, writes = 1, pc \in SectionSteps
  PROVE  Passed = DOMAIN files /\ \E ns, ps : Listed(ns, ps)
BY DEF ListedInv, ObjectOK, SectionSteps, Passed

\* A listing, element by element.
LEMMA ListingHas ==
  ASSUME NEW s, NEW S, NEW R, IsListing(s, S, R)
  PROVE  /\ Len(s) \in Nat /\ DOMAIN s = 1 .. Len(s)
         /\ \A i \in 1 .. Len(s) : s[i] \in S
         /\ \A x \in S : \E i \in 1 .. Len(s) : s[i] = x
         /\ \A i, j \in 1 .. Len(s) : i < j => <<s[i], s[j]>> \in R
<1>1. s \in Seq(S) /\ Lists(s, S, R)
  BY DEF IsListing
<1>2. Len(s) \in Nat /\ DOMAIN s = 1 .. Len(s) /\ \A i \in 1 .. Len(s) : s[i] \in S
  BY <1>1
<1> QED
  BY <1>1, <1>2 DEF Lists

\* A part of a set has no longer a listing.
LEMMA FewerListed ==
  ASSUME NEW S, S \subseteq Nat, NEW T, T \subseteq S,
         NEW s, IsListing(s, S, Before(S)), NEW t, IsListing(t, T, Before(T))
  PROVE  Len(t) <= Len(s)
<1>1. Strict(Before(S)) /\ Strict(Before(T))
  BY OrdersStrict
<1>2. Cardinality(S) = Len(s) /\ Cardinality(T) = Len(t)
  BY <1>1, ListingIs
<1>3. IsFiniteSet(S)
  <2>1. s \in Seq(S) /\ \A x \in S : \E i \in 1 .. Len(s) : s[i] = x
    BY ListingHas DEF IsListing
  <2> QED
    BY <2>1 DEF IsFiniteSet
<1> QED
  BY <1>2, <1>3, FS_Subset

\* When it is complete, header and payload tell of the same files.
LEMMA FirstRestored ==
  ASSUME RTInv, Completes, writes = 1
  PROVE  Restored(PackageHeader(image'), PackageEntries(image'))
<1> DEFINE h == HeaderEntries
           e == cpio.entries
<1>1. PackageHeader(image') = h /\ PackageEntries(image') = e
  BY PackageNow DEF RTInv
<1>2. PICK ns, ps : Listed(ns, ps)
  BY AllListed DEF RTInv, Completes, SectionSteps
<1>3. /\ IsListing(ns, DOMAIN files, Before(DOMAIN files))
      /\ IsListing(ps, WithPayload(DOMAIN files), Before(WithPayload(DOMAIN files)))
      /\ Len(rows) = Len(ns) /\ Len(e) = Len(ps)
      /\ \A k \in 1 .. Len(ps) : e[k] = EntryFor(ps[k])
      /\ \A i \in 1 .. Len(ns) : IsRowOf(i, ns[i])
  BY <1>2, AllListed DEF Listed, RTInv, Completes, SectionSteps
<1>4. \A i \in 1 .. Len(ns) : /\ rows[i].fileflags = files[ns[i]].type
                              /\ rows[i].filemodes = EntryMode(files[ns[i]])
                              /\ rows[i].filemtimes = files[ns[i]].time
                              /\ ~IsDir(files[ns[i]]) =>
                                   rows[i].filesizes = files[ns[i]].body % Words
  <2>1. \A i \in 1 .. Len(ns) : \A a \in FileArrays \ {"dirindexes"} :
          rows[i][a] = Row(NewDirIndex, ns[i], files[ns[i]])[a]
    BY <1>2 DEF Listed
  <2>2. {"fileflags", "filemodes", "filemtimes", "filesizes"} \subseteq FileArrays \ {"dirindexes"}
    BY DEF FileArrays
  <2>3. ASSUME NEW n, NEW f
        PROVE  /\ Row(NewDirIndex, n, f)["fileflags"] = f.type
               /\ Row(NewDirIndex, n, f)["filemodes"] = EntryMode(f)
               /\ Row(NewDirIndex, n, f)["filemtimes"] = f.time
               /\ ~IsDir(f) => Row(NewDirIndex, n, f)["filesizes"] = f.body % Words
    BY DEF Row
  <2> QED
    BY <2>1, <2>2, <2>3
<1>5. /\ Len(ns) \in Nat /\ Len(ps) \in Nat /\ DOMAIN e = 1 .. Len(ps)
      /\ \A i \in 1 .. Len(ns) : ns[i] \in DOMAIN files /\ ns[i] \in Names
      /\ \A n \in DOMAIN files : \E i \in 1 .. Len(ns) : ns[i] = n
      /\ \A k \in 1 .. Len(ps) : ps[k] \in DOMAIN files /\ ps[k] \in Names
                                 /\ files[ps[k]].type # {"ghost"}
      /\ \A n \in DOMAIN files : files[n].type # {"ghost"} => \E k \in 1 .. Len(ps) : ps[k] = n
  <2>1. DOMAIN e = 1 .. Len(e) /\ DOMAIN files \subseteq Names
    BY DEF RTInv, ObjectOK
  <2>2. /\ Len(ns) \in Nat /\ \A i \in 1 .. Len(ns) : ns[i] \in DOMAIN files
        /\ \A n \in DOMAIN files : \E i \in 1 .. Len(ns) : ns[i] = n
    BY <1>3, ListingHas
  <2>3. /\ Len(ps) \in Nat /\ \A k \in 1 .. Len(ps) : ps[k] \in WithPayload(DOMAIN files)
        /\ \A n \in WithPayload(DOMAIN files) : \E k \in 1 .. Len(ps) : ps[k] = n
    BY <1>3, ListingHas
  <2> QED
    BY <1>3, <2>1, <2>2, <2>3 DEF WithPayload
<1>6. \A k \in 1 .. Len(ps) : /\ e[k].name = ps[k] /\ e[k].time = files[ps[k]].time
                              /\ e[k].body = files[ps[k]].body
  <2>1. \A k \in 1 .. Len(ps) : e[k] = EntryFor(ps[k])
    BY <1>3
  <2>2. \A n : /\ EntryFor(n).name = n /\ EntryFor(n).time = files[n].time
               /\ EntryFor(n).body = files[n].body
    BY DEF EntryFor, CpioEntry
  <2> QED
    BY <2>1, <2>2
<1>7. CASE DOMAIN files = {}
  <2>1. Len(ps) = 0 /\ DOMAIN e = {} /\ Len(e) = 0
    <3>1. Len(ps) \in Nat /\ \A k \in 1 .. Len(ps) : FALSE
      BY <1>5, <1>7
    <3>2. Len(ps) = 0
      BY <3>1
    <3>3. DOMAIN e = 1 .. Len(ps) /\ Len(e) = Len(ps)
      BY <1>3, <1>5
    <3> QED
      BY <3>2, <3>3
  <2>2. "basenames" \notin DOMAIN h /\ "filemodes" \notin DOMAIN h
    BY <1>7, HeaderFiles DEF FileTags, FileArrays, RTInv
  <2> HIDE DEF h, e
  <2>3. PlainRows(h) = {}
    BY <2>2 DEF PlainRows
  <2> QED
    BY <1>1, <2>1, <2>2, <2>3 DEF Restored
<1>8. CASE DOMAIN files # {}
  <2>1. /\ FileTags \subseteq DOMAIN h
        /\ \A a \in FileArrays : h[a] = [i \in 1 .. Len(ns) |-> rows[i][a]]
        /\ \A i \in 1 .. Len(ns) : HeaderPaths(h)[i] = PathOf(ns[i])
    <3>1. ObjectOK /\ TagsOK
      BY DEF RTInv
    <3>2. /\ FileTags \subseteq DOMAIN h
          /\ \A a \in FileArrays : h[a] = [i \in 1 .. Len(rows) |-> rows[i][a]]
          /\ \A i \in 1 .. Len(rows), n \in Names : IsRowOf(i, n) => HeaderPaths(h)[i] = PathOf(n)
      BY <1>8, <3>1, HeaderRows
    <3>3. /\ Len(rows) = Len(ns)
          /\ \A i \in 1 .. Len(ns) : ns[i] \in Names /\ IsRowOf(i, ns[i])
      BY <1>3, <1>5
    <3> HIDE DEF h
    <3> QED
      BY <3>2, <3>3
  <2> HIDE DEF h, e
  <2>2. /\ "basenames" \in DOMAIN h /\ "filemodes" \in DOMAIN h
        /\ h["basenames"] = [i \in 1 .. Len(ns) |-> rows[i]["basenames"]]
        /\ h["fileflags"] = [i \in 1 .. Len(ns) |-> rows[i]["fileflags"]]
        /\ h["filemodes"] = [i \in 1 .. Len(ns) |-> rows[i]["filemodes"]]
        /\ h["filemtimes"] = [i \in 1 .. Len(ns) |-> rows[i]["filemtimes"]]
        /\ h["filesizes"] = [i \in 1 .. Len(ns) |-> rows[i]["filesizes"]]
    BY <2>1 DEF FileTags, FileArrays
  <2>3. PlainRows(h) = {i \in 1 .. Len(ns) : files[ns[i]].type # {"ghost"}}
    BY <1>4, <2>2 DEF PlainRows
  <2>4. {HeaderPaths(h)[i] : i \in PlainRows(h)} = {PathOf(e[k].name) : k \in DOMAIN e}
    <3>1. ASSUME NEW i \in PlainRows(h)
          PROVE  \E k \in DOMAIN e : HeaderPaths(h)[i] = PathOf(e[k].name)
      <4>1. i \in 1 .. Len(ns) /\ files[ns[i]].type # {"ghost"}
        BY <2>3
      <4>2. PICK k \in 1 .. Len(ps) : ps[k] = ns[i]
        BY <1>5, <4>1
      <4>3. k \in DOMAIN e /\ e[k].name = ns[i]
        BY <1>5, <1>6, <4>2
      <4> QED
        BY <2>1, <4>1, <4>3
    <3>2. ASSUME NEW k \in DOMAIN e
          PROVE  \E i \in PlainRows(h) : HeaderPaths(h)[i] = PathOf(e[k].name)
      <4>1. PICK i \in 1 .. Len(ns) : ns[i] = ps[k]
        BY <1>5
      <4>2. i \in PlainRows(h)
        <5>1. k \in 1 .. Len(ps) /\ files[ps[k]].type # {"ghost"}
          BY <1>5
        <5>2. files[ns[i]].type # {"ghost"}
          BY ONLY <4>1, <5>1
        <5> QED
          BY ONLY <2>3, <4>1, <5>2
      <4>3. e[k].name = ns[i]
        BY <1>5, <1>6, <4>1
      <4> QED
        BY <2>1, <4>1, <4>2, <4>3
    <3> QED
      BY <3>1, <3>2
  <2>5. ASSUME NEW i \in PlainRows(h), NEW k \in DOMAIN e,
               HeaderPaths(h)[i] = PathOf(e[k].name)
        PROVE  /\ e[k].time = h["filemtimes"][i]
               /\ "dir" \notin h["filemodes"][i] => e[k].body % Words = h["filesizes"][i]
    <3>1. i \in 1 .. Len(ns) /\ k \in 1 .. Len(ps)
      BY <1>5, <2>3
    <3>2. ns[i] = ps[k]
      <4>1. PathOf(ns[i]) = PathOf(ps[k])
        BY <1>6, <2>1, <2>5, <3>1
      <4>2. SplitDir[ns[i]] = SplitDir[ps[k]] /\ SplitBase[ns[i]] = SplitBase[ps[k]]
        BY <4>1 DEF PathOf
      <4> QED
        BY <1>5, <3>1, <4>2, NamesAssumption
    <3>3. "dir" \notin h["filemodes"][i] => ~IsDir(files[ns[i]])
      BY <1>4, <2>2, <3>1 DEF IsDir, EntryMode, IsRegular
    <3> QED
      BY <1>4, <1>6, <2>2, <3>1, <3>2, <3>3
  <2>6. Len(e) <= Len(h["filemodes"])
    <3>1. Len(ps) <= Len(ns)
      <4>1. DOMAIN files \subseteq Nat /\ WithPayload(DOMAIN files) \subseteq DOMAIN files
        BY NamesAssumption DEF WithPayload, RTInv, ObjectOK
      <4> QED
        BY <1>3, <4>1, FewerListed
    <3>3. Len(h["filemodes"]) = Len(ns)
      BY <1>5, <2>2
    <3> QED
      BY <1>3, <3>1, <3>3
  <2> QED
    <3>1. Restored(h, e)
      BY <2>2, <2>4, <2>5, <2>6, Zenon DEF Restored
    <3> QED
      BY <1>1, <3>1
<1> QED
  BY <1>7, <1>8

\* So it stays until there is another Write.
LEMMA FirstKept == ASSUME RTInv, FirstInv, [RTNext]_allVars PROVE FirstInv'
<1>1. SUFFICES ASSUME writes' = 1, out' = Steps
               PROVE  Restored(PackageHeader(image'), PackageEntries(image'))
  BY DEF FirstInv
<1>2. CASE UNCHANGED <<out, image, writes>>
  BY <1>1, <1>2 DEF FirstInv
<1>3. CASE Completes
  BY <1>1, <1>3, FirstRestored DEF Completes
<1>4. Reads \/ NotRead => UNCHANGED <<out, image, writes>>
  BY <1>1 DEF Reads, NotRead, ReadPackage
<1>5. ASSUME Call \/ UNCHANGED vars PROVE UNCHANGED <<out, image, writes>>
  BY <1>5, CallLeaves DEF vars, writeVars
<1> QED
  BY <1>1, <1>2, <1>3, <1>4, <1>5, StepCases, WhatCompletes DEF RTInv

\* It holds in every reachable state.
LEMMA FirstAlways == ASSUME OwnTags PROVE RTSpec => [](RTInv /\ FirstInv)
<1>1. RTInit => FirstInv
  BY DEF RTInit, Init, FirstInv
<1> QED
  BY <1>1, FirstKept, RoundTripInv, PTL DEF RTSpec

\* Reading a package that a first Write completed never runs off the end of the arrays
\* of its header (readFile), whatever was in the package.
THEOREM FirstReadable == ASSUME OwnTags PROVE RTSpec => FirstWriteReadable
<1> DEFINE A == reads' > reads /\ out = Steps /\ pc' = "panic" => writes > 1
<1>1. ASSUME RTInv, FirstInv, [RTNext]_allVars PROVE [A]_allVars
  <2>1. SUFFICES ASSUME reads' > reads, out = Steps, pc' = "panic" PROVE writes > 1
    OBVIOUS
  <2>2. ~ UNCHANGED readVars
    BY <1>1, <2>1 DEF readVars, RTInv
  <2>3. ~ Reads
    BY <2>1 DEF Reads, ReadPackage
  <2>4. writes > 0 /\ ~ArraysCover
    BY <1>1, <2>1, <2>2, <2>3, StepCases DEF NotRead
  <2>5. writes = 1 => ArraysCover
    <3>1. SUFFICES ASSUME Restored(H, PayloadEntries) PROVE ArraysCover
      BY <1>1, <2>1 DEF FirstInv, H, PayloadEntries, PackageHeader, PackageEntries
    <3>2. IF "filemodes" \in DOMAIN H THEN Len(PayloadEntries) <= Len(H["filemodes"])
                                      ELSE Len(PayloadEntries) = 0
      BY <3>1 DEF Restored
    <3> QED
      BY <3>2 DEF ArraysCover, PopTag
  <2> QED
    BY <1>1, <2>4, <2>5, CallsAssumption DEF RTInv, ObjectOK
<1>2. RTSpec => [][A]_allVars
  BY <1>1, FirstAlways, PTL DEF RTSpec
<1> QED
  BY <1>2 DEF FirstWriteReadable

\* Where reading succeeds, it is with the whole output, as which the object is kept.
LEMMA WhatReads ==
  ASSUME [RTNext]_allVars, HasRead
  PROVE  /\ Reads /\ source' = image
         /\ out = Steps /\ ArraysCover
         /\ meta' = ReadMeta /\ changelog' = ReadChangelog /\ files' = ReadFiles
<1>1. Reads
  BY StepCases DEF HasRead, readVars, NotRead
<1> QED
  BY <1>1 DEF Reads, ReadPackage

\* The names and the bodies of the files read are those in the payload.
LEMMA NamesRead ==
  /\ DOMAIN ReadFiles = {PayloadEntries[k].name : k \in DOMAIN PayloadEntries}
  /\ \A n \in DOMAIN ReadFiles :
       \E k \in DOMAIN PayloadEntries :
         PayloadEntries[k].name = n /\ ReadFiles[n] = ReadFile(k)
<1>1. DOMAIN ReadFiles = {PayloadEntries[k].name : k \in DOMAIN PayloadEntries}
  BY DEF ReadFiles
<1>2. ASSUME NEW n \in DOMAIN ReadFiles
      PROVE  \E k \in DOMAIN PayloadEntries :
               PayloadEntries[k].name = n /\ ReadFiles[n] = ReadFile(k)
  <2> DEFINE j == CHOOSE k \in DOMAIN PayloadEntries : PayloadEntries[k].name = n
  <2>1. ReadFiles[n] = ReadFile(j)
    BY DEF ReadFiles
  <2>2. j \in DOMAIN PayloadEntries /\ PayloadEntries[j].name = n
    BY <1>1
  <2> QED
    BY <2>1, <2>2
<1> QED
  BY <1>1, <1>2

\* A step adds a file of the caller's, drops some, or leaves them.
LEMMA NextFiles ==
  ASSUME [Next]_vars, NEW n \in DOMAIN files'
  PROVE  files'[n] \in Files \/ (n \in DOMAIN files /\ files'[n] = files[n])
<1>1. \/ files' = files
      \/ \E m, f : f \in Files /\ files' = Put(files, m, f)
      \/ \E T : T \subseteq DOMAIN files /\ files' = Restrict(files, T)
  <2>1. CASE Call
    <3>1. \/ files' = files \/ \E m \in Names, f \in Files : AddFile(m, f)
          \/ \E allow \in AllowLists : AllowListDirs(allow)
      BY <2>1 DEF Call, AddScript, SetChangelog, AddCustomTag, AddCustomSig, SetPGPSigner,
         ClearSignatures, SetSignature, apiVars
    <3>2. ASSUME NEW allow, AllowListDirs(allow)
          PROVE  \E T : T \subseteq DOMAIN files /\ files' = Restrict(files, T)
      BY <3>2 DEF AllowListDirs
    <3> QED
      BY <3>1, <3>2 DEF AddFile
  <2>2. ~Call => files' = files
    BY DEF Next, WriteStart, WriteStep, WriteFile, ClosePayload, WriteLead, WriteSignatures,
       WritePad, WriteHeader, WritePayload, vars, apiVars
  <2> QED
    BY <2>1, <2>2
<1>2. ASSUME NEW m, NEW f, f \in Files, files' = Put(files, m, f)
      PROVE  files'[n] \in Files \/ (n \in DOMAIN files /\ files'[n] = files[n])
  BY <1>2 DEF Put
<1>3. ASSUME NEW T, T \subseteq DOMAIN files, files' = Restrict(files, T)
      PROVE  n \in DOMAIN files /\ files'[n] = files[n]
  BY <1>3 DEF Restrict
<1> QED
  BY <1>1, <1>2, <1>3

\* The ghost flag stands alone.
Alone(type) == "ghost" \in type => type = {"ghost"}

\* It does in the files of the package, in the rows and in the header.
AloneInv ==
  /\ FilesAlone
  /\ \A i \in 1 .. Len(rows) : Alone(rows[i].fileflags)
  /\ out = Steps /\ "fileflags" \in DOMAIN PackageHeader(image) =>
       \A i \in DOMAIN PackageHeader(image)["fileflags"] :
         Alone(PackageHeader(image)["fileflags"][i])

\* The rows that a step adds are of files of the package.
LEMMA NextAlone ==
  ASSUME ObjectOK, FilesAlone, \A i \in 1 .. Len(rows) : Alone(rows[i].fileflags), [Next]_vars
  PROVE  \A i \in 1 .. Len(rows') : Alone(rows'[i].fileflags)
<1>1. ASSUME NEW n \in Names, WriteFile(n)
      PROVE  \A i \in 1 .. Len(rows') : Alone(rows'[i].fileflags)
  <2>1. n \in DOMAIN files /\ rows' = Append(rows, Row(di, n, files[n]))
    BY <1>1 DEF WriteFile, IsNext, ObjectOK
  <2>2. Row(di, n, files[n]).fileflags = files[n].type
    BY DEF Row
  <2>3. Alone(Row(di, n, files[n]).fileflags)
    BY <2>1, <2>2 DEF FilesAlone, Alone
  <2>4. /\ Len(rows') = Len(rows) + 1 /\ Len(rows) \in Nat
        /\ rows'[Len(rows) + 1] = Row(di, n, files[n])
        /\ \A i \in 1 .. Len(rows) : rows'[i] = rows[i]
    BY <2>1 DEF ObjectOK
  <2> QED
    BY <2>3, <2>4
<1>2. ASSUME \A n \in Names : ~WriteFile(n) PROVE UNCHANGED rows
  BY <1>2, CallLeaves DEF Next, WriteStart, WriteStep, ClosePayload, WriteLead, WriteSignatures,
     WritePad, WriteHeader, WritePayload, vars, payloadVars
<1> QED
  BY <1>1, <1>2

\* No step, of Write's or of reading, brings another flag beside it.
LEMMA AloneKept == ASSUME GhostsAlone, RTInv, AloneInv, [RTNext]_allVars PROVE AloneInv'
<1>1. FilesAlone'
  <2>1. SUFFICES ASSUME NEW n \in DOMAIN files' PROVE Alone(files'[n].type)
    BY DEF FilesAlone, Alone
  <2>2. CASE [Next]_vars
    BY <2>2, NextFiles DEF GhostsAlone, AloneInv, FilesAlone, Alone
  <2>3. CASE NotRead
    BY <2>3 DEF NotRead, apiVars, AloneInv, FilesAlone, Alone
  <2>4. CASE Reads
    <3>1. files' = ReadFiles
      BY <2>4 DEF Reads, ReadPackage
    <3>2. PICK k \in DOMAIN PayloadEntries : files'[n] = ReadFile(k)
      BY <3>1, NamesRead
    <3>3. IsIndex(H) /\ k \in DOMAIN H["fileflags"]
      BY <2>4, <3>2, IndexRead DEF RTInv, Reads
    <3>4. "fileflags" \in DOMAIN H
      BY <3>3 DEF IsIndex, FileTags, FileArrays
    <3>5. Alone(H["fileflags"][k])
      BY <2>4, <3>3, <3>4 DEF AloneInv, Reads, H, PackageHeader
    <3> QED
      BY <3>2, <3>5 DEF ReadFile
  <2> QED
    BY <2>2, <2>3, <2>4, StepCases
<1>2. \A i \in 1 .. Len(rows') : Alone(rows'[i].fileflags)
  <2>1. CASE [Next]_vars
    BY <2>1, NextAlone DEF RTInv, AloneInv
  <2>2. CASE NotRead
    BY <2>2 DEF NotRead, payloadVars, AloneInv
  <2>3. CASE Reads
    <3>1. Len(rows') = 0
      BY <2>3 DEF Reads, ReadPackage, ReadRows
    <3> QED
      BY <3>1
  <2> QED
    BY <2>1, <2>2, <2>3, StepCases
<1>3. ASSUME out' = Steps, "fileflags" \in DOMAIN PackageHeader(image'),
             NEW i \in DOMAIN PackageHeader(image')["fileflags"]
      PROVE  Alone(PackageHeader(image')["fileflags"][i])
  <2>1. CASE Completes
    <3>1. PackageHeader(image') = HeaderEntries
      BY <2>1, PackageNow DEF RTInv
    <3>2. "fileflags" \in FileTags /\ "fileflags" \in FileArrays
      BY DEF FileTags, FileArrays
    <3>3. HeaderEntries["fileflags"] = [k \in DOMAIN rows |-> rows[k]["fileflags"]]
      BY <1>3, <3>1, <3>2, HeaderFiles DEF RTInv
    <3>4. i \in 1 .. Len(rows) /\ PackageHeader(image')["fileflags"][i] = rows[i]["fileflags"]
      BY <1>3, <3>1, <3>3 DEF RTInv, ObjectOK
    <3> QED
      BY <3>4 DEF AloneInv
  <2>2. CASE UNCHANGED <<out, image>>
    BY <1>3, <2>2 DEF AloneInv
  <2>3. Reads \/ NotRead => UNCHANGED <<out, image>>
    BY DEF Reads, NotRead
  <2>4. ASSUME Call \/ UNCHANGED vars PROVE UNCHANGED <<out, image>>
    BY <2>4, CallLeaves DEF vars, writeVars
  <2> QED
    BY <1>3, <2>1, <2>2, <2>3, <2>4, StepCases, WhatCompletes DEF RTInv
<1> QED
  BY <1>1, <1>2, <1>3 DEF AloneInv

\* It holds in every reachable state.
LEMMA AloneAlways ==
  ASSUME OwnTags, GhostsAlone
  PROVE  RTSpec => [](RTInv /\ FirstInv /\ AloneInv)
<1>1. RTInit => AloneInv
  <2>1. SUFFICES ASSUME RTInit PROVE AloneInv
    OBVIOUS
  <2>2. files = EmptyMap /\ Len(rows) = 0 /\ out # Steps
    BY <2>1, StepsDiffer DEF RTInit, Init, NewRPM
  <2> QED
    BY <2>2 DEF AloneInv, FilesAlone, EmptyMap
<1> QED
  BY <1>1, AloneKept, FirstAlways, PTL DEF RTSpec

\* Reading the output of a first Write gives back the files that have a row and are no
\* ghosts, all of them and no others, each with the time and a body of the size in its
\* row: the number of a payload entry is used for rows (readFiles) that count ghosts
\* too, but for the modes, flags and owners alone.  A file with another flag beside the
\* ghost flag would come back as well, so the caller adds none.
THEOREM PayloadRead == ASSUME OwnTags, GhostsAlone PROVE RTSpec => ReadRestoresPayload
<1> DEFINE A ==
      HasRead /\ writes = 1 =>
       LET h == source'["header"].entries
           plain == IF "basenames" \in DOMAIN h
                    THEN {i \in DOMAIN h["basenames"] : "ghost" \notin h["fileflags"][i]}
                    ELSE {}
           path(n) == <<SplitDir[n], SplitBase[n]>>
       IN  /\ {HeaderPaths(h)[i] : i \in plain} = {path(n) : n \in DOMAIN files'}
           /\ \A i \in plain, n \in DOMAIN files' :
                HeaderPaths(h)[i] = path(n) =>
                  /\ files'[n].time = h["filemtimes"][i]
                  /\ "dir" \notin h["filemodes"][i] =>
                       files'[n].body % Words = h["filesizes"][i]
<1>1. ASSUME RTInv, FirstInv, AloneInv, [RTNext]_allVars PROVE [A]_allVars
  <2>1. SUFFICES ASSUME HasRead, writes = 1 PROVE A
    OBVIOUS
  <2>2. source'["header"].entries = H /\ IsHeader(H)
    BY <1>1, <2>1, WhatReads DEF RTInv, IsPackage, H, PackageHeader
  <2>3. files' = ReadFiles /\ Restored(H, PayloadEntries)
    BY <1>1, <2>1, WhatReads DEF FirstInv, H, PayloadEntries, PackageHeader, PackageEntries
  <2>4. PlainRows(H) = IF "basenames" \in DOMAIN H
                       THEN {i \in DOMAIN H["basenames"] : "ghost" \notin H["fileflags"][i]}
                       ELSE {}
    <3>1. ASSUME "basenames" \in DOMAIN H, NEW i \in DOMAIN H["basenames"]
          PROVE  Alone(H["fileflags"][i])
      <4>1. IsIndex(H) /\ {"basenames", "fileflags"} \subseteq FileArrays
        BY <2>2, <3>1 DEF IsHeader, FileTags, FileArrays
      <4>2. \A a \in FileArrays : H[a] = [k \in 1 .. Len(H["filemodes"]) |-> H[a][k]]
        BY <4>1 DEF IsIndex
      <4>3. DOMAIN H["basenames"] = DOMAIN H["fileflags"] /\ "fileflags" \in DOMAIN H
        BY <4>1, <4>2 DEF IsIndex, FileTags
      <4> QED
        BY <1>1, <2>1, <3>1, <4>3, WhatReads DEF AloneInv, H, PackageHeader
    <3> QED
      BY <3>1 DEF PlainRows, Alone
  <2>5. {HeaderPaths(H)[i] : i \in PlainRows(H)} = {PathOf(n) : n \in DOMAIN files'}
    <3>1. {HeaderPaths(H)[i] : i \in PlainRows(H)}
            = {PathOf(PayloadEntries[k].name) : k \in DOMAIN PayloadEntries}
      BY <2>3 DEF Restored
    <3>2. ASSUME NEW e, NEW N, N = {e[k].name : k \in DOMAIN e}
          PROVE  {PathOf(e[k].name) : k \in DOMAIN e} = {PathOf(n) : n \in N}
      BY <3>2
    <3>3. DOMAIN files' = {PayloadEntries[k].name : k \in DOMAIN PayloadEntries}
      BY <2>3, NamesRead
    <3> QED
      BY <3>1, <3>2, <3>3
  <2>6. ASSUME NEW i \in PlainRows(H), NEW n \in DOMAIN files', HeaderPaths(H)[i] = PathOf(n)
        PROVE  /\ files'[n].time = H["filemtimes"][i]
               /\ "dir" \notin H["filemodes"][i] => files'[n].body % Words = H["filesizes"][i]
    <3>1. PICK k \in DOMAIN PayloadEntries :
            PayloadEntries[k].name = n /\ ReadFiles[n] = ReadFile(k)
      BY <2>3, NamesRead
    <3>2. files'[n].time = PayloadEntries[k].time /\ files'[n].body = PayloadEntries[k].body
      BY <2>3, <3>1 DEF ReadFile
    <3> QED
      BY <2>3, <2>6, <3>1, <3>2 DEF Restored
  <2> QED
    BY <2>2, <2>4, <2>5, <2>6 DEF PathOf
<1> QED
  BY <1>1, AloneAlways, PTL DEF RTSpec, ReadRestoresPayload

-----------------------------------------------------------------------------
(* Metadata and changelog, read.                                            *)

\* Behind the last Write a complete output is made or kept, and so is the object.
LEMMA UntouchedCases ==
  ASSUME RTInv, [RTNext]_allVars, Untouched', out' = Steps
  PROVE  Completes \/ UNCHANGED <<apiVars, out, image, writes>>
<1>1. writes \in 0 .. MaxWrites /\ writes' = MaxWrites /\ MaxWrites \in Nat
  BY CallsAssumption DEF RTInv, ObjectOK, Untouched
<1>2. ~ Call
  BY <1>1, CallLeaves
<1>3. ~ Reads
  BY <1>1 DEF Reads, ReadPackage
<1>4. NotRead \/ UNCHANGED vars => UNCHANGED <<apiVars, out, image, writes>>
  BY DEF NotRead, vars, writeVars
<1> QED
  BY <1>2, <1>3, <1>4, StepCases, WhatCompletes DEF RTInv

\* The header that Write makes has the metadata and the changelog, those parts that are
\* zero or empty by having no tag (readGenIndexes, toRelations, toChangelog).
LEMMA MetaBack ==
  ASSUME RTInv, Completes
  PROVE  ReadMeta' = meta /\ ReadChangelog' = changelog
<1> DEFINE h == HeaderEntries
           get(t, zero) == IF t \in DOMAIN h THEN h[t] ELSE zero
<1>1. H' = h
  BY PackageNow DEF RTInv, H, PackageHeader
<1>2. /\ get("name", 0) = meta.name /\ get("version", 0) = meta.version
      /\ get("release", 0) = meta.release /\ get("arch", 0) = meta.arch
      /\ get("sourcerpm", 0) = meta.sourcePackage
  BY HeaderTags DEF RTInv, NumberTags
<1>3. get("epoch", 0) = meta.epoch
  <2>1. meta.epoch \in Nat
    BY DEF RTInv, MetaType
  <2> QED
    BY <2>1, HeaderTags DEF RTInv
<1>4. get("changelog", << >>) = changelog
  BY HeaderTags DEF RTInv
<1>5. \A t \in RelTags : get(t, << >>) = meta.rels[t]
  BY HeaderRels DEF RTInv
<1>6. meta = [name |-> meta.name, version |-> meta.version, release |-> meta.release,
              arch |-> meta.arch, epoch |-> meta.epoch, sourcePackage |-> meta.sourcePackage,
              rels |-> [t \in RelTags |-> meta.rels[t]]]
  BY DEF RTInv, MetaType
<1> HIDE DEF h
<1>7. ASSUME NEW t, NEW zero PROVE PopTag(t, zero)' = get(t, zero)
  BY <1>1 DEF PopTag
<1> HIDE DEF get
<1>8. ReadChangelog' = changelog
  BY <1>4, <1>7 DEF ReadChangelog
<1>9. ReadMeta' = [name |-> get("name", 0), version |-> get("version", 0),
                   release |-> get("release", 0), arch |-> get("arch", 0),
                   epoch |-> get("epoch", 0), sourcePackage |-> get("sourcerpm", 0),
                   rels |-> [t \in RelTags |-> get(t, << >>)]]
  BY <1>7 DEF ReadMeta, ReadRelations
<1> QED
  BY <1>2, <1>3, <1>5, <1>6, <1>8, <1>9

\* What would be read is what the object has.
MetaInv == Untouched /\ out = Steps => ReadMeta = meta /\ ReadChangelog = changelog

\* So they stay, as long as the caller does nothing.
LEMMA MetaKept == ASSUME RTInv, MetaInv, [RTNext]_allVars PROVE MetaInv'
<1>1. SUFFICES ASSUME Untouched', out' = Steps
               PROVE  ReadMeta' = meta' /\ ReadChangelog' = changelog'
  BY DEF MetaInv
<1>2. CASE Completes
  BY <1>2, MetaBack DEF Completes, apiVars
<1>3. CASE UNCHANGED <<apiVars, out, image, writes>>
  BY <1>1, <1>3 DEF MetaInv, Untouched, ReadMeta, ReadChangelog, ReadRelations, PopTag, H, apiVars
<1> QED
  BY <1>1, <1>2, <1>3, UntouchedCases

\* Reading gives back the metadata and the changelog of the object that was written.
THEOREM MetaRestored == ASSUME OwnTags PROVE RTSpec => ReadRestoresMeta
<1>1. RTInit => MetaInv
  BY StepsDiffer DEF RTInit, Init, MetaInv
<1>2. RTSpec => [](RTInv /\ MetaInv)
  BY <1>1, MetaKept, RoundTripInv, PTL DEF RTSpec
<1>3. ASSUME RTInv, MetaInv, [RTNext]_allVars
      PROVE  [HasRead /\ Untouched => meta' = meta /\ changelog' = changelog]_allVars
  BY <1>3, WhatReads DEF MetaInv
<1> QED
  BY <1>2, <1>3, PTL DEF RTSpec, ReadRestoresMeta

-----------------------------------------------------------------------------
(* Files, read.                                                             *)

\* No file of the package is a ghost.
Plain == \A n \in DOMAIN files : files[n].type # {"ghost"}

\* Entry i of payload e as the file that is made of it with header h.
FileOf(h, e, i) ==
  [mode |-> h["filemodes"][i], type |-> h["fileflags"][i],
   owner |-> h["fileowners"][i], time |-> e[i].time, body |-> e[i].body]

\* Without ghosts the rows of the file index and the entries of the payload are of the
\* same files, in the order of their names.
Aligned(h, e) ==
  /\ FileTags \subseteq DOMAIN h
  /\ Len(h["filemodes"]) = Len(e) /\ Len(e) > 0
  /\ \A i, j \in 1 .. Len(e) : i < j => e[i].name < e[j].name
  /\ DOMAIN HeaderPaths(h) = 1 .. Len(e)
  /\ \A i \in 1 .. Len(e) :
       /\ HeaderPaths(h)[i] = PathOf(e[i].name)
       /\ h["fileflags"][i] # {"ghost"}

\* The files of a first Write without ghosts, in their order.
ListedPlain(ns) ==
  /\ IsListing(ns, DOMAIN files, Before(DOMAIN files))
  /\ Len(rows) = Len(ns) /\ Len(cpio.entries) = Len(ns)
  /\ \A i \in 1 .. Len(ns) :
       /\ ns[i] \in Names /\ files[ns[i]] \in FileType
       /\ IsRowOf(i, ns[i])
       /\ \A a \in FileArrays \ {"dirindexes"} :
            rows[i][a] = Row(NewDirIndex, ns[i], files[ns[i]])[a]
       /\ cpio.entries[i] = EntryFor(ns[i])

\* There they are.
LEMMA PlainListed ==
  ASSUME RTInv, Completes, writes = 1, Plain
  PROVE  \E ns : ListedPlain(ns)
<1>1. PICK ns, ps : Listed(ns, ps)
  BY AllListed DEF RTInv, Completes, SectionSteps
<1> DEFINE S == DOMAIN files
<1>2. /\ IsListing(ns, S, Before(S)) /\ IsListing(ps, WithPayload(S), Before(WithPayload(S)))
      /\ Len(rows) = Len(ns) /\ Len(cpio.entries) = Len(ps)
      /\ \A k \in 1 .. Len(ps) : cpio.entries[k] = EntryFor(ps[k])
      /\ \A i \in 1 .. Len(ns) : IsRowOf(i, ns[i])
      /\ \A i \in 1 .. Len(ns) : \A a \in FileArrays \ {"dirindexes"} :
            rows[i][a] = Row(NewDirIndex, ns[i], files[ns[i]])[a]
  BY <1>1, AllListed DEF Listed, RTInv, Completes, SectionSteps
<1>3. WithPayload(S) = S
  BY DEF WithPayload, Plain
<1>4. S \subseteq Names /\ S \subseteq Nat /\ \A n \in S : files[n] \in FileType
  BY NamesAssumption, FileTyped DEF RTInv, ObjectOK
<1>5. ps = ns
  <2>1. Strict(Before(S))
    BY <1>4, OrdersStrict
  <2>2. Listing(S, Before(S)) = ns /\ Listing(S, Before(S)) = ps
    BY <1>2, <1>3, <2>1, ListingIs
  <2> QED
    BY <2>2
<1>6. \A i \in 1 .. Len(ns) : ns[i] \in S
  BY <1>2, ListingHas
<1> QED
  BY <1>2, <1>4, <1>5, <1>6 DEF ListedPlain

\* Header and payload of such a Write.
LEMMA PlainAligned ==
  ASSUME RTInv, Plain, NEW ns, ListedPlain(ns), DOMAIN files # {}
  PROVE  LET h == HeaderEntries
             e == cpio.entries
         IN  /\ Aligned(h, e)
             /\ Len(e) = Len(ns)
             /\ \A i \in 1 .. Len(ns) :
                  /\ e[i] = EntryFor(ns[i])
                  /\ FileOf(h, e, i) = Normal(files[ns[i]])
                  /\ \A a \in FileArrays \ {"dirindexes"} :
                       h[a][i] = Row(NewDirIndex, ns[i], files[ns[i]])[a]
<1> DEFINE h == HeaderEntries
           e == cpio.entries
<1>1. /\ Len(ns) \in Nat /\ Len(rows) = Len(ns) /\ Len(e) = Len(ns) /\ Len(ns) > 0
      /\ \A i, j \in 1 .. Len(ns) : i < j => ns[i] < ns[j]
  <2>1. IsListing(ns, DOMAIN files, Before(DOMAIN files))
    BY DEF ListedPlain
  <2>2. \E i \in 1 .. Len(ns) : TRUE
    BY <2>1, ListingHas
  <2>3. \A i, j \in 1 .. Len(ns) : i < j => ns[i] < ns[j]
    <3>1. \A i, j \in 1 .. Len(ns) : i < j => <<ns[i], ns[j]>> \in Before(DOMAIN files)
      BY <2>1, ListingHas
    <3>2. \A a, b : <<a, b>> \in Before(DOMAIN files) => a < b
      BY DEF Before
    <3> QED
      BY <3>1, <3>2
  <2> QED
    BY <2>1, <2>2, <2>3, ListingHas DEF ListedPlain
<1>2. /\ FileTags \subseteq DOMAIN h
      /\ \A a \in FileArrays : h[a] = [i \in 1 .. Len(ns) |-> rows[i][a]]
      /\ DOMAIN HeaderPaths(h) = 1 .. Len(ns)
      /\ \A i \in 1 .. Len(ns), n \in Names : IsRowOf(i, n) => HeaderPaths(h)[i] = PathOf(n)
  <2>1. ObjectOK /\ TagsOK
    BY DEF RTInv
  <2> QED
    BY <1>1, <2>1, HeaderRows
<1>3. \A i \in 1 .. Len(ns) :
        /\ ns[i] \in Names /\ files[ns[i]] \in FileType /\ IsRowOf(i, ns[i])
        /\ e[i] = EntryFor(ns[i])
        /\ \A a \in FileArrays \ {"dirindexes"} :
             rows[i][a] = Row(NewDirIndex, ns[i], files[ns[i]])[a]
  BY DEF ListedPlain
<1> HIDE DEF h, e
<1>4. \A i \in 1 .. Len(ns) : \A a \in FileArrays \ {"dirindexes"} :
        h[a][i] = Row(NewDirIndex, ns[i], files[ns[i]])[a]
  <2>1. \A a \in FileArrays : \A i \in 1 .. Len(ns) : h[a][i] = rows[i][a]
    <3>1. \A a \in FileArrays : h[a] = [i \in 1 .. Len(ns) |-> rows[i][a]]
      BY <1>2
    <3> QED
      BY <3>1
  <2>2. \A i \in 1 .. Len(ns) : \A a \in FileArrays \ {"dirindexes"} :
          rows[i][a] = Row(NewDirIndex, ns[i], files[ns[i]])[a]
    BY <1>3
  <2>3. ASSUME NEW i \in 1 .. Len(ns), NEW a \in FileArrays \ {"dirindexes"}
        PROVE  h[a][i] = Row(NewDirIndex, ns[i], files[ns[i]])[a]
    <3>1. h[a][i] = rows[i][a]
      BY <2>1
    <3>2. rows[i][a] = Row(NewDirIndex, ns[i], files[ns[i]])[a]
      BY <2>2, Zenon
    <3> QED
      BY <3>1, <3>2
  <2> QED
    BY <2>3, Zenon
<1>5. \A n, f : /\ Row(NewDirIndex, n, f)["filemodes"] = EntryMode(f)
                /\ Row(NewDirIndex, n, f)["fileflags"] = f.type
                /\ Row(NewDirIndex, n, f)["fileowners"] = f.owner
  BY DEF Row
<1>6. {"filemodes", "fileflags", "fileowners"} \subseteq FileArrays \ {"dirindexes"}
  BY DEF FileArrays
<1>7. ASSUME NEW i \in 1 .. Len(ns)
      PROVE  /\ h["filemodes"][i] = EntryMode(files[ns[i]])
             /\ h["fileflags"][i] = files[ns[i]].type
             /\ h["fileowners"][i] = files[ns[i]].owner
             /\ e[i].name = ns[i] /\ e[i].time = files[ns[i]].time
             /\ e[i].body = files[ns[i]].body
  <2>1. /\ EntryFor(ns[i]).name = ns[i] /\ EntryFor(ns[i]).time = files[ns[i]].time
        /\ EntryFor(ns[i]).body = files[ns[i]].body
    BY DEF EntryFor, CpioEntry
  <2> QED
    BY <1>3, <1>4, <1>5, <1>6, <2>1
<1>8. ASSUME NEW i \in 1 .. Len(ns) PROVE FileOf(h, e, i) = Normal(files[ns[i]])
  <2>1. files[ns[i]] \in FileType
    BY <1>3
  <2> QED
    BY <1>7, <2>1 DEF FileOf, Normal, FileType
<1>9. Len(h["filemodes"]) = Len(ns)
  <2>1. h["filemodes"] = [i \in 1 .. Len(ns) |-> rows[i]["filemodes"]]
    BY <1>2, <1>6
  <2> QED
    BY <1>1, <2>1
<1>10. \A i \in 1 .. Len(ns) : ns[i] \in DOMAIN files
  BY ListingHas DEF ListedPlain
<1>11. Aligned(h, e)
  BY <1>1, <1>2, <1>3, <1>7, <1>9, <1>10 DEF Aligned, Plain
<1> QED
  BY <1>1, <1>3, <1>4, <1>8, <1>11 DEF h, e

\* A complete output without ghosts is that of an empty package or of a first Write.
LEMMA PlainCompletes ==
  ASSUME RTInv, Plain, Completes
  PROVE  DOMAIN files = {} \/ (writes = 1 /\ \E ns : ListedPlain(ns))
<1>1. writes \in Nat /\ writes > 0 /\ DOMAIN files \ todo = DOMAIN files
  <2>1. pc \in SectionSteps /\ pc # "files"
    BY DEF Completes, SectionSteps
  <2>2. writes \in 0 .. MaxWrites /\ todo = {} /\ writes > 0
    BY <2>1 DEF RTInv, ObjectOK, Called
  <2> QED
    BY <2>2, CallsAssumption
<1>2. writes > 1 => DOMAIN files = {}
  BY <1>1 DEF RTInv, ClosedInv, Completes, Plain, SectionSteps
<1> QED
  BY <1>1, <1>2, PlainListed

\* Without ghosts, rows and entries of what was put out correspond, if there are rows.
PlainInv ==
  /\ Plain
  /\ out = Steps =>
       \/ Aligned(PackageHeader(image), PackageEntries(image))
       \/ FileTags \cap DOMAIN PackageHeader(image) = {}

\* Where there are fewer entries than rows, each file read is one with a row.
LEMMA ReadPlain ==
  ASSUME RTInv, PlainInv, Reads
  PROVE  \/ Aligned(H, PayloadEntries)
         \/ FileTags \cap DOMAIN H = {} /\ Len(PayloadEntries) = 0
<1>1. Aligned(H, PayloadEntries) \/ FileTags \cap DOMAIN H = {}
  BY DEF PlainInv, Reads, H, PayloadEntries, PackageHeader, PackageEntries
<1>2. ASSUME FileTags \cap DOMAIN H = {} PROVE Len(PayloadEntries) = 0
  <2>1. "filemodes" \notin DOMAIN H
    BY <1>2 DEF FileTags, FileArrays
  <2>2. Len(PayloadEntries) <= Len(<< >>)
    BY <2>1 DEF Reads, ArraysCover, PopTag
  <2>3. PayloadEntries \in Seq(EntryType)
    BY DEF RTInv, Reads, IsPackage, PackageEntries, PayloadEntries
  <2> QED
    BY <2>2, <2>3
<1> QED
  BY <1>1, <1>2

\* No step brings a ghost into the package.
LEMMA PlainKept == ASSUME NoGhosts, RTInv, PlainInv, [RTNext]_allVars PROVE PlainInv'
<1>1. Plain'
  <2>1. SUFFICES ASSUME NEW n \in DOMAIN files' PROVE files'[n].type # {"ghost"}
    BY DEF Plain
  <2>2. CASE [Next]_vars
    BY <2>2, NextFiles DEF NoGhosts, PlainInv, Plain
  <2>3. CASE NotRead
    BY <2>3 DEF NotRead, apiVars, PlainInv, Plain
  <2>4. CASE Reads
    <3>1. files' = ReadFiles
      BY <2>4 DEF Reads, ReadPackage
    <3>2. PICK k \in DOMAIN PayloadEntries : files'[n] = ReadFile(k)
      BY <3>1, NamesRead
    <3>3. k \in 1 .. Len(PayloadEntries)
      BY <2>4 DEF RTInv, Reads, IsPackage, PackageEntries, PayloadEntries
    <3>4. Aligned(H, PayloadEntries)
      BY <2>4, <3>3, ReadPlain
    <3>5. H["fileflags"][k] # {"ghost"}
      BY <3>3, <3>4 DEF Aligned
    <3> QED
      BY <3>2, <3>5 DEF ReadFile
  <2> QED
    BY <2>2, <2>3, <2>4, StepCases
<1>2. ASSUME out' = Steps
      PROVE  \/ Aligned(PackageHeader(image'), PackageEntries(image'))
             \/ FileTags \cap DOMAIN PackageHeader(image') = {}
  <2>1. CASE Completes
    <3>1. PackageHeader(image') = HeaderEntries /\ PackageEntries(image') = cpio.entries
      BY <2>1, PackageNow DEF RTInv
    <3>2. CASE DOMAIN files = {}
      BY <3>1, <3>2, HeaderFiles DEF RTInv
    <3>3. CASE DOMAIN files # {}
      <4>1. PICK ns : ListedPlain(ns)
        BY <2>1, <3>3, PlainCompletes DEF PlainInv
      <4>2. Aligned(HeaderEntries, cpio.entries)
        BY <3>3, <4>1, PlainAligned DEF PlainInv
      <4> QED
        BY <3>1, <4>2
    <3> QED
      BY <3>2, <3>3
  <2>2. CASE UNCHANGED <<out, image>>
    BY <1>2, <2>2 DEF PlainInv
  <2>3. Reads \/ NotRead => UNCHANGED <<out, image>>
    BY DEF Reads, NotRead
  <2>4. ASSUME Call \/ UNCHANGED vars PROVE UNCHANGED <<out, image>>
    BY <2>4, CallLeaves DEF vars, writeVars
  <2> QED
    BY <1>2, <2>1, <2>2, <2>3, <2>4, StepCases, WhatCompletes DEF RTInv
<1> QED
  BY <1>1, <1>2 DEF PlainInv

\* It holds in every reachable state.
LEMMA PlainAlways == ASSUME OwnTags, NoGhosts PROVE RTSpec => [](RTInv /\ PlainInv)
<1>1. RTInit => PlainInv
  BY StepsDiffer DEF RTInit, Init, NewRPM, PlainInv, Plain, EmptyMap
<1> QED
  BY <1>1, PlainKept, RoundTripInv, PTL DEF RTSpec

\* From a complete output the files of the package are read, if any are.
LEMMA FilesBack ==
  ASSUME RTInv, Plain, Completes, ArraysCover'
  PROVE  ReadFiles' = [n \in DOMAIN files |-> Normal(files[n])]
<1> DEFINE h == HeaderEntries
           e == cpio.entries
<1>1. H' = h /\ PayloadEntries' = e
  BY PackageNow DEF RTInv, H, PayloadEntries, PackageHeader, PackageEntries
<1>2. DOMAIN e = 1 .. Len(e) /\ Len(e) \in Nat
  BY DEF RTInv, ObjectOK
<1>3. CASE DOMAIN files = {}
  <2>1. "filemodes" \notin DOMAIN h
    BY <1>3, HeaderFiles DEF RTInv, FileTags, FileArrays
  <2> HIDE DEF h, e
  <2>2. Len(e) <= Len(<< >>)
    BY <1>1, <2>1 DEF ArraysCover, PopTag
  <2>3. DOMAIN e = {}
    BY <1>2, <2>2
  <2>4. DOMAIN ReadFiles' = {}
    BY <1>1, <2>3 DEF ReadFiles
  <2>5. ReadFiles' = [n \in DOMAIN ReadFiles' |-> ReadFiles'[n]]
    BY DEF ReadFiles
  <2> QED
    BY <1>3, <2>4, <2>5
<1>4. CASE DOMAIN files # {}
  <2>1. PICK ns : ListedPlain(ns)
    BY <1>4, PlainCompletes
  <2>2. Len(e) = Len(ns) /\ \A i \in 1 .. Len(ns) :
          e[i] = EntryFor(ns[i]) /\ FileOf(h, e, i) = Normal(files[ns[i]])
    BY <1>4, <2>1, PlainAligned
  <2>3. /\ \A i \in 1 .. Len(ns) : ns[i] \in DOMAIN files
        /\ \A n \in DOMAIN files : \E i \in 1 .. Len(ns) : ns[i] = n
    BY <2>1, ListingHas DEF ListedPlain
  <2> HIDE DEF h, e
  <2>4. /\ DOMAIN ReadFiles' = {e[k].name : k \in DOMAIN e}
        /\ \A n \in DOMAIN ReadFiles' :
             \E k \in DOMAIN e : e[k].name = n /\ ReadFiles'[n] = FileOf(h, e, k)
    <3>1. (/\ DOMAIN ReadFiles = {PayloadEntries[k].name : k \in DOMAIN PayloadEntries}
           /\ \A n \in DOMAIN ReadFiles :
                \E k \in DOMAIN PayloadEntries :
                  PayloadEntries[k].name = n /\ ReadFiles[n] = ReadFile(k))'
      BY NamesRead, PTL
    <3>2. \A k : ReadFile(k)' = FileOf(h, e, k)
      BY <1>1 DEF ReadFile, FileOf
    <3> QED
      BY <1>1, <3>1, <3>2
  <2>5. \A i \in 1 .. Len(ns) : e[i].name = ns[i]
    <3>1. \A n : EntryFor(n).name = n
      BY DEF EntryFor, CpioEntry
    <3> QED
      BY <2>2, <3>1
  <2>6. DOMAIN ReadFiles' = DOMAIN files
    <3>1. DOMAIN e = 1 .. Len(ns)
      BY <1>2, <2>2
    <3>2. {e[k].name : k \in DOMAIN e} = DOMAIN files
      <4>1. \A k \in DOMAIN e : e[k].name \in DOMAIN files
        BY <2>3, <2>5, <3>1
      <4>2. \A n \in DOMAIN files : \E k \in DOMAIN e : e[k].name = n
        BY <2>3, <2>5, <3>1
      <4> QED
        BY <4>1, <4>2
    <3> QED
      BY <2>4, <3>2
  <2>7. ASSUME NEW n \in DOMAIN files PROVE ReadFiles'[n] = Normal(files[n])
    <3>1. PICK k \in DOMAIN e : e[k].name = n /\ ReadFiles'[n] = FileOf(h, e, k)
      BY <2>4, <2>6
    <3>2. k \in 1 .. Len(ns) /\ ns[k] = n
      BY <1>2, <2>2, <2>5, <3>1
    <3> QED
      BY <2>2, <3>1, <3>2
  <2>8. ReadFiles' = [n \in DOMAIN ReadFiles' |-> ReadFiles'[n]]
    BY DEF ReadFiles
  <2> QED
    BY <2>6, <2>7, <2>8
<1> QED
  BY <1>3, <1>4

\* The files that would be read are those of the object.
FilesInv ==
  Untouched /\ out = Steps /\ ArraysCover =>
    ReadFiles = [n \in DOMAIN files |-> Normal(files[n])]

\* So they stay, as long as the caller does nothing.
LEMMA FilesKept == ASSUME RTInv, PlainInv, FilesInv, [RTNext]_allVars PROVE FilesInv'
<1>1. SUFFICES ASSUME Untouched', out' = Steps, ArraysCover'
               PROVE  ReadFiles' = [n \in DOMAIN files' |-> Normal(files'[n])]
  BY DEF FilesInv, Normal, EntryMode, IsRegular, IsDir, IsSymlink
<1>2. CASE Completes
  BY <1>1, <1>2, FilesBack DEF Completes, apiVars, PlainInv
<1>3. CASE UNCHANGED <<apiVars, out, image, writes>>
  <2>1. UNCHANGED <<files, ReadFiles, Untouched, ArraysCover>>
    BY <1>3 DEF apiVars, ReadFiles, ReadFile, Untouched, ArraysCover, PopTag, PayloadEntries, H
  <2> QED
    BY <1>1, <1>3, <2>1 DEF FilesInv
<1> QED
  BY <1>1, <1>2, <1>3, UntouchedCases

\* Reading gives back the files that were written, each with its own mode, owner, flags
\* and body, where no file is a ghost: readFiles takes the number of a payload entry
\* for that of its row.
THEOREM FilesRestored == ASSUME OwnTags, NoGhosts PROVE RTSpec => ReadRestoresFiles
<1>1. RTInit => FilesInv
  BY StepsDiffer DEF RTInit, Init, FilesInv
<1>2. RTSpec => [](RTInv /\ FilesInv)
  BY <1>1, FilesKept, PlainAlways, PTL DEF RTSpec
<1>3. ASSUME RTInv, FilesInv, [RTNext]_allVars
      PROVE  [HasRead /\ Untouched => files' = [n \in DOMAIN files |-> Normal(files[n])]]_allVars
  BY <1>3, WhatReads DEF FilesInv
<1> QED
  BY <1>2, <1>3, PTL DEF RTSpec, ReadRestoresFiles

-----------------------------------------------------------------------------
(* A package read and written again.                                        *)

\* No file of the caller's has the bit of a character device alone: it is given the
\* regular bit, and the two together are a symlink's (rpm.go, writeFile), so that it is
\* another kind of file when it is read.
NoDevices == \A f \in Files : f.mode # {"chr"}

\* Apart from the position of its directory, a row is the one that would be made of the
\* file read.
Repeats(h, e) ==
  \A i \in 1 .. Len(e) :
    /\ e[i].mode = h["filemodes"][i]
    /\ \A a \in FileArrays \ {"dirindexes"} :
         h[a][i] = Row(NewDirIndex, e[i].name, FileOf(h, e, i))[a]

\* A file that was written and read is as it was before.
LEMMA NormalRow ==
  ASSUME NEW f \in FileType, f.mode # {"chr"}, NEW n
  PROVE  Row(NewDirIndex, n, Normal(f)) = Row(NewDirIndex, n, f)
<1> DEFINE g == Normal(f)
<1>1. f.mode \subseteq TypeBits
  BY DEF FileType
<1>2. /\ g.mode = EntryMode(f) /\ g.type = f.type /\ g.owner = f.owner
      /\ g.time = f.time /\ g.body = f.body
  BY DEF Normal, FileType
<1> HIDE DEF g
<1>3. IsDir(g) <=> IsDir(f)
  BY <1>2 DEF EntryMode, IsRegular, IsDir
<1>4. IsSymlink(g) <=> IsSymlink(f)
  <2>1. CASE IsRegular(f)
    <3>1. g.mode = f.mode \cup {"reg"} /\ "dir" \notin f.mode /\ ~ Symlink \subseteq f.mode
      BY <1>2, <2>1 DEF EntryMode, IsRegular, IsDir, IsSymlink
    <3>2. "chr" \notin f.mode
      <4>1. SUFFICES ASSUME "chr" \in f.mode PROVE FALSE
        OBVIOUS
      <4>2. "reg" \notin f.mode
        BY <3>1, <4>1 DEF Symlink
      <4>3. f.mode = {"chr"}
        BY <1>1, <3>1, <4>1, <4>2 DEF TypeBits
      <4> QED
        BY <4>3
    <3> QED
      BY <3>1, <3>2 DEF IsSymlink, Symlink
  <2>2. CASE ~ IsRegular(f)
    BY <1>2, <2>2 DEF EntryMode, IsSymlink
  <2> QED
    BY <2>1, <2>2
<1>5. IsRegular(g) <=> IsRegular(f)
  BY <1>3, <1>4 DEF IsRegular
<1>6. EntryMode(g) = EntryMode(f)
  BY <1>2, <1>5 DEF EntryMode
<1> QED
  BY <1>2, <1>3, <1>4, <1>5, <1>6 DEF Row, g

\* The mode of a file that was written is no device's.
LEMMA NormalMode == ASSUME NEW f PROVE EntryMode(f) # {"chr"}
<1>1. CASE IsRegular(f)
  BY <1>1 DEF EntryMode
<1>2. CASE ~ IsRegular(f)
  <2>1. SUFFICES ASSUME f.mode = {"chr"} PROVE FALSE
    BY <1>2 DEF EntryMode
  <2> QED
    BY <1>2, <2>1 DEF IsRegular, IsDir, IsSymlink, Symlink
<1> QED
  BY <1>1, <1>2

\* Without devices, a file keeps its kind when it is read and written once more.
RepeatInv ==
  NoDevices =>
    /\ \A n \in DOMAIN files : files[n].mode # {"chr"}
    /\ out = Steps /\ Aligned(PackageHeader(image), PackageEntries(image)) =>
         Repeats(PackageHeader(image), PackageEntries(image))

\* What a Write puts out can be put out again, and what is read is no device.
LEMMA RepeatKept ==
  ASSUME RTInv, PlainInv, RepeatInv, [RTNext]_allVars
  PROVE  RepeatInv'
<1>1. SUFFICES ASSUME NoDevices
               PROVE  /\ \A n \in DOMAIN files' : files'[n].mode # {"chr"}
                      /\ out' = Steps /\ Aligned(PackageHeader(image'), PackageEntries(image')) =>
                           Repeats(PackageHeader(image'), PackageEntries(image'))
  BY DEF RepeatInv
<1>2. ASSUME NEW n \in DOMAIN files' PROVE files'[n].mode # {"chr"}
  <2>1. CASE [Next]_vars
    BY <1>1, <2>1, NextFiles DEF NoDevices, RepeatInv
  <2>2. CASE NotRead
    BY <1>1, <2>2 DEF NotRead, apiVars, RepeatInv
  <2>3. CASE Reads
    <3>1. files' = ReadFiles
      BY <2>3 DEF Reads, ReadPackage
    <3>2. PICK k \in DOMAIN PayloadEntries : files'[n] = ReadFile(k)
      BY <3>1, NamesRead
    <3>3. k \in 1 .. Len(PayloadEntries)
      BY <2>3 DEF RTInv, Reads, IsPackage, PackageEntries, PayloadEntries
    <3>4. Repeats(H, PayloadEntries)
      <4>1. Aligned(H, PayloadEntries)
        BY <2>3, <3>3, ReadPlain
      <4> QED
        BY <1>1, <2>3, <4>1 DEF RepeatInv, Reads, H, PayloadEntries, PackageHeader, PackageEntries
    <3>5. H["filemodes"][k]
            = Row(NewDirIndex, PayloadEntries[k].name, FileOf(H, PayloadEntries, k))["filemodes"]
      BY <3>3, <3>4 DEF Repeats, FileArrays
    <3>6. H["filemodes"][k] = EntryMode(FileOf(H, PayloadEntries, k))
      BY <3>5 DEF Row
    <3> QED
      BY <3>2, <3>6, NormalMode DEF ReadFile
  <2> QED
    BY <2>1, <2>2, <2>3, StepCases
<1>3. ASSUME out' = Steps, Aligned(PackageHeader(image'), PackageEntries(image'))
      PROVE  Repeats(PackageHeader(image'), PackageEntries(image'))
  <2>1. CASE Completes
    <3> DEFINE h == HeaderEntries
               e == cpio.entries
    <3>1. PackageHeader(image') = h /\ PackageEntries(image') = e
      BY <2>1, PackageNow DEF RTInv
    <3>2. DOMAIN files # {}
      BY <1>3, <3>1, HeaderFiles DEF RTInv, Aligned, FileTags, FileArrays
    <3>3. PICK ns : ListedPlain(ns)
      BY <2>1, <3>2, PlainCompletes DEF PlainInv
    <3>4. /\ Len(e) = Len(ns)
          /\ \A i \in 1 .. Len(ns) :
               /\ e[i] = EntryFor(ns[i])
               /\ FileOf(h, e, i) = Normal(files[ns[i]])
               /\ \A a \in FileArrays \ {"dirindexes"} :
                    h[a][i] = Row(NewDirIndex, ns[i], files[ns[i]])[a]
      BY <3>2, <3>3, PlainAligned DEF PlainInv
    <3>5. \A i \in 1 .. Len(ns) : files[ns[i]] \in FileType /\ ns[i] \in DOMAIN files
      BY <3>3, ListingHas DEF ListedPlain
    <3> HIDE DEF h, e
    <3>6. ASSUME NEW i \in 1 .. Len(ns)
          PROVE  /\ e[i].mode = h["filemodes"][i]
                 /\ \A a \in FileArrays \ {"dirindexes"} :
                      h[a][i] = Row(NewDirIndex, e[i].name, FileOf(h, e, i))[a]
      <4>1. files[ns[i]].mode # {"chr"}
        BY <1>1, <3>5 DEF RepeatInv
      <4>2. Row(NewDirIndex, ns[i], FileOf(h, e, i)) = Row(NewDirIndex, ns[i], files[ns[i]])
        BY <3>4, <3>5, <4>1, NormalRow
      <4>3. e[i].name = ns[i] /\ e[i].mode = EntryMode(files[ns[i]])
        <5>1. \A n : EntryFor(n).name = n /\ EntryFor(n).mode = EntryMode(files[n])
          BY DEF EntryFor, CpioEntry
        <5>2. e[i] = EntryFor(ns[i])
          BY <3>4
        <5> QED
          BY <5>1, <5>2
      <4>4. \A a \in FileArrays \ {"dirindexes"} :
              h[a][i] = Row(NewDirIndex, ns[i], files[ns[i]])[a]
        BY <3>4
      <4>5. h["filemodes"][i] = EntryMode(files[ns[i]])
        <5>1. h["filemodes"][i] = Row(NewDirIndex, ns[i], files[ns[i]])["filemodes"]
          BY <4>4 DEF FileArrays
        <5> QED
          BY <5>1 DEF Row
      <4> QED
        BY <4>2, <4>3, <4>4, <4>5
    <3> QED
      BY <3>1, <3>4, <3>6 DEF Repeats
  <2>2. CASE UNCHANGED <<out, image>>
    BY <1>1, <1>3, <2>2 DEF RepeatInv
  <2>3. Reads \/ NotRead => UNCHANGED <<out, image>>
    BY DEF Reads, NotRead
  <2>4. ASSUME Call \/ UNCHANGED vars PROVE UNCHANGED <<out, image>>
    BY <2>4, CallLeaves DEF vars, writeVars
  <2> QED
    BY <1>3, <2>1, <2>2, <2>3, <2>4, StepCases, WhatCompletes DEF RTInv
<1> QED
  BY <1>2, <1>3

\* The value of a tag in a header, or a zero value.
TagOr(h, tag, zero) == IF tag \in DOMAIN h THEN h[tag] ELSE zero

\* The object is the one ReadRPMFile makes of a package, but for what Write adds.
IsObjectOf(package) ==
  LET h == PackageHeader(package)
      e == PackageEntries(package)
  IN  /\ meta.name = h["name"] /\ meta.version = h["version"] /\ meta.release = h["release"]
      /\ meta.arch = h["arch"] /\ meta.sourcePackage = h["sourcerpm"]
      /\ meta.epoch = TagOr(h, "epoch", 0)
      /\ \A t \in RelTags : meta.rels[t] = TagOr(h, t, << >>)
      /\ changelog = TagOr(h, "changelog", << >>)
      /\ \A k \in DOMAIN ProgTag :
           scripts[k] = IF k = "pretrans" THEN TagOr(h, "pretrans", 0) ELSE 0
      /\ \A k \in 1 .. Len(e) : e[k].name \in DOMAIN files
      /\ \A n \in DOMAIN files :
           \E k \in 1 .. Len(e) : e[k].name = n /\ files[n] = FileOf(h, e, k)
      /\ customTags = Restrict(h, DOMAIN h \ PoppedTags)
      /\ lead = [name |-> package["lead"], fromBinary |-> TRUE]

\* What is known of a package that was read.
IsSource(package) ==
  LET h == PackageHeader(package)
      e == PackageEntries(package)
  IN  /\ IsPackage(package)
      /\ \/ Aligned(h, e) /\ (NoDevices => Repeats(h, e))
         \/ FileTags \cap DOMAIN h = {} /\ Len(e) = 0
      /\ "pretrans" \in DOMAIN h => "pretransprog" \in DOMAIN h

\* The object is still as it was read, and its package as ReadRPMFile needs it.
SourceInv ==
  source # EmptyMap =>
    /\ reads > 0
    /\ IsSource(source) /\ IsObjectOf(source)
    /\ DOMAIN files = {} => cpio.entries = << >>

\* Reading makes it so.
LEMMA ReadSource ==
  ASSUME RTInv, PlainInv, RepeatInv, Reads
  PROVE  SourceInv'
<1>1. PackageHeader(image) = H /\ PackageEntries(image) = PayloadEntries
  BY DEF H, PayloadEntries, PackageHeader, PackageEntries
<1>2. IsPackage(image) /\ IsHeader(H) /\ DOMAIN PayloadEntries = 1 .. Len(PayloadEntries)
  BY <1>1 DEF RTInv, Reads, IsPackage
<1>3. IsSource(image)
  <2>1. Aligned(H, PayloadEntries) => (NoDevices => Repeats(H, PayloadEntries))
    BY <1>1 DEF RepeatInv, Reads
  <2>2. "pretrans" \in DOMAIN H => "pretransprog" \in DOMAIN H
    <3>1. SUFFICES ASSUME "pretrans" \in DOMAIN H, "pretransprog" \notin DOMAIN H PROVE FALSE
      OBVIOUS
    <3>2. PopTag("pretrans", 0) # 0
      BY <1>2, <3>1 DEF IsHeader, PopTag
    <3>3. PopTag("pretransprog", "") = "/bin/sh"
      BY <3>2 DEF Reads, ScriptsReadable
    <3> QED
      BY <3>1, <3>3 DEF PopTag
  <2> QED
    BY <1>1, <1>2, <2>1, <2>2, ReadPlain DEF IsSource
<1>4. source' = image /\ reads' > 0 /\ cpio.entries' = << >>
  BY DEF Reads, ReadPackage, RTInv
<1>5. \A tag, zero : PopTag(tag, zero) = TagOr(H, tag, zero)
  BY DEF PopTag, TagOr
<1>6. meta' = ReadMeta /\ changelog' = ReadChangelog /\ scripts' = ReadScripts /\ files' = ReadFiles
      /\ customTags' = Restrict(H, DOMAIN H \ PoppedTags)
      /\ lead' = [name |-> image["lead"], fromBinary |-> TRUE]
  BY DEF Reads, ReadPackage
<1>7. /\ meta'.name = H["name"] /\ meta'.version = H["version"] /\ meta'.release = H["release"]
      /\ meta'.arch = H["arch"] /\ meta'.sourcePackage = H["sourcerpm"]
      /\ meta'.epoch = TagOr(H, "epoch", 0)
      /\ \A t \in RelTags : meta'.rels[t] = TagOr(H, t, << >>)
  <2>1. NumberTags \subseteq DOMAIN H
    BY <1>2 DEF IsHeader
  <2>2. /\ TagOr(H, "name", 0) = H["name"] /\ TagOr(H, "version", 0) = H["version"]
        /\ TagOr(H, "release", 0) = H["release"] /\ TagOr(H, "arch", 0) = H["arch"]
        /\ TagOr(H, "sourcerpm", 0) = H["sourcerpm"]
    BY <2>1 DEF TagOr, NumberTags
  <2>3. ReadMeta = [name |-> TagOr(H, "name", 0), version |-> TagOr(H, "version", 0),
                    release |-> TagOr(H, "release", 0), arch |-> TagOr(H, "arch", 0),
                    epoch |-> TagOr(H, "epoch", 0), sourcePackage |-> TagOr(H, "sourcerpm", 0),
                    rels |-> [t \in RelTags |-> TagOr(H, t, << >>)]]
    BY <1>5 DEF ReadMeta, ReadRelations
  <2> QED
    BY <1>6, <2>2, <2>3
<1>8. /\ changelog' = TagOr(H, "changelog", << >>)
      /\ \A k \in DOMAIN ProgTag :
           scripts'[k] = IF k = "pretrans" THEN TagOr(H, "pretrans", 0) ELSE 0
  BY <1>5, <1>6 DEF ReadChangelog, ReadScripts
<1>9. /\ \A k \in 1 .. Len(PayloadEntries) : PayloadEntries[k].name \in DOMAIN files'
      /\ \A n \in DOMAIN files' :
           \E k \in 1 .. Len(PayloadEntries) :
             PayloadEntries[k].name = n /\ files'[n] = FileOf(H, PayloadEntries, k)
  <2>1. \A k : ReadFile(k) = FileOf(H, PayloadEntries, k)
    BY DEF ReadFile, FileOf
  <2> QED
    BY <1>2, <1>6, <2>1, NamesRead
<1>10. IsObjectOf(source)'
  BY <1>1, <1>4, <1>6, <1>7, <1>8, <1>9 DEF IsObjectOf
<1> QED
  BY <1>3, <1>4, <1>10 DEF SourceInv

\* After reading the caller only writes.
LEMMA AfterRead ==
  ASSUME EditsAfterRead = FALSE, RTInv, reads > 0, [RTNext]_allVars
  PROVE  \/ (WriteStart \/ WriteStep \/ UNCHANGED vars) /\ UNCHANGED readVars
         \/ Reads \/ NotRead
<1>1. CASE ReadRPMFile
  BY <1>1 DEF ReadRPMFile, Reads, NotRead, ReadError, ReadPanic
<1> QED
  BY <1>1 DEF RTNext, allVars, RTInv

\* What Write leaves alone.
LEMMA WriteLeaves ==
  ASSUME ObjectOK, WriteStart \/ WriteStep \/ UNCHANGED vars
  PROVE  /\ UNCHANGED apiVars
         /\ DOMAIN files = {} => UNCHANGED cpio.entries
<1>1. UNCHANGED apiVars
  BY DEF WriteStart, WriteStep, WriteFile, ClosePayload, WriteLead, WriteSignatures, WritePad,
     WriteHeader, WritePayload, vars
<1>2. ASSUME DOMAIN files = {}, NEW n \in Names, WriteFile(n) PROVE FALSE
  BY <1>2 DEF WriteFile, IsNext, ObjectOK
<1>3. ASSUME ClosePayload PROVE UNCHANGED cpio.entries
  BY <1>3 DEF ClosePayload, ObjectOK
<1> QED
  BY <1>1, <1>2, <1>3 DEF WriteStart, WriteStep, WriteLead, WriteSignatures, WritePad,
     WriteHeader, WritePayload, vars, payloadVars

\* The caller who does not change it keeps it so.
LEMMA SourceKept ==
  ASSUME EditsAfterRead = FALSE, RTInv, PlainInv, RepeatInv, SourceInv, [RTNext]_allVars
  PROVE  SourceInv'
<1>1. CASE Reads
  BY <1>1, ReadSource
<1>2. ASSUME UNCHANGED <<apiVars, source>>, DOMAIN files = {} => UNCHANGED cpio.entries,
             reads' = reads \/ reads' = reads + 1
      PROVE  SourceInv'
  <2>1. reads > 0 => reads' > 0
    BY <1>2 DEF RTInv
  <2>2. UNCHANGED <<meta, changelog, scripts, files, customTags, lead, source>>
    BY <1>2 DEF apiVars
  <2>3. IsObjectOf(source)' <=> IsObjectOf(source)
    BY <2>2 DEF IsObjectOf
  <2> QED
    BY <1>2, <2>1, <2>2, <2>3 DEF SourceInv
<1>3. CASE NotRead
  BY <1>2, <1>3 DEF NotRead, payloadVars
<1>4. CASE source = EmptyMap /\ ~Reads
  BY <1>4, StepCases DEF SourceInv, NotRead, readVars
<1>5. ASSUME source # EmptyMap, WriteStart \/ WriteStep \/ UNCHANGED vars, UNCHANGED readVars
      PROVE  SourceInv'
  BY <1>2, <1>5, WriteLeaves DEF RTInv, readVars
<1> QED
  BY <1>1, <1>3, <1>4, <1>5, AfterRead DEF SourceInv

\* Where a package that was read is written, it is with the files it had.
LEMMA SameFiles ==
  ASSUME RTInv, PlainInv, SourceInv, Completes, source # EmptyMap, DOMAIN files # {},
         NEW h, h = PackageHeader(source), NEW e, e = PackageEntries(source)
  PROVE  \E ns :
           /\ ListedPlain(ns)
           /\ Aligned(h, e) /\ (NoDevices => Repeats(h, e))
           /\ Len(e) = Len(ns) /\ Len(ns) \in Nat
           /\ \A i \in 1 .. Len(ns) : e[i].name = ns[i] /\ files[ns[i]] = FileOf(h, e, i)
<1>1. PICK ns : ListedPlain(ns)
  BY PlainCompletes DEF PlainInv
<1>2. /\ \A k \in 1 .. Len(e) : e[k].name \in DOMAIN files
      /\ \A n \in DOMAIN files : \E k \in 1 .. Len(e) : e[k].name = n /\ files[n] = FileOf(h, e, k)
  BY DEF SourceInv, IsObjectOf
<1>3. Aligned(h, e) /\ (NoDevices => Repeats(h, e))
  <2>1. Len(e) # 0
    BY <1>2
  <2> QED
    BY <2>1 DEF SourceInv, IsSource
<1>4. e \in Seq(EntryType) /\ Len(e) \in Nat
  BY DEF SourceInv, IsSource, IsPackage
<1> DEFINE S == DOMAIN files
           ms == [k \in 1 .. Len(e) |-> e[k].name]
<1>5. S \subseteq Names /\ S \subseteq Nat
  BY NamesAssumption DEF RTInv, ObjectOK
<1>6. IsListing(ms, S, Before(S))
  <2>1. ms \in Seq(S) /\ DOMAIN ms = 1 .. Len(e)
    BY <1>2, <1>4
  <2>2. \A x \in S : \E i \in DOMAIN ms : ms[i] = x
    BY <1>2
  <2>3. ASSUME NEW i \in DOMAIN ms, NEW j \in DOMAIN ms, i < j PROVE <<ms[i], ms[j]>> \in Before(S)
    <3>1. e[i].name < e[j].name /\ ms[i] \in S /\ ms[j] \in S
      BY <1>2, <1>3, <2>3 DEF Aligned
    <3> QED
      BY <3>1 DEF Before
  <2> QED
    BY <2>1, <2>2, <2>3 DEF IsListing, Lists
<1>7. ms = ns /\ Len(ms) = Len(e)
  <2>1. Strict(Before(S))
    BY <1>5, OrdersStrict
  <2>2. IsListing(ns, S, Before(S))
    BY <1>1 DEF ListedPlain
  <2>3. Listing(S, Before(S)) = ns /\ Listing(S, Before(S)) = ms
    BY <1>6, <2>1, <2>2, ListingIs
  <2> QED
    BY <1>4, <2>3
<1>8. ASSUME NEW i \in 1 .. Len(ns) PROVE e[i].name = ns[i] /\ files[ns[i]] = FileOf(h, e, i)
  <2>1. i \in 1 .. Len(e) /\ e[i].name = ns[i]
    BY <1>7, <1>8
  <2>2. PICK k \in 1 .. Len(e) : e[k].name = ns[i] /\ files[ns[i]] = FileOf(h, e, k)
    BY <1>2, <2>1
  <2>3. k = i
    <3>1. /\ i < k => e[i].name < e[k].name
          /\ k < i => e[k].name < e[i].name
      BY <1>3, <2>1, <2>2 DEF Aligned
    <3>2. ns[i] \in Nat
      BY <1>2, <1>5, <2>1
    <3> QED
      BY <1>4, <2>1, <2>2, <3>1, <3>2
  <2> QED
    BY <2>1, <2>2, <2>3
<1> HIDE DEF ms
<1> QED
  BY <1>1, <1>3, <1>4, <1>7, <1>8

\* Its paths are those it had ...
LEMMA SamePaths ==
  ASSUME RTInv, PlainInv, SourceInv, Completes, source # EmptyMap, DOMAIN files # {}
  PROVE  HeaderPaths(HeaderEntries) = HeaderPaths(PackageHeader(source))
<1> DEFINE h == PackageHeader(source)
           e == PackageEntries(source)
           g == HeaderEntries
<1>1. PICK ns :
        /\ ListedPlain(ns) /\ Aligned(h, e) /\ Len(e) = Len(ns)
        /\ \A i \in 1 .. Len(ns) : e[i].name = ns[i]
  BY SameFiles
<1>2. /\ Aligned(g, cpio.entries) /\ Len(cpio.entries) = Len(ns)
      /\ \A i \in 1 .. Len(ns) : cpio.entries[i] = EntryFor(ns[i])
  BY <1>1, PlainAligned DEF PlainInv
<1>3. \A i \in 1 .. Len(ns) : cpio.entries[i].name = ns[i]
  <2>1. \A n : EntryFor(n).name = n
    BY DEF EntryFor, CpioEntry
  <2> QED
    BY <1>2, <2>1
<1> HIDE DEF g, h, e
<1>4. /\ DOMAIN HeaderPaths(g) = 1 .. Len(ns)
      /\ \A i \in 1 .. Len(ns) : HeaderPaths(g)[i] = PathOf(ns[i])
  BY <1>2, <1>3 DEF Aligned
<1>5. /\ DOMAIN HeaderPaths(h) = 1 .. Len(ns)
      /\ \A i \in 1 .. Len(ns) : HeaderPaths(h)[i] = PathOf(ns[i])
  BY <1>1 DEF Aligned
<1>6. \A x : HeaderPaths(x) = [i \in DOMAIN HeaderPaths(x) |-> HeaderPaths(x)[i]]
  BY DEF HeaderPaths
<1>7. HeaderPaths(g) = HeaderPaths(h)
  BY <1>4, <1>5, <1>6
<1> QED
  BY <1>7 DEF g, h

\* ... and so are the entries of its payload.
LEMMA SamePayload ==
  ASSUME RTInv, PlainInv, SourceInv, Completes, source # EmptyMap, NoDevices
  PROVE  cpio.entries = PackageEntries(source) /\ Payload = source["payload"]
<1> DEFINE h == PackageHeader(source)
           e == PackageEntries(source)
           d == cpio.entries
<1>1. /\ e \in Seq(EntryType) /\ d \in Seq(EntryType)
      /\ source["payload"] = [entries |-> e, complete |-> TRUE]
  BY DEF SourceInv, IsSource, IsPackage, RTInv, ObjectOK
<1>2. Payload = [entries |-> d, complete |-> TRUE]
  <2>1. cpio.closed = TRUE
    BY DEF RTInv, ObjectOK, ClosedInv, Completes, SectionSteps
  <2> QED
    BY <2>1 DEF Payload
<1>3. CASE DOMAIN files = {}
  <2>1. d = << >> /\ \A k \in 1 .. Len(e) : FALSE
    BY <1>3 DEF SourceInv, IsObjectOf
  <2>2. Len(e) = 0
    BY <1>1, <2>1
  <2>3. e = << >>
    BY <1>1, <2>2
  <2> QED
    BY <1>1, <1>2, <2>1, <2>3
<1>4. CASE DOMAIN files # {}
  <2>1. PICK ns :
          /\ ListedPlain(ns) /\ Repeats(h, e) /\ Len(e) = Len(ns) /\ Len(ns) \in Nat
          /\ \A i \in 1 .. Len(ns) : e[i].name = ns[i] /\ files[ns[i]] = FileOf(h, e, i)
    BY <1>4, SameFiles
  <2>2. Len(d) = Len(ns) /\ \A i \in 1 .. Len(ns) : d[i] = EntryFor(ns[i])
    BY <2>1 DEF ListedPlain
  <2>3. ASSUME NEW i \in 1 .. Len(ns) PROVE d[i] = e[i]
    <3>1. d[i] \in EntryType /\ e[i] \in EntryType
      BY <1>1, <2>1, <2>2
    <3>2. /\ d[i].name = ns[i] /\ d[i].mode = EntryMode(files[ns[i]])
          /\ d[i].time = files[ns[i]].time /\ d[i].body = files[ns[i]].body
      <4>1. \A n : /\ EntryFor(n).name = n /\ EntryFor(n).mode = EntryMode(files[n])
                   /\ EntryFor(n).time = files[n].time /\ EntryFor(n).body = files[n].body
        BY DEF EntryFor, CpioEntry
      <4>2. d[i] = EntryFor(ns[i])
        BY <2>2
      <4> QED
        BY <4>1, <4>2
    <3>3. e[i].mode = EntryMode(FileOf(h, e, i))
      <4>1. e[i].mode = h["filemodes"][i]
            /\ h["filemodes"][i] = Row(NewDirIndex, e[i].name, FileOf(h, e, i))["filemodes"]
        BY <2>1 DEF Repeats, FileArrays
      <4> QED
        BY <4>1 DEF Row
    <3>4. FileOf(h, e, i).time = e[i].time /\ FileOf(h, e, i).body = e[i].body
      BY DEF FileOf
    <3>5. /\ d[i].name = e[i].name /\ d[i].mode = e[i].mode
          /\ d[i].time = e[i].time /\ d[i].body = e[i].body
      BY <2>1, <3>2, <3>3, <3>4
    <3> HIDE DEF d, e
    <3> QED
      BY <3>1, <3>5 DEF EntryType
  <2> HIDE DEF d, e
  <2>4. d = e
    BY <1>1, <2>1, <2>2, <2>3
  <2> QED
    BY <1>1, <1>2, <2>4 DEF d, e
<1> QED
  BY <1>3, <1>4

\* The value of a tag is in the new header what it was in the old.
SameTag(old, t) ==
  /\ t \in DOMAIN HeaderEntries <=> t \in DOMAIN old
  /\ t \in DOMAIN HeaderEntries \ GrowingTags => HeaderEntries[t] = old[t]

\* The tags of the metadata and the payload.
LEMMA SameNumbers ==
  ASSUME RTInv, PlainInv, SourceInv, Completes, source # EmptyMap, NoDevices,
         NEW old, old = PackageHeader(source),
         NEW t \in NumberTags \cup {"payloaddigest", "epoch", "changelog"} \cup RelTags
  PROVE  SameTag(old, t)
<1>1. IsHeader(old) /\ TagsOK
  BY DEF SourceInv, IsSource, IsPackage, RTInv
<1>2. /\ meta.name = old["name"] /\ meta.version = old["version"]
      /\ meta.release = old["release"] /\ meta.arch = old["arch"]
      /\ meta.sourcePackage = old["sourcerpm"] /\ meta.epoch = TagOr(old, "epoch", 0)
      /\ changelog = TagOr(old, "changelog", << >>)
      /\ \A x \in RelTags : meta.rels[x] = TagOr(old, x, << >>)
  BY DEF SourceInv, IsObjectOf
<1>3. CASE t \in NumberTags \cup {"payloaddigest"}
  <2>1. t \in DOMAIN HeaderEntries /\ t \in DOMAIN old
    BY <1>1, <1>3, HeaderTags DEF IsHeader
  <2>2. CASE t = "payloaddigest"
    <3>1. HeaderEntries[t] = Payload
      BY <1>1, <2>2, HeaderTags
    <3>2. old[t] = source["payload"]
      BY <2>2 DEF SourceInv, IsSource, IsPackage
    <3> QED
      BY <2>1, <3>1, <3>2, SamePayload DEF SameTag
  <2>3. CASE t \in NumberTags \ {"size"}
    BY <1>1, <1>2, <2>1, <2>3, HeaderTags DEF NumberTags, SameTag
  <2>4. CASE t = "size"
    BY <2>1, <2>4 DEF SameTag, GrowingTags
  <2> QED
    BY <1>3, <2>2, <2>3, <2>4
<1>4. CASE t = "epoch"
  <2>1. /\ t \in DOMAIN HeaderEntries <=> meta.epoch > 0
        /\ t \in DOMAIN HeaderEntries => HeaderEntries[t] = meta.epoch
    BY <1>1, <1>4, HeaderTags
  <2>2. t \in DOMAIN old => old[t] \in Nat \ {0}
    BY <1>1, <1>4 DEF IsHeader
  <2> QED
    BY <1>2, <1>4, <2>1, <2>2 DEF TagOr, SameTag
<1>5. CASE t = "changelog"
  <2>1. /\ t \in DOMAIN HeaderEntries <=> changelog # << >>
        /\ t \in DOMAIN HeaderEntries => HeaderEntries[t] = changelog
    BY <1>1, <1>5, HeaderTags
  <2>2. t \in DOMAIN old => old[t] # << >>
    BY <1>1, <1>5 DEF IsHeader
  <2> QED
    BY <1>2, <1>5, <2>1, <2>2 DEF TagOr, SameTag
<1>6. CASE t \in RelTags
  <2>1. /\ t \in DOMAIN HeaderEntries <=> meta.rels[t] # << >>
        /\ t \in DOMAIN HeaderEntries => HeaderEntries[t] = meta.rels[t]
    BY <1>1, <1>6, HeaderRels
  <2>2. t \in DOMAIN old => old[t] # << >>
    BY <1>1, <1>6 DEF IsHeader
  <2>3. meta.rels[t] = TagOr(old, t, << >>)
    BY <1>2, <1>6
  <2> QED
    BY <2>1, <2>2, <2>3 DEF TagOr, SameTag
<1> QED
  BY <1>3, <1>4, <1>5, <1>6

\* Those of the file index.
LEMMA SameIndex ==
  ASSUME RTInv, PlainInv, SourceInv, Completes, source # EmptyMap, NoDevices,
         NEW old, old = PackageHeader(source), NEW t \in FileTags
  PROVE  SameTag(old, t)
<1> DEFINE e == PackageEntries(source)
<1>1. TagsOK /\ ObjectOK /\ (t \in DOMAIN HeaderEntries <=> DOMAIN files # {})
  BY HeaderFiles DEF RTInv
<1>2. CASE DOMAIN files = {}
  <2>1. \A k \in 1 .. Len(e) : FALSE
    BY <1>2 DEF SourceInv, IsObjectOf
  <2>2. FileTags \cap DOMAIN old = {}
    BY <2>1 DEF SourceInv, IsSource, Aligned
  <2> QED
    BY <1>1, <1>2, <2>2 DEF SameTag
<1>3. CASE DOMAIN files # {}
  <2>1. PICK ns :
          /\ ListedPlain(ns) /\ Aligned(old, e) /\ Repeats(old, e)
          /\ Len(e) = Len(ns) /\ Len(ns) \in Nat
          /\ \A i \in 1 .. Len(ns) : e[i].name = ns[i] /\ files[ns[i]] = FileOf(old, e, i)
    BY <1>3, SameFiles
  <2>2. t \in DOMAIN HeaderEntries /\ t \in DOMAIN old
    BY <1>1, <1>3, <2>1 DEF Aligned
  <2>3. Len(old["filemodes"]) = Len(ns) /\ IsIndex(old)
    BY <2>1, <2>2 DEF Aligned, SourceInv, IsSource, IsPackage, IsHeader
  <2>4. Len(rows) = Len(ns) /\ DOMAIN rows = 1 .. Len(rows)
    BY <1>1, <2>1 DEF ListedPlain, ObjectOK
  <2>5. CASE t = "fileinodes"
    <3>1. HeaderEntries[t] = [i \in 1 .. Len(ns) |-> i]
      BY <1>1, <1>3, <2>4, <2>5, HeaderFiles
    <3>2. old[t] = [i \in 1 .. Len(ns) |-> i]
      BY <2>3, <2>5 DEF IsIndex
    <3> QED
      BY <2>2, <3>1, <3>2 DEF SameTag
  <2>6. CASE t \in FileArrays \ {"dirindexes"}
    <3>1. HeaderEntries[t] = [i \in 1 .. Len(ns) |-> rows[i][t]]
      BY <1>1, <1>3, <2>4, <2>6, HeaderFiles
    <3>2. old[t] = [i \in 1 .. Len(ns) |-> old[t][i]]
      BY <2>3, <2>6 DEF IsIndex
    <3>3. ASSUME NEW i \in 1 .. Len(ns) PROVE rows[i][t] = old[t][i]
      <4>1. rows[i][t] = Row(NewDirIndex, ns[i], files[ns[i]])[t]
        BY <2>1, <2>6 DEF ListedPlain
      <4>2. old[t][i] = Row(NewDirIndex, e[i].name, FileOf(old, e, i))[t]
        BY <2>1, <2>6 DEF Repeats
      <4> QED
        BY <2>1, <4>1, <4>2
    <3>4. HeaderEntries[t] = old[t]
      BY <3>1, <3>2, <3>3
    <3> QED
      BY <2>2, <3>4 DEF SameTag
  <2>7. CASE t \in {"dirnames", "dirindexes"}
    BY <2>2, <2>7 DEF SameTag, GrowingTags
  <2> QED
    BY <2>5, <2>6, <2>7 DEF FileTags
<1> QED
  BY <1>2, <1>3

\* Those of the pretrans scriptlet, and the tags that are not read.
LEMMA SameOthers ==
  ASSUME RTInv, SourceInv, Completes, source # EmptyMap,
         NEW old, old = PackageHeader(source),
         NEW t, t \notin PoppedTags \/ t \in {"pretrans", "pretransprog"}
  PROVE  SameTag(old, t)
<1>1. IsHeader(old) /\ TagsOK /\ ("pretrans" \in DOMAIN old => "pretransprog" \in DOMAIN old)
  BY DEF SourceInv, IsSource, IsPackage, RTInv
<1>2. /\ DOMAIN customTags = DOMAIN old \ PoppedTags
      /\ \A x \in DOMAIN customTags : customTags[x] = old[x]
  BY DEF SourceInv, IsObjectOf, Restrict
<1>3. /\ scripts["pretrans"] = TagOr(old, "pretrans", 0)
      /\ \A k \in DOMAIN ProgTag : k # "pretrans" => scripts[k] = 0
  BY DEF SourceInv, IsObjectOf, ProgTag
<1>4. /\ "pretrans" \in DOMAIN old => old["pretrans"] \in Nat \ {0}
      /\ "pretransprog" \in DOMAIN old =>
           "pretrans" \in DOMAIN old /\ old["pretransprog"] = "/bin/sh"
  BY <1>1 DEF IsHeader
<1>5. {"pretrans", "pretransprog"} \subseteq PoppedTags
  BY TagsApart
<1>6. /\ scripts["pretrans"] > 0 <=> "pretrans" \in DOMAIN old
      /\ "pretrans" \in DOMAIN old => scripts["pretrans"] = old["pretrans"]
  BY <1>3, <1>4 DEF TagOr
<1>7. CASE t = "pretrans"
  <2>1. "pretrans" \notin DOMAIN customTags
    BY <1>2, <1>5
  <2> QED
    BY <1>1, <1>6, <1>7, <2>1, HeaderTags DEF SameTag
<1>8. CASE t = "pretransprog"
  BY <1>1, <1>4, <1>6, <1>8, HeaderTags DEF SameTag
<1>9. CASE t \notin PoppedTags
  <2>1. t \notin DOMAIN ScriptIndexes
    <3> DEFINE set == {k \in DOMAIN ProgTag : scripts[k] > 0}
    <3>1. DOMAIN ScriptIndexes = set \cup {ProgTag[k] : k \in set}
      BY DEF ScriptIndexes, AddEntries, Restrict
    <3>2. set \subseteq {"pretrans"}
      BY <1>3
    <3>3. ProgTag["pretrans"] = "pretransprog"
      BY DEF ProgTag
    <3> HIDE DEF set
    <3>4. DOMAIN ScriptIndexes \subseteq {"pretrans", "pretransprog"}
      BY <3>1, <3>2, <3>3
    <3> QED
      BY <1>5, <1>9, <3>4
  <2> QED
    BY <1>2, <1>9, <2>1, HeaderOthers DEF SameTag
<1> QED
  BY <1>7, <1>8, <1>9

\* What is kept from one package to another.
Preserved(old, new) ==
  /\ "basenames" \in DOMAIN PackageHeader(new) =>
       HeaderPaths(PackageHeader(new)) = HeaderPaths(PackageHeader(old))
  /\ NoDevices =>
       /\ DOMAIN PackageHeader(new) = DOMAIN PackageHeader(old)
       /\ \A t \in DOMAIN PackageHeader(new) \ GrowingTags :
            PackageHeader(new)[t] = PackageHeader(old)[t]
       /\ new["lead"] = old["lead"]

\* Writing a package that was read keeps it.
LEMMA WriteKeeps ==
  ASSUME RTInv, PlainInv, SourceInv, Completes, source # EmptyMap
  PROVE  Preserved(source, image')
<1> DEFINE new == HeaderEntries
           old == PackageHeader(source)
<1>1. PackageHeader(image') = new /\ image'["lead"] = LeadName(lead.name, LeadVersion)
  BY PackageNow DEF RTInv
<1>2. "basenames" \in DOMAIN new => HeaderPaths(new) = HeaderPaths(old)
  BY SamePaths, HeaderFiles DEF RTInv, FileTags, FileArrays
<1>3. ASSUME NoDevices, NEW t PROVE SameTag(old, t)
  <2>1. \/ t \in NumberTags \cup {"payloaddigest", "epoch", "changelog"} \cup RelTags
        \/ t \in FileTags
        \/ t \notin PoppedTags \/ t \in {"pretrans", "pretransprog"}
    BY TagsApart
  <2> QED
    BY <1>3, <2>1, SameNumbers, SameIndex, SameOthers
<1>4. LeadName(lead.name, LeadVersion) = source["lead"]
  <2>1. lead.name = source["lead"] /\ lead.fromBinary = TRUE
    BY DEF SourceInv, IsObjectOf
  <2> QED
    BY <2>1 DEF LeadVersion, LeadName
<1> HIDE DEF new, old
<1>5. ASSUME NoDevices
      PROVE  DOMAIN new = DOMAIN old /\ \A t \in DOMAIN new \ GrowingTags : new[t] = old[t]
  BY <1>3, <1>5 DEF SameTag, new
<1> QED
  BY <1>1, <1>2, <1>4, <1>5 DEF Preserved, old

\* What was put out of it has what the package read had.
KeptInv == source # EmptyMap /\ out = Steps => Preserved(source, image)

\* It stays so, until another package is read: that one is its own.
LEMMA KeptKept ==
  ASSUME EditsAfterRead = FALSE, RTInv, PlainInv, SourceInv, KeptInv, [RTNext]_allVars
  PROVE  KeptInv'
<1>1. SUFFICES ASSUME source' # EmptyMap, out' = Steps PROVE Preserved(source', image')
  BY DEF KeptInv
<1>2. CASE Reads
  <2>1. source' = image'
    BY <1>2 DEF Reads, ReadPackage
  <2> QED
    BY <2>1 DEF Preserved
<1>3. CASE UNCHANGED <<source, out, image>>
  BY <1>1, <1>3 DEF KeptInv
<1>4. NotRead \/ UNCHANGED allVars => UNCHANGED <<source, out, image>>
  BY DEF NotRead, allVars, readVars, vars, writeVars
<1>5. CASE Completes /\ UNCHANGED source
  BY <1>1, <1>5, WriteKeeps
<1>6. ASSUME Call \/ UNCHANGED vars PROVE UNCHANGED <<out, image>>
  BY <1>6, CallLeaves DEF vars, writeVars
<1> QED
  BY <1>1, <1>2, <1>3, <1>4, <1>5, <1>6, StepCases, WhatCompletes DEF RTInv, readVars

\* The invariant of reading and writing again.
LEMMA KeptAlways ==
  ASSUME OwnTags, NoGhosts, EditsAfterRead = FALSE
  PROVE  RTSpec => [](RTInv /\ KeptInv)
<1>1. RTInit => RepeatInv /\ SourceInv /\ KeptInv
  BY StepsDiffer DEF RTInit, Init, NewRPM, RepeatInv, SourceInv, KeptInv, EmptyMap
<1> QED
  BY <1>1, RepeatKept, SourceKept, KeptKept, PlainAlways, PTL DEF RTSpec

\* The paths of the files of a package that is read and written without a change stay
\* what they were, though the directory list that they are put together from grows.
THEOREM PathsKept ==
  ASSUME OwnTags, NoGhosts, EditsAfterRead = FALSE
  PROVE  RTSpec => []RewriteKeepsPaths
<1>1. RTInv /\ KeptInv => RewriteKeepsPaths
  BY DEF RTInv, OutShort, KeptInv, Preserved, RewriteKeepsPaths, PackageHeader
<1> QED
  BY <1>1, KeptAlways, PTL

\* Nor does anything else in its header change, nor the name in its lead: no tag that was
\* not understood is lost.
THEOREM HeaderKept ==
  ASSUME OwnTags, NoGhosts, NoDevices, EditsAfterRead = FALSE
  PROVE  RTSpec => []RewriteKeepsHeader
<1>1. RTInv /\ KeptInv => RewriteKeepsHeader
  BY DEF RTInv, OutShort, KeptInv, Preserved, RewriteKeepsHeader, PackageHeader
<1> QED
  BY <1>1, KeptAlways, PTL
=============================================================================
