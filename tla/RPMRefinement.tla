---------------------------- MODULE RPMRefinement ---------------------------
(***************************************************************************)
(* RPM implements PackageWriter: the package of a first Write is the one    *)
(* defined here from the caller's values alone, by sets and orders, where   *)
(* the code walks the files and appends to its arrays.                      *)
(***************************************************************************)
EXTENDS RPMProperties

\* What the caller can set, as one value.
Content ==
  [meta |-> meta, files |-> files, scripts |-> scripts, changelog |-> changelog,
   customTags |-> customTags, customSigs |-> customSigs, signed |-> pgpSigner,
   lead |-> lead.name]

\* What can be asked of it: the package provides itself, and its lead is its own.
IsContent(c) ==
  /\ c.lead = c.meta.name
  /\ [name |-> c.meta.name, sense |-> "=",
      version |-> FullVersion(c.meta.version, c.meta.release)] \in Range(c.meta.rels.provides)
  /\ Root \notin DOMAIN c.files

\* s has every element of S, in the order R, a set of pairs.
Lists(s, S, R) ==
  /\ \A x \in S : \E i \in DOMAIN s : s[i] = x
  /\ \A i, j \in DOMAIN s : i < j => <<s[i], s[j]>> \in R

Listing(S, R) == CHOOSE s \in [1 .. Cardinality(S) -> S] : Lists(s, S, R)

\* The order of the names.
Before(S) == {p \in S \X S : p[1] < p[2]}

FileNames(c) == Listing(DOMAIN c.files, Before(DOMAIN c.files))

\* The order in which sorted names first mention their directories.
DirsOf(N) == {SplitDir[n] : n \in N}
MentionedBefore(N) ==
  {p \in DirsOf(N) \X DirsOf(N) :
     \E n \in N : SplitDir[n] = p[1] /\ \A m \in N : SplitDir[m] = p[2] => n < m}

Directories(c) == Listing(DirsOf(DOMAIN c.files), MentionedBefore(DOMAIN c.files))

Position(x, s) == CHOOSE i \in DOMAIN s : s[i] = x

\* What a file is, and its mode in the package: a file's has the regular bit.
Kind(f) ==
  CASE "dir" \in f.mode -> "directory"
    [] f.mode = Symlink -> "symlink"
    [] OTHER -> "file"

ModeOf(f) == IF Kind(f) = "file" THEN f.mode \cup {"reg"} ELSE f.mode

\* What the file index says of the file of a name.
Described(c, n) ==
  LET f == c.files[n]
  IN  [dirindexes |-> Position(SplitDir[n], Directories(c)) - 1,
       basenames |-> SplitBase[n],
       fileowners |-> f.owner, filemtimes |-> f.time, fileflags |-> f.type,
       filesizes |-> IF Kind(f) = "directory" THEN 4096 ELSE f.body % Words,
       filedigests |-> IF Kind(f) = "file" THEN <<f.body>> ELSE << >>,
       filelinktos |-> IF Kind(f) = "symlink" THEN <<f.body>> ELSE << >>,
       filemodes |-> ModeOf(f)]

\* The column a of the file index.
Column(c, a) == [i \in DOMAIN FileNames(c) |-> Described(c, FileNames(c)[i])[a]]

\* The files that have a payload: a ghost has none, whatever its other flags.
InPayload(c) == {n \in DOMAIN c.files : "ghost" \notin c.files[n].type}

PayloadOf(c) ==
  LET names == Listing(InPayload(c), Before(InPayload(c)))
  IN  [entries |-> [i \in DOMAIN names |->
                      [name |-> names[i], mode |-> ModeOf(c.files[names[i]]),
                       time |-> c.files[names[i]].time, body |-> c.files[names[i]].body]],
       complete |-> TRUE]

\* Both maps in one; where they have a tag in common, f has it.
f ++ g == [t \in DOMAIN f \cup DOMAIN g |-> IF t \in DOMAIN f THEN f[t] ELSE g[t]]

\* The header, from the tags that win over all others to those that yield.
HeaderOf(c) ==
  LET payload == PayloadOf(c)
      sum == BodySum(payload.entries)
      set == {k \in DOMAIN ProgTag : c.scripts[k] # 0}
  IN  c.customTags
      ++ [t \in {r \in RelTags : c.meta.rels[r] # << >>} |-> c.meta.rels[t]]
      ++ [a \in IF DOMAIN c.files = {} THEN {} ELSE FileArrays |-> Column(c, a)]
      ++ [t \in IF DOMAIN c.files = {} THEN {} ELSE {"dirnames"} |-> Directories(c)]
      ++ [t \in IF DOMAIN c.files = {} THEN {} ELSE {"fileinodes"} |->
            [i \in 1 .. Cardinality(DOMAIN c.files) |-> i]]
      ++ [t \in IF c.changelog = << >> THEN {} ELSE {"changelog"} |-> c.changelog]
      ++ [k \in set |-> c.scripts[k]]
      ++ [t \in {ProgTag[k] : k \in set} |-> "/bin/sh"]
      ++ [t \in {"epoch"} \ {e \in {"epoch"} : c.meta.epoch = 0} |-> c.meta.epoch]
      ++ [name |-> c.meta.name, version |-> c.meta.version, release |-> c.meta.release,
          arch |-> c.meta.arch, sourcerpm |-> c.meta.sourcePackage,
          size |-> sum % Words, payloaddigest |-> payload]

\* The sections of the package: what is signed is the header and the payload
\* that stand beside the signatures.
PackageOf(c) ==
  LET header == [h |-> "immutable", entries |-> HeaderOf(c)]
      payload == PayloadOf(c)
      sum == BodySum(payload.entries)
  IN  [lead |-> LeadName(c.lead, FullVersion(c.meta.version, c.meta.release)),
       sig |-> [h |-> "signatures",
                entries |->
                  c.customSigs
                  ++ [t \in IF c.signed THEN {"rsa"} ELSE {} |-> header]
                  ++ [t \in IF c.signed THEN {"pgp"} ELSE {} |-> <<header, payload>>]
                  ++ [size |-> <<header, payload>>, sha256 |-> header,
                      payloadsize |-> sum % Words]],
       pad |-> 0,
       header |-> header,
       payload |-> payload]

PW == INSTANCE PackageWriter WITH
  Contents <- IsContent,
  PackageOf <- PackageOf,
  NoPackage <- EmptyMap,
  content <- Content,
  writing <- pc \in {"files"} \cup SectionSteps,
  calls <- writes,
  result <- IF res \in {"none", "ok"} THEN res ELSE "error",
  package <- IF out = Steps THEN image ELSE EmptyMap

\* Write delivers, as its result, what PackageWriter promises: the package of
\* the caller's values, in whatever order AddFile, AddCustomTag and the other
\* calls of rpm.go set them; and after an error w has not taken all the sections
\* of one (rpm.go:245 to 326).
WritesPackage == PW!Init /\ [][PW!Next]_PW!vars

\* All of that, and every call of Write returns.
ImplementsWriter == PW!Spec
=============================================================================
