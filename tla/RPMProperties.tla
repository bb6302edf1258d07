---------------------------- MODULE RPMProperties ---------------------------
(***************************************************************************)
(* What RPM should guarantee: types, the file index and the payload, what   *)
(* is in the output and what is signed, a second Write, termination.        *)
(***************************************************************************)
EXTENDS RPM

Errors == {"ErrWriteAfterClose", "cpio", "close", "lead", "signer", "io"}

RowType ==
  [dirindexes : Nat, basenames : STRING, fileowners : STRING, filemtimes : Nat,
   fileflags : SUBSET FlagBits, filesizes : Nat, filedigests : Seq(Nat),
   filelinktos : Seq(Nat), filemodes : SUBSET TypeBits]

EntryType == [name : Names, mode : SUBSET TypeBits, time : Nat, body : Nat]

\* The types of the variables.
TypeOK ==
  /\ DOMAIN files \subseteq Names
  /\ files \in [DOMAIN files -> Files]
  /\ scripts \in [DOMAIN ProgTag -> Nat]
  /\ customSigsNil \in BOOLEAN
  /\ pgpSigner \in BOOLEAN
  /\ closed \in BOOLEAN
  /\ di.l \in Seq(STRING)
  /\ rows \in Seq(RowType)
  /\ cpio \in [entries : Seq(EntryType), closed : BOOLEAN]
  /\ payloadSize \in Nat
  /\ pc \in {"idle", "panic", "files"} \cup SectionSteps
  /\ todo \subseteq DOMAIN files
  /\ res \in {"none", "ok"} \cup Errors
  /\ writes \in 0 .. MaxWrites

\* The directory list interns the names put in it (dir.go, Get).
DirIndexInv == DirIndexOK(di)

\* Row i of the file index names file n, as rpm puts a path together: the
\* directory at the row's position in dirnames, then the base name.
IsRowOf(i, n) ==
  /\ rows[i].dirindexes \in 0 .. Len(di.l) - 1
  /\ di.l[rows[i].dirindexes + 1] = SplitDir[n]
  /\ rows[i].basenames = SplitBase[n]

\* Every row of the file index names a file: its directory position is in
\* the list and leads to the directory the path was split at (writeFile,
\* which takes the position before the list grows).
RowsName == \A i \in 1 .. Len(rows) : \E n \in Names : IsRowOf(i, n)

\* Every file of the package that Write has passed has a row that names it,
\* so a header never leaves one out, on a first Write and on a retry.
IndexCoversPackage ==
  pc \in {"files"} \cup SectionSteps =>
    \A n \in DOMAIN files \ todo : \E i \in 1 .. Len(rows) : IsRowOf(i, n)

\* On a first Write the rows are in the order of the names, each file once
\* (the sort before the loop, and ErrWrongFileOrder's promise, rpm.go:42).
IndexSorted ==
  writes = 1 =>
    \A i, j \in 1 .. Len(rows) : \A m, n \in Names :
      i < j /\ IsRowOf(i, m) /\ IsRowOf(j, n) => m < n

\* The rows of files that have a payload, which a file has unless it is a ghost,
\* whatever its other flags (file_types.go:27), and the number of them up to a row.
PayloadRows == {i \in 1 .. Len(rows) : "ghost" \notin rows[i].fileflags}

Rank(i) == Cardinality({j \in PayloadRows : j <= i})

\* Row i has the name, mode, time, size and digest of the payload entry e.
DescribesEntry(i, e) ==
  /\ IsRowOf(i, e.name)
  /\ rows[i].filemodes = e.mode
  /\ rows[i].filemtimes = e.time
  /\ "dir" \in e.mode \/ rows[i].filesizes = e.body % Words
  /\ rows[i].filedigests \in {<< >>, <<e.body>>}

\* The payload and the file index tell of the same files: the k-th payload
\* entry belongs to the k-th row that is no ghost, with its mode, time, size
\* and digest.  On a first Write no such row is without its entry (writeFile
\* fills the arrays before it knows that the payload takes the file).
PayloadFollowsIndex ==
  /\ Len(cpio.entries) <= Cardinality(PayloadRows)
  /\ writes <= 1 => Len(cpio.entries) = Cardinality(PayloadRows)
  /\ \A k \in 1 .. Len(cpio.entries) : \A i \in PayloadRows :
       Rank(i) = k => DescribesEntry(i, cpio.entries[k])

\* Write succeeds exactly when w has every section, in order and untorn;
\* an error leaves a proper prefix, and possibly a torn section behind it.
OkIffComplete ==
  /\ \A k \in 1 .. 5 : pc = Steps[k] => out = SubSeq(Steps, 1, k - 1)
  /\ pc = "idle" => (res = "ok" <=> out = Steps)

\* In a complete output every digest and signature is of what was written:
\* the payload digest in the header, and the signatures' of the header and
\* of the header with the payload (writeSignatures runs before the writes).
\* The caller's own tags and signatures are not Write's to compute.
SignedIsWritten ==
  res = "ok" =>
    LET s == image["sig"].entries
        h == image["header"]
        p == image["payload"]
        computed(t) == t \in DOMAIN s \ DOMAIN customSigs
    IN  /\ p.complete
        /\ "payloaddigest" \notin DOMAIN customTags => h.entries["payloaddigest"] = p
        /\ {"sha256", "size"} \subseteq DOMAIN s
        /\ \A t \in {"sha256", "rsa"} : computed(t) => s[t] = h
        /\ \A t \in {"size", "pgp"} : computed(t) => s[t] = <<h, p>>

\* The number of body bytes in a sequence of payload entries.
BodySum(entries) ==
  LET sum[k \in 0 .. Len(entries)] == IF k = 0 THEN 0 ELSE sum[k - 1] + entries[k].body
  IN  sum[Len(entries)]

\* The size tags of the header and of the signatures, where the caller has not
\* set them, are the number of body bytes in the payload, modulo 2^32 (the
\* int32 conversions of rpm.go:337 and 409): a large package has wrong ones,
\* but no small one does.
SizeIsPayload ==
  res = "ok" =>
    LET size == BodySum(image["payload"].entries) % Words
    IN  /\ "size" \notin DOMAIN customTags => image["header"].entries["size"] = size
        /\ "payloadsize" \notin DOMAIN customSigs =>
             image["sig"].entries["payloadsize"] = size

\* What the caller set with AddCustomTag and AddCustomSig is in the output
\* with its value, whatever Write computed for the tag (rpm.go:288).
CustomWins ==
  /\ pc = "payload" =>
       Restrict(image["header"].entries, DOMAIN customTags) = customTags
  /\ pc \in {"pad", "header", "payload"} =>
       Restrict(image["sig"].entries, DOMAIN customSigs) = customSigs

\* A later Write gets past its files only if they are all ghosts: with a
\* payload file, it fails, and cannot succeed however often it is retried.
RewritesOnlyGhosts ==
  writes > 1 /\ pc \in SectionSteps => \A n \in DOMAIN files : files[n].type = {"ghost"}

\* No package fails to be written because of how long its name is: computeName
\* cuts a full name that is too long for the lead, and header_test.go, with
\* names of 62 and 63 bytes, expects an array of what it returns.
LeadNeverFails == res # "lead"

\* "Write closes the rpm" (rpm.go:244), and ErrWriteAfterClose "is returned
\* when a user calls Write() on a closed rpm" (rpm.go:40): every Write but the
\* first returns it.
ClosedAfterWrite ==
  [][pc # "idle" /\ pc' = "idle" /\ writes > 1 => res' = "ErrWriteAfterClose"]_vars
=============================================================================
