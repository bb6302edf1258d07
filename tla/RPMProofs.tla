------------------------------ MODULE RPMProofs -----------------------------
(***************************************************************************)
(* Theorems about RPM, for every value of its constants.                    *)
(***************************************************************************)
EXTENDS RPMProperties, Lemmas, FiniteSetTheorems, SequenceTheorems, TLAPS

-----------------------------------------------------------------------------
(* The directory index.                                                     *)

\* An empty index is consistent.
LEMMA NewDirIndexOK == DirIndexOK(NewDirIndex)
BY DEF DirIndexOK, NewDirIndex, EmptyMap

\* The map of an index leads into its list.  That is all there is to say of an
\* index of which the list was read from a package: its map was not.
MapLeads(x) ==
  \A d \in DOMAIN x.m : x.m[d] \in 0 .. Len(x.l) - 1 /\ x.l[x.m[d] + 1] = d

\* Get gives a position at which, afterwards, the list holds the directory;
\* the positions it gave before keep theirs.
LEMMA DirAddLeads ==
  ASSUME NEW x, NEW d \in STRING, MapLeads(x), x.l \in Seq(STRING),
         x = [l |-> x.l, m |-> x.m]
  PROVE  /\ MapLeads(DirAdd(x, d))
         /\ DirAdd(x, d).l \in Seq(STRING)
         /\ DirAdd(x, d) = [l |-> DirAdd(x, d).l, m |-> DirAdd(x, d).m]
         /\ DirPos(x, d) \in 0 .. Len(DirAdd(x, d).l) - 1
         /\ DirAdd(x, d).l[DirPos(x, d) + 1] = d
         /\ Len(x.l) <= Len(DirAdd(x, d).l)
         /\ \A i \in 1 .. Len(x.l) : DirAdd(x, d).l[i] = x.l[i]
<1>1. CASE d \in DOMAIN x.m
  BY <1>1 DEF MapLeads, DirAdd, DirPos
<1>2. CASE d \notin DOMAIN x.m
  <2> DEFINE y == DirAdd(x, d)
  <2>1. /\ y.l = Append(x.l, d)
        /\ y.m = Put(x.m, d, Len(x.l))
        /\ DirPos(x, d) = Len(x.l)
    BY <1>2 DEF DirAdd, DirPos
  <2>2. /\ DOMAIN y.m = {d} \cup DOMAIN x.m
        /\ y.m[d] = Len(x.l)
        /\ \A e \in DOMAIN x.m : y.m[e] = x.m[e]
    BY <1>2, <2>1 DEF Put
  <2>3. /\ Len(y.l) = Len(x.l) + 1
        /\ Len(x.l) \in Nat
        /\ y.l[Len(x.l) + 1] = d
        /\ \A i \in 1 .. Len(x.l) : y.l[i] = x.l[i]
        /\ y.l \in Seq(STRING)
    BY <2>1
  <2>5. y = [l |-> y.l, m |-> y.m]
    BY <1>2 DEF DirAdd, y
  <2> HIDE DEF y
  <2>4. MapLeads(y)
    <3>1. SUFFICES ASSUME NEW e \in DOMAIN y.m
                   PROVE  y.m[e] \in 0 .. Len(y.l) - 1 /\ y.l[y.m[e] + 1] = e
      BY DEF MapLeads
    <3>2. CASE e = d
      BY <3>2, <2>2, <2>3
    <3>3. CASE e \in DOMAIN x.m
      <4>1. x.m[e] \in 0 .. Len(x.l) - 1 /\ x.l[x.m[e] + 1] = e
        BY <3>3 DEF MapLeads
      <4>2. y.m[e] = x.m[e]
        BY <3>3, <2>2
      <4> QED
        BY <4>1, <4>2, <2>3
    <3> QED
      BY <3>2, <3>3, <2>2
  <2> QED
    BY <2>1, <2>3, <2>4, <2>5 DEF y
<1> QED
  BY <1>1, <1>2

\* With a map that is the inverse of the list nothing is listed twice.
LEMMA DirAddOK ==
  ASSUME NEW x, NEW d \in STRING, DirIndexOK(x), x.l \in Seq(STRING),
         x = [l |-> x.l, m |-> x.m]
  PROVE  DirIndexOK(DirAdd(x, d))
<1> DEFINE y == DirAdd(x, d)
<1>1. CASE d \in DOMAIN x.m
  BY <1>1 DEF DirAdd
<1>2. CASE d \notin DOMAIN x.m
  <2>1. MapLeads(y)
    BY DirAddLeads DEF DirIndexOK, MapLeads
  <2>2. y.l = Append(x.l, d) /\ y.m = Put(x.m, d, Len(x.l))
    BY <1>2 DEF DirAdd
  <2>3. /\ DOMAIN y.m = {d} \cup DOMAIN x.m
        /\ y.m[d] = Len(x.l)
        /\ \A e \in DOMAIN x.m : e # d => y.m[e] = x.m[e]
    BY <2>2 DEF Put
  <2>4. /\ Len(y.l) = Len(x.l) + 1 /\ Len(x.l) \in Nat /\ y.l[Len(x.l) + 1] = d
        /\ \A i \in 1 .. Len(x.l) : y.l[i] = x.l[i]
    BY <2>2
  <2> HIDE DEF y
  <2>5. ASSUME NEW i \in 1 .. Len(y.l) PROVE y.l[i] \in DOMAIN y.m /\ y.m[y.l[i]] = i - 1
    <3>1. CASE i = Len(x.l) + 1
      BY <2>3, <2>4, <3>1
    <3>2. CASE i \in 1 .. Len(x.l)
      <4>1. x.l[i] \in DOMAIN x.m /\ x.m[x.l[i]] = i - 1 /\ y.l[i] = x.l[i]
        BY <2>4, <3>2 DEF DirIndexOK
      <4> QED
        BY <1>2, <2>3, <4>1
    <3> QED
      BY <2>4, <3>1, <3>2
  <2> QED
    BY <2>1, <2>5 DEF DirIndexOK, MapLeads, y
<1> QED
  BY <1>1, <1>2

-----------------------------------------------------------------------------
(* The inductive invariant.                                                 *)

\* A file as the code treats it: one the caller adds, or one that was read.
FileType == [mode : SUBSET TypeBits, type : SUBSET FlagBits, owner : STRING, time : Nat,
             body : Nat]

\* What nearly every proof starts from.  It holds of an RPM object that was
\* read from a package as well as of a new one.
ObjectOK ==
  /\ DOMAIN files \subseteq Names
  /\ files \in [DOMAIN files -> FileType]
  /\ scripts \in [DOMAIN ProgTag -> Nat]
  /\ di.l \in Seq(STRING) /\ MapLeads(di) /\ di = [l |-> di.l, m |-> di.m]
  /\ rows \in Seq(RowType)
  /\ cpio \in [entries : Seq(EntryType), closed : BOOLEAN]
  /\ payloadSize \in Nat
  /\ pc \in {"idle", "panic", "files"} \cup SectionSteps
  /\ todo \subseteq DOMAIN files
  /\ pc # "files" => todo = {}
  /\ writes \in 0 .. MaxWrites

\* What a new object has besides, and keeps.
PathOK == /\ TypeOK
          /\ DirIndexOK(di)
          /\ ObjectOK

\* A row that names a file still does when the directory list has grown and
\* a row was added behind it.
LEMMA RowStays ==
  ASSUME NEW i \in 1 .. Len(rows), NEW n \in Names, IsRowOf(i, n), ObjectOK, ObjectOK',
         NEW row, rows' = Append(rows, row),
         Len(di.l) <= Len(di'.l), \A j \in 1 .. Len(di.l) : di'.l[j] = di.l[j]
  PROVE  i \in 1 .. Len(rows') /\ IsRowOf(i, n)'
<1>1. rows'[i] = rows[i] /\ Len(rows') = Len(rows) + 1
  BY DEF ObjectOK
<1>2. Len(di.l) \in Nat /\ Len(di'.l) \in Nat
  BY DEF ObjectOK
<1>3. rows[i].dirindexes \in 0 .. Len(di'.l) - 1
  BY <1>2 DEF IsRowOf
<1>4. di'.l[rows[i].dirindexes + 1] = di.l[rows[i].dirindexes + 1]
  <2>1. rows[i].dirindexes + 1 \in 1 .. Len(di.l)
    BY <1>2 DEF IsRowOf
  <2> QED
    BY <2>1
<1>5. Len(rows) \in Nat
  BY DEF ObjectOK
<1> QED
  BY <1>1, <1>3, <1>4, <1>5 DEF IsRowOf

\* The initial state.
LEMMA InitPath == Init => PathOK
<1>1. SUFFICES ASSUME NEW m \in Metas, NewRPM(m), Init PROVE PathOK
  BY DEF Init
<1>2. DOMAIN files = {} /\ files \in [DOMAIN files -> Files] /\ files \in [DOMAIN files -> FileType]
  BY <1>1 DEF NewRPM, EmptyMap
<1>3. scripts \in [DOMAIN ProgTag -> Nat]
  BY <1>1 DEF NewRPM
<1>4. /\ rows = << >> /\ cpio = [entries |-> << >>, closed |-> FALSE]
      /\ di = [l |-> << >>, m |-> EmptyMap] /\ payloadSize = 0
  BY <1>1 DEF NewRPM, NewDirIndex
<1>5. /\ rows \in Seq(RowType) /\ di.l \in Seq(STRING) /\ << >> \in Seq(EntryType)
      /\ di = [l |-> di.l, m |-> di.m] /\ DOMAIN di.m = {}
  BY <1>4 DEF EmptyMap
<1>6. /\ customSigsNil \in BOOLEAN /\ pgpSigner \in BOOLEAN /\ closed \in BOOLEAN
      /\ pc = "idle" /\ todo = {} /\ res = "none" /\ writes = 0
  BY <1>1 DEF NewRPM, Init
<1>7. TypeOK
  BY <1>2, <1>3, <1>4, <1>5, <1>6, CallsAssumption DEF TypeOK
<1>8. ObjectOK
  BY <1>2, <1>3, <1>4, <1>5, <1>6, CallsAssumption DEF ObjectOK, MapLeads
<1>9. DirIndexOK(di)
  BY <1>1, NewDirIndexOK DEF NewRPM
<1> QED
  BY <1>7, <1>8, <1>9 DEF PathOK

\* The row writeFile appends has the type of a row.
LEMMA RowTyped ==
  ASSUME NEW n \in Names, NEW f \in FileType, DirPos(di, SplitDir[n]) \in Nat
  PROVE  Row(di, n, f) \in RowType /\ CpioEntry(n, f) \in EntryType /\ f.body \in Nat
<1>1. /\ f.mode \in SUBSET TypeBits /\ f.type \in SUBSET FlagBits
      /\ f.owner \in STRING /\ f.time \in Nat /\ f.body \in Nat
  BY DEF FileType
<1>2. EntryMode(f) \in SUBSET TypeBits
  BY <1>1 DEF EntryMode, TypeBits
<1>3. SplitBase[n] \in STRING
  BY NamesAssumption
<1>4. /\ (IF IsDir(f) THEN 4096 ELSE f.body % Words) \in Nat
      /\ (IF IsRegular(f) THEN <<f.body>> ELSE << >>) \in Seq(Nat)
      /\ (IF IsSymlink(f) /\ ~IsDir(f) THEN <<f.body>> ELSE << >>) \in Seq(Nat)
  <2>1. f.body % Words \in Nat
    BY <1>1, CallsAssumption
  <2> QED
    BY <1>1, <2>1
<1> QED
  BY <1>1, <1>2, <1>3, <1>4 DEF Row, RowType, CpioEntry, EntryType

\* A file of the package is one of its type.
LEMMA FileTyped == ObjectOK => \A n \in DOMAIN files : n \in Names /\ files[n] \in FileType
BY DEF ObjectOK

\* The calls of the caller keep ObjectOK.
LEMMA CallObject == ObjectOK /\ Call => ObjectOK'
<1> SUFFICES ASSUME ObjectOK, Call PROVE ObjectOK'
  OBVIOUS
<1>1. ASSUME NEW n \in Names, NEW f \in Files, AddFile(n, f) PROVE ObjectOK'
  <2>1. f \in FileType
    BY FilesAssumption DEF FileType
  <2>2. DOMAIN files' \subseteq Names /\ files' \in [DOMAIN files' -> FileType]
    BY <1>1, <2>1 DEF AddFile, ObjectOK, Put
  <2>3. DOMAIN files \subseteq DOMAIN files'
    BY <1>1 DEF AddFile, Put
  <2> QED
    BY <1>1, <2>2, <2>3 DEF AddFile, Calling, payloadVars, writeVars, ObjectOK
<1>2. ASSUME NEW a, AllowListDirs(a) PROVE ObjectOK'
  <2>1. DOMAIN files' \subseteq Names /\ files' \in [DOMAIN files' -> FileType]
    BY <1>2 DEF AllowListDirs, ObjectOK, Restrict
  <2> QED
    BY <1>2, <2>1 DEF AllowListDirs, Calling, Idle, payloadVars, writeVars, ObjectOK
<1>3. ASSUME NEW k \in ScriptKinds, NEW t \in Texts, AddScript(k, t) PROVE ObjectOK'
  <2>1. scripts' \in [DOMAIN ProgTag -> Nat]
    BY <1>3, CallsAssumption DEF AddScript, ObjectOK
  <2> QED
    BY <1>3, <2>1 DEF AddScript, Calling, payloadVars, writeVars, ObjectOK
<1>4. ASSUME UNCHANGED <<files, scripts, payloadVars, todo, writes>>,
             pc = "idle", pc' \in {"idle", "panic"}
      PROVE  ObjectOK'
  BY <1>4 DEF payloadVars, ObjectOK
<1>5. ASSUME NEW c, SetChangelog(c) PROVE ObjectOK'
  BY <1>4, <1>5 DEF SetChangelog, Calling, Idle, writeVars
<1>6. ASSUME NEW t, NEW e, AddCustomTag(t, e) PROVE ObjectOK'
  BY <1>4, <1>6 DEF AddCustomTag, Idle, writeVars
<1>7. ASSUME NEW t, NEW e, AddCustomSig(t, e) PROVE ObjectOK'
  BY <1>4, <1>7 DEF AddCustomSig, Calling, Idle, Panic, writeVars
<1>8. ASSUME NEW t, NEW e, SetSignature(t, e) PROVE ObjectOK'
  BY <1>4, <1>8 DEF SetSignature, Calling, Idle, Panic, writeVars, apiVars
<1>9. ASSUME NEW s, SetPGPSigner(s) PROVE ObjectOK'
  BY <1>4, <1>9 DEF SetPGPSigner, Calling, Idle, writeVars
<1>10. ASSUME ClearSignatures PROVE ObjectOK'
  BY <1>4, <1>10 DEF ClearSignatures, Calling, Idle, writeVars, apiVars
<1> QED
  BY <1>1, <1>2, <1>3, <1>5, <1>6, <1>7, <1>8, <1>9, <1>10 DEF Call

\* So does writing a file.
LEMMA FileObject == ASSUME ObjectOK, NEW n \in Names, WriteFile(n) PROVE ObjectOK'
<1> DEFINE f == files[n]
<1>1. n \in DOMAIN files /\ f \in FileType
  BY DEF WriteFile, IsNext, ObjectOK
<1>2. SplitDir[n] \in STRING
  BY NamesAssumption
<1>3. /\ di' = DirAdd(di, SplitDir[n])
      /\ rows' = Append(rows, Row(di, n, f))
      /\ UNCHANGED <<apiVars, closed>>
  BY DEF WriteFile
<1>4. /\ MapLeads(di') /\ di'.l \in Seq(STRING) /\ di' = [l |-> di'.l, m |-> di'.m]
      /\ DirPos(di, SplitDir[n]) \in Nat
  <2> DEFINE y == DirAdd(di, SplitDir[n])
  <2> HIDE DEF y
  <2>1. di.l \in Seq(STRING) /\ MapLeads(di) /\ di = [l |-> di.l, m |-> di.m]
    BY DEF ObjectOK
  <2>2. /\ MapLeads(y) /\ y.l \in Seq(STRING) /\ y = [l |-> y.l, m |-> y.m]
        /\ DirPos(di, SplitDir[n]) \in 0 .. Len(y.l) - 1
    BY <1>2, <2>1, DirAddLeads DEF y
  <2>3. Len(y.l) \in Nat
    BY <2>2
  <2> QED
    BY <1>3, <2>2, <2>3 DEF y
<1>5. rows' \in Seq(RowType)
  BY <1>1, <1>3, <1>4, RowTyped DEF ObjectOK
<1>6. CASE CpioWrite(n, f) /\ todo' = todo \ {n} /\ UNCHANGED <<pc, res, hdr, writes>>
  <2> DEFINE e == CpioEntry(n, f)
  <2>1. e \in EntryType
    BY <1>1, <1>4, RowTyped
  <2> HIDE DEF e
  <2>2. cpio.entries \in Seq(EntryType) /\ cpio = [entries |-> cpio.entries, closed |-> cpio.closed]
    BY DEF ObjectOK
  <2>3. cpio' = [cpio EXCEPT !.entries = Append(@, e)] /\ cpio.closed = FALSE
    BY <1>6 DEF CpioWrite, e, ObjectOK
  <2>4. cpio' = [entries |-> Append(cpio.entries, e), closed |-> FALSE]
    BY <2>2, <2>3
  <2>5. Append(cpio.entries, e) \in Seq(EntryType)
    BY <2>1, <2>2
  <2>6. cpio' \in [entries : Seq(EntryType), closed : BOOLEAN]
    BY <2>4, <2>5
  <2>7. payloadSize' \in Nat
    BY <1>1, <1>4, <1>6, RowTyped DEF CpioWrite, ObjectOK
  <2>8. todo' \subseteq DOMAIN files'
    BY <1>3, <1>6 DEF ObjectOK, apiVars
  <2> QED
    BY <1>3, <1>4, <1>5, <1>6, <2>6, <2>7, <2>8 DEF apiVars, ObjectOK, WriteFile
<1>7. CASE todo' = todo \ {n} /\ UNCHANGED <<cpio, payloadSize, pc, res, hdr, writes>>
  BY <1>3, <1>4, <1>5, <1>7 DEF WriteFile, apiVars, ObjectOK
<1>8. CASE Return("cpio") /\ UNCHANGED <<cpio, payloadSize>>
  BY <1>3, <1>4, <1>5, <1>8 DEF Return, apiVars, ObjectOK
<1> QED
  BY <1>6, <1>7, <1>8 DEF WriteFile

\* ... and every other step.
LEMMA NextObject == ObjectOK /\ [Next]_vars => ObjectOK'
<1> SUFFICES ASSUME ObjectOK, [Next]_vars PROVE ObjectOK'
  OBVIOUS
<1>1. CASE WriteStart
  <2>1. writes' \in 0 .. MaxWrites
    BY <1>1, CallsAssumption DEF WriteStart, Idle, ObjectOK
  <2> QED
    BY <1>1, <2>1 DEF WriteStart, Idle, payloadVars, apiVars, ObjectOK
<1> USE DEF payloadVars, apiVars, ObjectOK, SectionSteps, Goto, Return, Take, Refuse
<1>3. CASE ClosePayload
  BY <1>3 DEF ClosePayload
<1>4. CASE WriteLead
  BY <1>4 DEF WriteLead
<1>5. CASE WriteSignatures
  BY <1>5 DEF WriteSignatures
<1>6. CASE WritePad
  BY <1>6 DEF WritePad
<1>7. CASE WriteHeader
  BY <1>7 DEF WriteHeader
<1>8. CASE WritePayload
  BY <1>8 DEF WritePayload
<1>9. CASE UNCHANGED vars
  BY <1>9 DEF vars, writeVars
<1> QED
  BY <1>1, <1>3, <1>4, <1>5, <1>6, <1>7, <1>8, <1>9, CallObject, FileObject DEF Next, WriteStep

\* The calls of the caller keep what only a new object has.
LEMMA CallPath == PathOK /\ Call => PathOK'
<1> SUFFICES ASSUME PathOK, Call, ObjectOK' PROVE PathOK'
  BY NextObject DEF PathOK, Next
<1> USE DEF PathOK, ObjectOK
<1>1. ASSUME NEW n \in Names, NEW f \in Files, AddFile(n, f) PROVE PathOK'
  <2>1. files' \in [DOMAIN files' -> Files]
    BY <1>1 DEF AddFile, TypeOK, Put
  <2> QED
    BY <1>1, <2>1 DEF AddFile, Calling, payloadVars, writeVars, TypeOK
<1>2. ASSUME NEW a, AllowListDirs(a) PROVE PathOK'
  <2>1. files' \in [DOMAIN files' -> Files]
    BY <1>2 DEF AllowListDirs, TypeOK, Restrict
  <2> QED
    BY <1>2, <2>1 DEF AllowListDirs, Calling, payloadVars, writeVars, TypeOK
<1>3. ASSUME UNCHANGED <<files, di, closed, res>>,
             customSigsNil' = customSigsNil, pgpSigner' \in BOOLEAN
      PROVE  PathOK'
  BY <1>3 DEF TypeOK
<1>4. ASSUME NEW k, NEW t, AddScript(k, t) PROVE PathOK'
  BY <1>3, <1>4 DEF AddScript, Calling, payloadVars, writeVars, TypeOK
<1>5. ASSUME NEW c, SetChangelog(c) PROVE PathOK'
  BY <1>3, <1>5 DEF SetChangelog, Calling, payloadVars, writeVars, TypeOK
<1>6. ASSUME NEW t, NEW e, AddCustomTag(t, e) PROVE PathOK'
  BY <1>3, <1>6 DEF AddCustomTag, payloadVars, writeVars, TypeOK
<1>7. ASSUME NEW t, NEW e, AddCustomSig(t, e) PROVE PathOK'
  BY <1>3, <1>7 DEF AddCustomSig, Calling, Panic, payloadVars, writeVars, TypeOK
<1>8. ASSUME NEW t, NEW e, SetSignature(t, e) PROVE PathOK'
  BY <1>3, <1>8 DEF SetSignature, Calling, Panic, payloadVars, writeVars, apiVars, TypeOK
<1>9. ASSUME NEW s \in Signers, SetPGPSigner(s) PROVE PathOK'
  BY <1>3, <1>9, CallsAssumption DEF SetPGPSigner, Calling, payloadVars, writeVars, TypeOK
<1>10. ASSUME ClearSignatures PROVE PathOK'
  BY <1>3, <1>10 DEF ClearSignatures, Calling, payloadVars, writeVars, apiVars, TypeOK
<1> QED
  BY <1>1, <1>2, <1>4, <1>5, <1>6, <1>7, <1>8, <1>9, <1>10 DEF Call

\* So does Write.
LEMMA WritePath == PathOK /\ (WriteStart \/ WriteStep) => PathOK'
<1> SUFFICES ASSUME PathOK, WriteStart \/ WriteStep, ObjectOK' PROVE PathOK'
  BY NextObject DEF PathOK, Next
<1>1. ASSUME UNCHANGED <<files, customSigsNil, pgpSigner, closed>>, DirIndexOK(di)',
             res' = res \/ res' \in {"none", "ok"} \cup Errors
      PROVE  PathOK'
  BY <1>1 DEF PathOK, ObjectOK, TypeOK
<1>2. CASE WriteStart
  BY <1>1, <1>2 DEF WriteStart, payloadVars, apiVars, Errors, PathOK
<1>3. ASSUME NEW n \in Names, WriteFile(n) PROVE PathOK'
  <2>1. DirIndexOK(DirAdd(di, SplitDir[n]))
    BY NamesAssumption, DirAddOK DEF PathOK, ObjectOK
  <2> QED
    BY <1>1, <1>3, <2>1 DEF WriteFile, Return, apiVars, Errors
<1> USE DEF payloadVars, apiVars, PathOK, Errors, Goto, Return, Take, Refuse
<1>4. CASE ClosePayload
  BY <1>1, <1>4 DEF ClosePayload
<1>5. CASE WriteLead
  BY <1>1, <1>5 DEF WriteLead
<1>6. CASE WriteSignatures
  BY <1>1, <1>6 DEF WriteSignatures
<1>7. CASE WritePad
  BY <1>1, <1>7 DEF WritePad
<1>8. CASE WriteHeader
  BY <1>1, <1>8 DEF WriteHeader
<1>9. CASE WritePayload
  BY <1>1, <1>9 DEF WritePayload
<1> QED
  BY <1>2, <1>3, <1>4, <1>5, <1>6, <1>7, <1>8, <1>9 DEF WriteStep

\* PathOK holds in every reachable state.
THEOREM PathInv == Spec => []PathOK
<1>1. PathOK /\ UNCHANGED vars => PathOK'
  BY NextObject DEF PathOK, TypeOK, vars, apiVars, payloadVars, writeVars
<1> QED
  BY <1>1, InitPath, CallPath, WritePath, PTL DEF Spec, Next

\* ... and with it ObjectOK.
LEMMA ObjectInv == Spec => []ObjectOK
BY PathInv, PTL DEF PathOK

\* The variables keep their types, so every call and every step of Write is
\* defined where it is taken.
THEOREM TypeCorrect == Spec => []TypeOK
BY PathInv, PTL DEF PathOK

\* The list and the map of the directory index stay inverse to each other.
THEOREM DirIndexCorrect == Spec => []DirIndexInv
BY PathInv, PTL DEF PathOK, DirIndexInv

-----------------------------------------------------------------------------
(* The file index covers the package.                                       *)

\* The two properties of the rows that are proved along the same steps.
RowsInv == RowsName /\ IndexCoversPackage

\* The row appended for a file names it.
LEMMA NewRowNames ==
  ASSUME ObjectOK, ObjectOK', NEW n \in Names, WriteFile(n)
  PROVE  Len(rows') = Len(rows) + 1 /\ IsRowOf(Len(rows), n)'
<1>1. /\ di' = DirAdd(di, SplitDir[n])
      /\ rows' = Append(rows, Row(di, n, files[n]))
  BY DEF WriteFile
<1>2. SplitDir[n] \in STRING
  BY NamesAssumption
<1>3. /\ DirPos(di, SplitDir[n]) \in 0 .. Len(di'.l) - 1
      /\ di'.l[DirPos(di, SplitDir[n]) + 1] = SplitDir[n]
  BY <1>1, <1>2, DirAddLeads DEF ObjectOK
<1>4. Len(rows') = Len(rows) + 1 /\ rows'[Len(rows')] = Row(di, n, files[n])
  BY <1>1 DEF ObjectOK
<1>5. /\ Row(di, n, files[n]).dirindexes = DirPos(di, SplitDir[n])
      /\ Row(di, n, files[n]).basenames = SplitBase[n]
  BY DEF Row
<1> QED
  BY <1>3, <1>4, <1>5 DEF IsRowOf

\* The rows there were before a file is written name what they named.
LEMMA OldRowsName ==
  ASSUME ObjectOK, ObjectOK', NEW n \in Names, WriteFile(n),
         NEW i \in 1 .. Len(rows), NEW m \in Names, IsRowOf(i, m)
  PROVE  i \in 1 .. Len(rows') /\ IsRowOf(i, m)'
<1>1. /\ di' = DirAdd(di, SplitDir[n])
      /\ rows' = Append(rows, Row(di, n, files[n]))
  BY DEF WriteFile
<1>2. SplitDir[n] \in STRING
  BY NamesAssumption
<1>3. Len(di.l) <= Len(di'.l) /\ \A j \in 1 .. Len(di.l) : di'.l[j] = di.l[j]
  BY <1>1, <1>2, DirAddLeads DEF ObjectOK
<1> QED
  BY <1>1, <1>3, RowStays DEF ObjectOK

\* A step that leaves the payload alone keeps RowsInv, if it leaves the files
\* alone while Write runs.
LEMMA StillCovers ==
  ASSUME RowsInv, UNCHANGED <<di, rows>>,
         pc' \in {"files"} \cup SectionSteps =>
           \/ todo' = DOMAIN files'
           \/ /\ pc \in {"files"} \cup SectionSteps
              /\ UNCHANGED <<files, todo>>
  PROVE  RowsInv'
BY DEF RowsInv, RowsName, IndexCoversPackage, IsRowOf

\* Every step keeps them.
LEMMA NextRows == ObjectOK /\ ObjectOK' /\ RowsInv /\ [Next]_vars => RowsInv'
<1> SUFFICES ASSUME ObjectOK, ObjectOK', RowsInv, [Next]_vars PROVE RowsInv'
  OBVIOUS
<1>1. CASE Call
  <2>1. pc' \in {"idle", "panic"} /\ UNCHANGED <<di, rows>>
    BY <1>1 DEF Call, AddFile, AllowListDirs, AddScript, SetChangelog, AddCustomTag,
       AddCustomSig, SetPGPSigner, ClearSignatures, SetSignature, Calling, Idle,
       Panic, payloadVars, writeVars
  <2> QED
    BY <2>1, StillCovers DEF SectionSteps
<1>2. CASE WriteStart
  BY <1>2, StillCovers DEF WriteStart, payloadVars, apiVars, SectionSteps
<1>3. ASSUME NEW n \in Names, WriteFile(n) PROVE RowsInv'
  <2>1. RowsName'
    <3>1. SUFFICES ASSUME NEW i \in 1 .. Len(rows')
                   PROVE  \E m \in Names : IsRowOf(i, m)'
      BY DEF RowsName, IsRowOf
    <3>2. CASE i = Len(rows) + 1
      BY <1>3, <3>2, NewRowNames
    <3>3. CASE i \in 1 .. Len(rows)
      BY <1>3, <3>3, OldRowsName DEF RowsInv, RowsName
    <3>4. Len(rows') = Len(rows) + 1 /\ Len(rows) \in Nat
      BY <1>3, NewRowNames DEF ObjectOK
    <3> QED
      BY <3>2, <3>3, <3>4
  <2>2. CASE pc' = "files"
    <3>1. /\ todo' = todo \ {n} /\ pc = "files" /\ UNCHANGED files
      BY <1>3, <2>2 DEF WriteFile, Return, apiVars
    <3>2. SUFFICES ASSUME NEW m \in DOMAIN files \ todo'
                   PROVE  \E i \in 1 .. Len(rows') : IsRowOf(i, m)'
      BY <2>1, <3>1 DEF RowsInv, IndexCoversPackage, IsRowOf
    <3>3. CASE m = n
      <4>1. Len(rows') = Len(rows) + 1 /\ IsRowOf(Len(rows), n)'
        BY <1>3, NewRowNames
      <4>2. Len(rows') \in 1 .. Len(rows')
        BY <4>1 DEF ObjectOK
      <4>3. IsRowOf(Len(rows), m)'
        BY <3>3, <4>1
      <4> QED
        BY <4>2, <4>3
    <3>4. CASE m # n
      <4>1. m \in Names /\ m \in DOMAIN files \ todo
        BY <3>1, <3>4 DEF ObjectOK
      <4>2. PICK i \in 1 .. Len(rows) : IsRowOf(i, m)
        BY <3>1, <4>1 DEF RowsInv, IndexCoversPackage
      <4> QED
        BY <1>3, <4>1, <4>2, OldRowsName
    <3> QED
      BY <3>3, <3>4
  <2>3. CASE pc' # "files"
    <3>1. pc' = "idle"
      BY <1>3, <2>3 DEF WriteFile, Return
    <3> QED
      BY <2>1, <3>1 DEF RowsInv, IndexCoversPackage, SectionSteps
  <2> QED
    BY <2>2, <2>3
<1>4. CASE ClosePayload
  BY <1>4, StillCovers DEF ClosePayload, Return, Goto, apiVars, SectionSteps
<1> USE DEF payloadVars, apiVars, SectionSteps, Goto, Return, Take, Refuse
<1>5. CASE WriteLead
  BY <1>5, StillCovers DEF WriteLead
<1>6. CASE WriteSignatures
  BY <1>6, StillCovers DEF WriteSignatures
<1>7. CASE WritePad
  BY <1>7, StillCovers DEF WritePad
<1>8. CASE WriteHeader
  BY <1>8, StillCovers DEF WriteHeader
<1>9. CASE WritePayload
  BY <1>9, StillCovers DEF WritePayload
<1>10. CASE UNCHANGED vars
  BY <1>10, StillCovers DEF vars, writeVars
<1> QED
  BY <1>1, <1>2, <1>3, <1>4, <1>5, <1>6, <1>7, <1>8, <1>9, <1>10 DEF Next, WriteStep

\* Whenever Write is past a file, on a first call or on a retry, the file
\* index has a row whose directory and base name are the file's.
THEOREM IndexCovers == Spec => [](RowsName /\ IndexCoversPackage)
<1>1. Init => RowsInv
  <2>1. Init => rows = << >> /\ pc = "idle"
    BY DEF Init, NewRPM
  <2> QED
    BY <2>1 DEF RowsInv, RowsName, IndexCoversPackage, SectionSteps
<1>2. RowsInv => RowsName /\ IndexCoversPackage
  BY DEF RowsInv
<1> QED
  BY <1>1, <1>2, ObjectInv, NextRows, PTL DEF Spec

\* Every row of the file index names a file.
THEOREM RowsNameCorrect == Spec => []RowsName
BY IndexCovers, PTL DEF RowsInv

-----------------------------------------------------------------------------
(* The order of the file index.                                             *)

\* Write runs only after it was called.
Called == pc \in {"files"} \cup SectionSteps => writes > 0

\* ... which no step changes.
LEMMA NextCalled == ObjectOK /\ Called /\ [Next]_vars => Called'
<1> SUFFICES ASSUME ObjectOK, Called, [Next]_vars PROVE Called'
  OBVIOUS
<1>0. writes \in Nat
  BY CallsAssumption DEF ObjectOK
<1>1. CASE Call
  <2>1. pc' \in {"idle", "panic"}
    BY <1>1 DEF Call, AddFile, AllowListDirs, AddScript, SetChangelog, AddCustomTag,
       AddCustomSig, SetPGPSigner, ClearSignatures, SetSignature, Calling, Idle,
       Panic, payloadVars, writeVars
  <2> QED
    BY <2>1 DEF Called, SectionSteps
<1>2. CASE WriteStart
  BY <1>0, <1>2 DEF WriteStart, Called
<1>3. CASE WriteStep
  <2>1. pc \in {"files"} \cup SectionSteps /\ writes' = writes
    BY <1>3 DEF WriteStep, WriteFile, ClosePayload, WriteLead, WriteSignatures, WritePad,
       WriteHeader, WritePayload, Goto, Return, Take, Refuse, SectionSteps
  <2> QED
    BY <2>1 DEF Called
<1>4. CASE UNCHANGED vars
  BY <1>4 DEF vars, writeVars, Called
<1> QED
  BY <1>1, <1>2, <1>3, <1>4 DEF Next

\* A row names one file.
LEMMA RowNamesOne ==
  ASSUME NEW i, NEW m \in Names, NEW n \in Names, IsRowOf(i, m), IsRowOf(i, n)
  PROVE  m = n
BY NamesAssumption DEF IsRowOf

\* ... and when a file is written, no other than before.
LEMMA OldRowsNamed ==
  ASSUME ObjectOK, ObjectOK', RowsInv, NEW n \in Names, WriteFile(n),
         NEW i \in 1 .. Len(rows), NEW m \in Names, IsRowOf(i, m)'
  PROVE  IsRowOf(i, m)
<1>1. PICK k \in Names : IsRowOf(i, k)
  BY DEF RowsInv, RowsName
<1>2. IsRowOf(i, k)'
  BY <1>1, OldRowsName
<1>3. k = m
  BY <1>2, NamesAssumption DEF IsRowOf
<1> QED
  BY <1>1, <1>3

\* On a first Write the rows are in order, and the names left come behind them.
OrderInv ==
  /\ IndexSorted
  /\ writes = 0 => rows = << >>
  /\ writes = 1 /\ pc = "files" =>
       \A i \in 1 .. Len(rows) : \A m \in Names : IsRowOf(i, m) => \A k \in todo : m < k

\* Every step keeps the order.
LEMMA NextOrder ==
  ObjectOK /\ ObjectOK' /\ RowsInv /\ Called /\ OrderInv /\ [Next]_vars => OrderInv'
<1> SUFFICES ASSUME ObjectOK, ObjectOK', RowsInv, Called, OrderInv, [Next]_vars PROVE OrderInv'
  OBVIOUS
<1>0. writes \in Nat
  BY CallsAssumption DEF ObjectOK
<1>1. ASSUME UNCHANGED <<di, rows, writes>>, pc' = "files" => pc = "files" /\ todo' = todo
      PROVE  OrderInv'
  BY <1>1 DEF OrderInv, IndexSorted, IsRowOf
<1>2. CASE Call
  <2>1. UNCHANGED <<di, rows, writes>> /\ pc' # "files"
    BY <1>2 DEF Call, AddFile, AllowListDirs, AddScript, SetChangelog, AddCustomTag,
       AddCustomSig, SetPGPSigner, ClearSignatures, SetSignature, Calling, Idle,
       Panic, payloadVars, writeVars
  <2> QED
    BY <1>1, <2>1
<1>3. CASE WriteStart
  <2>1. UNCHANGED <<di, rows>> /\ writes' = writes + 1
    BY <1>3 DEF WriteStart, payloadVars
  <2>2. writes' = 1 => rows' = << >>
    BY <1>0, <2>1 DEF OrderInv
  <2> QED
    BY <1>0, <2>1, <2>2 DEF OrderInv, IndexSorted
<1>4. ASSUME NEW n \in Names, WriteFile(n) PROVE OrderInv'
  <2>1. pc = "files" /\ UNCHANGED writes /\ n \in todo /\ (\A k \in todo : n <= k)
    BY <1>4 DEF WriteFile, IsNext, Return
  <2>2. writes # 0
    BY <2>1 DEF Called
  <2>3. Len(rows') = Len(rows) + 1 /\ Len(rows) \in Nat /\ IsRowOf(Len(rows), n)'
    BY <1>4, NewRowNames DEF ObjectOK
  <2>4. ASSUME NEW i \in 1 .. Len(rows), NEW m \in Names, IsRowOf(i, m)', writes = 1
        PROVE  \A k \in todo : m < k
    BY <1>4, <2>1, <2>4, OldRowsNamed DEF OrderInv
  <2>5. ASSUME NEW i, i = Len(rows'), NEW m \in Names, IsRowOf(i, m)' PROVE m = n
    BY <2>3, <2>5, NamesAssumption DEF IsRowOf
  <2>6. todo \subseteq Names /\ Names \subseteq Nat
    BY NamesAssumption DEF ObjectOK
  <2>7. IndexSorted'
    <3>1. SUFFICES ASSUME writes = 1, NEW i \in 1 .. Len(rows'), NEW j \in 1 .. Len(rows'),
                          NEW m \in Names, NEW l \in Names,
                          i < j, IsRowOf(i, m)', IsRowOf(j, l)'
                   PROVE  m < l
      BY <2>1 DEF IndexSorted, IsRowOf
    <3>2. i \in 1 .. Len(rows)
      BY <2>3, <3>1
    <3>3. CASE j = Len(rows')
      <4>1. l = n
        BY <2>5, <3>1, <3>3
      <4> QED
        BY <2>1, <2>4, <3>1, <3>2, <4>1
    <3>4. CASE j # Len(rows')
      <4>1. j \in 1 .. Len(rows)
        BY <2>3, <3>4
      <4>2. IsRowOf(i, m) /\ IsRowOf(j, l)
        BY <1>4, <3>1, <3>2, <4>1, OldRowsNamed
      <4> QED
        BY <3>1, <3>2, <4>1, <4>2 DEF OrderInv, IndexSorted
    <3> QED
      BY <3>3, <3>4
  <2>8. CASE pc' = "files"
    <3>1. todo' = todo \ {n}
      BY <1>4, <2>8 DEF WriteFile, Return
    <3>2. ASSUME writes' = 1, NEW i \in 1 .. Len(rows'), NEW m \in Names, IsRowOf(i, m)',
                 NEW k \in todo'
          PROVE  m < k
      <4>1. k \in todo /\ k # n /\ n <= k /\ k \in Nat /\ n \in Nat /\ m \in Nat
        BY <2>1, <2>6, <3>1
      <4>2. CASE i = Len(rows')
        BY <2>5, <3>2, <4>1, <4>2
      <4>3. CASE i # Len(rows')
        <5>1. i \in 1 .. Len(rows)
          BY <2>3, <4>3
        <5> QED
          BY <2>1, <2>4, <3>2, <4>1, <5>1
      <4> QED
        BY <4>2, <4>3
    <3>3. \A i \in 1 .. Len(rows') : \A m \in Names :
            writes' = 1 /\ IsRowOf(i, m)' => \A k \in todo' : m < k
      BY <3>2
    <3> QED
      BY <2>1, <2>2, <2>7, <3>3 DEF OrderInv, IsRowOf
  <2>9. CASE pc' # "files"
    BY <2>1, <2>2, <2>7, <2>9 DEF OrderInv
  <2> QED
    BY <2>8, <2>9
<1>5. CASE ClosePayload \/ WriteLead \/ WriteSignatures \/ WritePad \/ WriteHeader \/ WritePayload
  <2>1. UNCHANGED <<di, rows, writes>> /\ pc' # "files"
    BY <1>5 DEF ClosePayload, WriteLead, WriteSignatures, WritePad, WriteHeader, WritePayload,
       Goto, Return, Take, Refuse, payloadVars
  <2> QED
    BY <1>1, <2>1
<1>6. CASE UNCHANGED vars
  BY <1>1, <1>6 DEF vars, payloadVars, writeVars
<1> QED
  BY <1>2, <1>3, <1>4, <1>5, <1>6 DEF Next, WriteStep

\* ... in every reachable state.
LEMMA CalledAlways == Spec => []Called
<1>1. Init => Called
  BY DEF Init, Called, SectionSteps
<1> QED
  BY <1>1, ObjectInv, NextCalled, PTL DEF Spec

\* On a first Write the rows of the file index are in the order of the names,
\* each file once.
THEOREM SortedCorrect == Spec => []IndexSorted
<1>1. Init => OrderInv
  <2>1. Init => rows = << >> /\ writes = 0 /\ pc = "idle"
    BY DEF Init, NewRPM
  <2> QED
    BY <2>1 DEF OrderInv, IndexSorted
<1>2. OrderInv => IndexSorted
  BY DEF OrderInv
<1>3. Spec => []RowsInv
  BY IndexCovers, PTL DEF RowsInv
<1> QED
  BY <1>1, <1>2, <1>3, ObjectInv, CalledAlways, NextOrder, PTL DEF Spec

-----------------------------------------------------------------------------
(* The payload follows the file index.                                      *)

\* The payload takes files for as long as it is open, which it is until the
\* first Write has passed its files, and has an entry for each row that needs
\* one.
FollowInv ==
  /\ PayloadFollowsIndex
  /\ ~cpio.closed => Len(cpio.entries) = Cardinality(PayloadRows)
  /\ writes = 0 \/ (writes = 1 /\ pc = "files") => ~cpio.closed

\* A ghost file has no other flag: writeFile compares the flags as a whole, and
\* takes one that has for no ghost.  The caller adds none, and the package has none.
GhostsAlone == \A f \in Files : "ghost" \in f.type => f.type = {"ghost"}
FilesAlone == \A n \in DOMAIN files : "ghost" \in files[n].type => files[n].type = {"ghost"}

\* Every step keeps the payload and the rows together.
LEMMA NextFollow ==
  /\ ObjectOK /\ ObjectOK' /\ RowsInv /\ Called /\ FilesAlone
  /\ FollowInv /\ [Next]_vars
  => FollowInv'
<1> SUFFICES ASSUME ObjectOK, ObjectOK', RowsInv, Called, FilesAlone, FollowInv, [Next]_vars
             PROVE  FollowInv'
  OBVIOUS
<1>0. writes \in Nat
  BY CallsAssumption DEF ObjectOK
<1>1. ASSUME UNCHANGED <<di, rows>>, cpio'.entries = cpio.entries,
             ~cpio'.closed => ~cpio.closed,
             writes' <= 1 => Len(cpio.entries) = Cardinality(PayloadRows),
             writes' = 0 \/ (writes' = 1 /\ pc' = "files") => ~cpio'.closed
      PROVE  FollowInv'
  <2>1. PayloadRows' = PayloadRows /\ \A i : Rank(i)' = Rank(i)
    BY <1>1 DEF PayloadRows, Rank
  <2>2. \A i, e : DescribesEntry(i, e) => DescribesEntry(i, e)'
    BY <1>1 DEF DescribesEntry, IsRowOf
  <2>3. \A k \in 1 .. Len(cpio.entries) : \A i \in PayloadRows :
           Rank(i) = k => DescribesEntry(i, cpio.entries[k])'
    BY <1>1, <2>2 DEF FollowInv, PayloadFollowsIndex
  <2> QED
    BY <1>1, <2>1, <2>3 DEF FollowInv, PayloadFollowsIndex
<1>2. CASE Call
  <2>1. UNCHANGED <<di, rows, cpio, writes>> /\ pc' # "files"
    BY <1>2 DEF Call, AddFile, AllowListDirs, AddScript, SetChangelog, AddCustomTag,
       AddCustomSig, SetPGPSigner, ClearSignatures, SetSignature, Calling, Idle,
       Panic, payloadVars, writeVars
  <2> QED
    BY <1>1, <2>1 DEF FollowInv, PayloadFollowsIndex
<1>3. CASE WriteStart
  <2>1. UNCHANGED <<di, rows, cpio>> /\ writes' = writes + 1
    BY <1>3 DEF WriteStart, payloadVars
  <2> QED
    BY <1>0, <1>1, <2>1 DEF FollowInv, PayloadFollowsIndex
<1>4. ASSUME NEW n \in Names, WriteFile(n) PROVE FollowInv'
  <2> DEFINE f == files[n]
  <2> DEFINE L == Len(rows)
  <2>1. pc = "files" /\ UNCHANGED writes /\ rows' = Append(rows, Row(di, n, f))
    BY <1>4 DEF WriteFile, Return
  <2>2. L \in Nat /\ Len(rows') = L + 1 /\ rows'[L + 1] = Row(di, n, f)
        /\ (\A i \in 1 .. L : rows'[i] = rows[i])
    BY <2>1 DEF ObjectOK
  <2>3. f \in FileType
    BY <1>4, FileTyped DEF WriteFile, IsNext, ObjectOK
  <2>4. PayloadRows \subseteq 1 .. L
    BY DEF PayloadRows
  <2> DEFINE P == PayloadRows
  <2>5. /\ cpio.entries \in Seq(EntryType) /\ Len(cpio.entries) \in Nat
        /\ \A k \in 1 .. Len(cpio.entries) : cpio.entries[k].name \in Names
    <3>1. cpio.entries \in Seq(EntryType)
      BY DEF ObjectOK
    <3>2. \A e \in EntryType : e.name \in Names
      BY DEF EntryType
    <3> QED
      BY <3>1, <3>2
  <2>6. ASSUME NEW i \in P, NEW e, Rank(i) \in 1 .. Len(cpio.entries),
               e = cpio.entries[Rank(i)]
        PROVE  DescribesEntry(i, e)'
    <3>1. DescribesEntry(i, e) /\ e.name \in Names /\ i \in 1 .. L
      BY <2>4, <2>5, <2>6 DEF FollowInv, PayloadFollowsIndex
    <3>2. IsRowOf(i, e.name)'
      BY <1>4, <3>1, OldRowsName DEF DescribesEntry
    <3> QED
      BY <2>2, <3>1, <3>2 DEF DescribesEntry
  <2>7. Row(di, n, f).fileflags = f.type /\ (IsGhost(f) <=> "ghost" \in f.type)
    BY <1>4 DEF Row, IsGhost, FilesAlone, WriteFile, IsNext, ObjectOK
  <2>8. CASE IsGhost(f) /\ UNCHANGED <<cpio, pc>>
    <3>1. PayloadRows' = P
      BY <2>2, <2>7, <2>8 DEF PayloadRows
    <3>2. \A i : Rank(i)' = Rank(i)
      BY <3>1 DEF Rank
    <3>3. \A k \in 1 .. Len(cpio.entries) : \A i \in P :
            Rank(i) = k => DescribesEntry(i, cpio.entries[k])'
      BY <2>6, <2>8
    <3> QED
      BY <2>1, <2>8, <3>1, <3>2, <3>3 DEF FollowInv, PayloadFollowsIndex
  <2>9. ASSUME ~IsGhost(f)
        PROVE  /\ PayloadRows' = P \cup {L + 1}
               /\ Cardinality(P) \in Nat
               /\ Cardinality(PayloadRows') = Cardinality(P) + 1
               /\ \A i \in P : Rank(i)' = Rank(i) /\ Rank(i) <= Cardinality(P)
               /\ \A i : i = L + 1 => Rank(i)' = Cardinality(P) + 1
    <3>1. PayloadRows' = P \cup {L + 1}
      <4>1. \A i \in 1 .. L : i \in PayloadRows' <=> i \in P
        BY <2>2 DEF PayloadRows
      <4>2. \A i : i = L + 1 => i \in PayloadRows'
        BY <2>2, <2>7, <2>9 DEF PayloadRows
      <4>3. \A i : i \in PayloadRows' => i \in 1 .. L + 1
        BY <2>2 DEF PayloadRows
      <4> QED
        <5>1. \A i : i \in PayloadRows' <=> i \in P \cup {L + 1}
          <6>1. \A i \in 1 .. L + 1 : i = L + 1 \/ i \in 1 .. L
            BY <2>2
          <6> QED
            BY <2>4, <4>1, <4>2, <4>3, <6>1
        <5> QED
          BY <5>1
    <3>2. /\ Cardinality(P) \in Nat
          /\ Cardinality(P \cup {L + 1}) = Cardinality(P) + 1
          /\ Cardinality({j \in P \cup {L + 1} : j <= L + 1}) = Cardinality(P) + 1
          /\ \A i \in P : /\ Cardinality({j \in P : j <= i}) <= Cardinality(P)
                          /\ {j \in P \cup {L + 1} : j <= i} = {j \in P : j <= i}
      BY <2>2, <2>4, CountNext
    <3> QED
      BY <3>1, <3>2 DEF Rank
  <2>10. CASE ~IsGhost(f) /\ cpio.closed /\ UNCHANGED cpio
    <3>1. writes > 1
      BY <1>0, <2>1, <2>10 DEF Called, FollowInv
    <3>2. \A k \in 1 .. Len(cpio.entries) : \A i \in PayloadRows' :
            Rank(i)' = k => DescribesEntry(i, cpio.entries[k])'
      BY <2>5, <2>6, <2>9, <2>10 DEF FollowInv, PayloadFollowsIndex
    <3> QED
      BY <1>0, <2>1, <2>5, <2>9, <2>10, <3>1, <3>2 DEF FollowInv, PayloadFollowsIndex
  <2>11. CASE ~IsGhost(f) /\ CpioWrite(n, f)
    <3> DEFINE e == CpioEntry(n, f)
    <3>1. /\ ~cpio.closed /\ ~cpio'.closed
          /\ cpio'.entries = Append(cpio.entries, e)
      BY <2>11 DEF CpioWrite, ObjectOK
    <3>2. Len(cpio.entries) = Cardinality(P)
      BY <3>1 DEF FollowInv
    <3>3. \A i, x : i = L + 1 /\ x = e => DescribesEntry(i, x)'
      <4>1. SUFFICES ASSUME NEW i, NEW x, i = L + 1, x = e PROVE DescribesEntry(i, x)'
        OBVIOUS
      <4>2. IsRowOf(i, n)'
        BY <1>4, <2>2, <4>1, NewRowNames
      <4>3. /\ Row(di, n, f).filemodes = EntryMode(f)
            /\ "dir" \in EntryMode(f) \/ Row(di, n, f).filesizes = f.body % Words
            /\ Row(di, n, f).filedigests \in {<< >>, <<f.body>>}
            /\ Row(di, n, f).filemtimes = f.time
        BY <2>3 DEF FileType, Row, EntryMode, IsDir, IsRegular
      <4>4. e.name = n /\ e.mode = EntryMode(f) /\ e.time = f.time /\ e.body = f.body
        BY DEF CpioEntry
      <4> QED
        BY <2>2, <4>1, <4>2, <4>3, <4>4 DEF DescribesEntry
    <3> HIDE DEF e
    <3>4. /\ Len(cpio'.entries) = Cardinality(P) + 1
          /\ cpio'.entries[Cardinality(P) + 1] = e
          /\ \A k \in 1 .. Len(cpio.entries) : cpio'.entries[k] = cpio.entries[k]
      BY <2>5, <3>1, <3>2
    <3>5. ASSUME NEW k \in 1 .. Len(cpio'.entries), NEW i \in PayloadRows', Rank(i)' = k
          PROVE  DescribesEntry(i, cpio.entries[k])'
      <4>1. CASE i = L + 1
        <5>1. k = Cardinality(P) + 1
          BY <2>9, <2>11, <3>5, <4>1
        <5> QED
          BY <3>3, <3>4, <4>1, <5>1
      <4>2. CASE i \in P
        <5>1. Rank(i) = k /\ k \in 1 .. Len(cpio.entries)
          BY <2>9, <2>11, <3>2, <3>5, <4>2
        <5> QED
          BY <2>6, <3>4, <4>2, <5>1
      <4> QED
        BY <2>9, <2>11, <3>5, <4>1, <4>2
    <3> QED
      BY <2>1, <2>9, <2>11, <3>1, <3>4, <3>5 DEF FollowInv, PayloadFollowsIndex
  <2> QED
    BY <1>4, <2>8, <2>10, <2>11 DEF WriteFile
<1>5. CASE ClosePayload \/ WriteLead \/ WriteSignatures \/ WritePad \/ WriteHeader \/ WritePayload
  <2>1. /\ UNCHANGED <<di, rows, writes>> /\ pc' # "files" /\ pc \in {"files"} \cup SectionSteps
        /\ cpio'.entries = cpio.entries /\ (~cpio'.closed => ~cpio.closed)
    BY <1>5 DEF ClosePayload, WriteLead, WriteSignatures, WritePad, WriteHeader, WritePayload,
       Goto, Return, Take, Refuse, payloadVars, SectionSteps, ObjectOK
  <2>2. writes # 0
    BY <2>1 DEF Called
  <2> QED
    BY <1>1, <2>1, <2>2 DEF FollowInv, PayloadFollowsIndex
<1>6. CASE UNCHANGED vars
  BY <1>1, <1>6 DEF vars, payloadVars, writeVars, FollowInv, PayloadFollowsIndex
<1> QED
  BY <1>2, <1>3, <1>4, <1>5, <1>6 DEF Next, WriteStep

\* The payload and the file index tell of the same files, in the same order, after failures
\* and retries too (writeFile), unless a ghost file has another flag: writeFile gives it an
\* entry, which PayloadFollowsIndex does not want.
THEOREM PayloadCorrect == ASSUME GhostsAlone PROVE Spec => []PayloadFollowsIndex
<1>1. Init => FollowInv
  <2>1. SUFFICES ASSUME Init PROVE FollowInv
    OBVIOUS
  <2>2. rows = << >> /\ cpio.entries = << >> /\ ~cpio.closed /\ writes = 0
    BY <2>1 DEF Init, NewRPM
  <2>3. PayloadRows = {}
    BY <2>2 DEF PayloadRows
  <2>4. Cardinality(PayloadRows) = 0
    BY <2>3, FS_EmptySet
  <2> QED
    BY <2>2, <2>3, <2>4 DEF FollowInv, PayloadFollowsIndex
<1>2. FollowInv => PayloadFollowsIndex
  BY DEF FollowInv
<1>3. Spec => []RowsInv
  BY IndexCovers, PTL DEF RowsInv
<1>4. TypeOK => FilesAlone
  BY DEF TypeOK, GhostsAlone, FilesAlone
<1> QED
  BY <1>1, <1>2, <1>3, <1>4, TypeCorrect, ObjectInv, CalledAlways, NextFollow, PTL DEF Spec

-----------------------------------------------------------------------------
(* What a later Write can still do.                                         *)

\* Once a Write has got past its files the payload is closed for good, so a
\* later one has met ghosts only as far as it got.
ClosedInv ==
  /\ closed = FALSE
  /\ pc \in SectionSteps \/ writes > 1 => cpio.closed
  /\ writes > 0 /\ pc \in {"idle", "panic"} => cpio.closed
  /\ writes > 1 /\ pc \in {"files"} \cup SectionSteps =>
       \A n \in DOMAIN files \ todo : files[n].type = {"ghost"}

\* Every step keeps it.
LEMMA NextClosed == ObjectOK /\ ClosedInv /\ [Next]_vars => ClosedInv'
<1> SUFFICES ASSUME ObjectOK, ClosedInv, [Next]_vars PROVE ClosedInv'
  OBVIOUS
<1>0. writes \in Nat /\ cpio.closed \in BOOLEAN
  BY CallsAssumption DEF ObjectOK
<1>1. CASE Call
  <2>1. /\ pc = "idle" /\ pc' \in {"idle", "panic"}
        /\ UNCHANGED <<cpio, closed, writes>>
    BY <1>1 DEF Call, AddFile, AllowListDirs, AddScript, SetChangelog, AddCustomTag,
       AddCustomSig, SetPGPSigner, ClearSignatures, SetSignature, Calling, Idle,
       Panic, payloadVars, writeVars
  <2> QED
    BY <2>1 DEF ClosedInv, SectionSteps
<1>2. CASE WriteStart
  BY <1>0, <1>2 DEF WriteStart, Idle, payloadVars, apiVars, ClosedInv, SectionSteps
<1>3. ASSUME NEW n \in Names, WriteFile(n) PROVE ClosedInv'
  <2>1. UNCHANGED <<files, closed, writes>> /\ pc = "files"
    BY <1>3 DEF WriteFile, Return, apiVars
  <2>2. CASE IsGhost(files[n]) /\ todo' = todo \ {n} /\ UNCHANGED <<cpio, pc>>
    BY <2>1, <2>2 DEF ClosedInv, IsGhost, SectionSteps
  <2>3. CASE CpioWrite(n, files[n]) /\ UNCHANGED pc
    <3>1. ~(writes > 1)
      BY <1>0, <2>3 DEF CpioWrite, ClosedInv
    <3> QED
      BY <2>1, <2>3, <3>1 DEF ClosedInv, SectionSteps
  <2>4. CASE cpio.closed /\ Return("cpio") /\ UNCHANGED cpio
    BY <2>1, <2>4 DEF ClosedInv, Return, SectionSteps
  <2> QED
    BY <1>3, <2>2, <2>3, <2>4 DEF WriteFile
<1>4. CASE ClosePayload
  <2>1. pc = "files" /\ todo = {} /\ cpio'.closed /\ UNCHANGED <<files, closed, writes>>
    BY <1>4 DEF ClosePayload, Goto, Return, apiVars, ObjectOK
  <2>2. todo' = {}
    BY <1>4, <2>1 DEF ClosePayload, Return
  <2> QED
    BY <2>1, <2>2 DEF ClosedInv
<1>5. ASSUME pc \in SectionSteps, pc' \in SectionSteps \cup {"idle"}, todo' = {},
             UNCHANGED <<files, cpio, closed, writes>>
      PROVE  ClosedInv'
  <2>1. todo = {}
    BY <1>5 DEF ObjectOK, SectionSteps
  <2> QED
    BY <1>5, <2>1 DEF ClosedInv, SectionSteps
<1>6. CASE WriteLead \/ WriteSignatures \/ WritePad \/ WriteHeader \/ WritePayload
  <2>1. todo = {}
    BY <1>6 DEF ObjectOK, WriteLead, WriteSignatures, WritePad, WriteHeader, WritePayload
  <2> QED
    BY <1>5, <1>6, <2>1 DEF WriteLead, WriteSignatures, WritePad, WriteHeader,
       WritePayload, Goto, Return, Take, Refuse, payloadVars, apiVars, SectionSteps
<1>7. CASE UNCHANGED vars
  BY <1>7 DEF vars, apiVars, payloadVars, writeVars, ClosedInv
<1> QED
  BY <1>1, <1>2, <1>3, <1>4, <1>6, <1>7 DEF Next, WriteStep

\* A Write after the first one gets as far as w only when every file of the
\* package is a ghost, whatever the caller did in between.
THEOREM RewriteCorrect == Spec => []RewritesOnlyGhosts
<1>1. Init => ClosedInv
  BY DEF Init, NewRPM, ClosedInv, SectionSteps
<1>2. ObjectOK /\ ClosedInv => RewritesOnlyGhosts
  BY DEF ObjectOK, ClosedInv, RewritesOnlyGhosts, SectionSteps
<1> QED
  BY <1>1, <1>2, ObjectInv, NextClosed, PTL DEF Spec

-----------------------------------------------------------------------------
(* What Write's result says about its output.                               *)

\* What w has of a section: all of it, or a part.
Taken == SectionSteps \cup {"torn"}

\* The sections w has taken, and whole, when Write is about to write one.
TakenBefore(k) == Len(out) = k - 1 /\ \A i \in 1 .. k - 1 : out[i] = Steps[i]

\* The inductive invariant: what the writer took is what the step Write is at needs
\* before it, and all of it where Write said "ok".
OutInv ==
  /\ out \in Seq(Taken)
  /\ pc \in {"idle", "panic", "files"} \cup SectionSteps
  /\ pc = "files" => out = << >>
  /\ \A k \in 1 .. 5 : pc = Steps[k] => TakenBefore(k)
  /\ pc = "idle" => (res = "ok" <=> out = Steps)

\* The five sections, no two alike, and none of them another step of Write.
LEMMA StepsDiffer ==
  /\ Steps \in Seq(Taken) /\ Len(Steps) = 5 /\ Steps # << >>
  /\ \A i \in 1 .. 5 : Steps[i] \in Taken
  /\ Steps[1] = "lead" /\ Steps[2] = "sig" /\ Steps[3] = "pad"
  /\ Steps[4] = "header" /\ Steps[5] = "payload"
  /\ \A i, j \in 1 .. 5 : Steps[i] = Steps[j] => i = j
  /\ \A i \in 1 .. 5 : Steps[i] \in SectionSteps
  /\ \A i \in 1 .. 5 : Steps[i] \notin {"idle", "panic", "files", "torn"}
<1>1. Steps \in Seq(Taken) /\ Len(Steps) = 5
  BY DEF Steps, Taken, SectionSteps
<1>2. /\ Steps[1] = "lead" /\ Steps[2] = "sig" /\ Steps[3] = "pad"
      /\ Steps[4] = "header" /\ Steps[5] = "payload"
  BY DEF Steps
<1>3. \A i \in 1 .. 5 : i = 1 \/ i = 2 \/ i = 3 \/ i = 4 \/ i = 5
  OBVIOUS
<1>4. \A i, j \in 1 .. 5 : Steps[i] = Steps[j] => i = j
  BY <1>2, <1>3
<1>5. \A i \in 1 .. 5 : Steps[i] \in SectionSteps /\ Steps[i] \in Taken
  BY <1>2, <1>3 DEF SectionSteps, Taken
<1>6. \A i \in 1 .. 5 : Steps[i] \notin {"idle", "panic", "files", "torn"}
  BY <1>2, <1>3
<1>7. Steps # << >>
  BY <1>1
<1>. QED  BY <1>1, <1>2, <1>4, <1>5, <1>6, <1>7

\* What Append does, element by element.
LEMMA Appended ==
  ASSUME NEW s \in Seq(Taken), NEW e \in Taken, NEW k \in Nat, Len(s) = k - 1
  PROVE  /\ Append(s, e) \in Seq(Taken)
         /\ Len(Append(s, e)) = k
         /\ Append(s, e)[k] = e
         /\ \A i \in 1 .. k - 1 : Append(s, e)[i] = s[i]
<1>1. /\ Append(s, e) \in Seq(Taken)
      /\ Len(Append(s, e)) = Len(s) + 1
      /\ \A i \in 1 .. Len(s) : Append(s, e)[i] = s[i]
      /\ Append(s, e)[Len(s) + 1] = e
  BY AppendProperties
<1>2. Len(s) + 1 = k
  BY LenProperties
<1>. QED  BY <1>1, <1>2

\* It says what OkIffComplete says.
LEMMA OutImplies == OutInv => OkIffComplete
<1>. SUFFICES ASSUME OutInv, NEW k \in 1 .. 5, pc = Steps[k]
              PROVE  out = SubSeq(Steps, 1, k - 1)
  BY DEF OkIffComplete, OutInv
<1>1. /\ out \in Seq(Taken) /\ Len(out) = k - 1
      /\ \A i \in 1 .. k - 1 : out[i] = Steps[i]
  BY DEF OutInv, TakenBefore
<1>2. \A i \in 1 .. k - 1 : Steps[i] \in Taken
  BY StepsDiffer
<1>3. /\ SubSeq(Steps, 1, k - 1) \in Seq(Taken)
      /\ Len(SubSeq(Steps, 1, k - 1)) = k - 1
      /\ \A i \in 1 .. k - 1 : SubSeq(Steps, 1, k - 1)[i] = Steps[i]
  BY <1>2, SubSeqProperties
<1>. QED  BY <1>1, <1>3, SeqEqual

\* A section is taken: Write goes on to the next.
LEMMA TakeOut ==
  ASSUME OutInv, NEW k \in 1 .. 4, pc = Steps[k],
         out' = Append(out, Steps[k]), pc' = Steps[k + 1]
  PROVE  OutInv'
<1>1. /\ out \in Seq(Taken) /\ Len(out) = k - 1 /\ Steps[k] \in Taken
      /\ \A i \in 1 .. k - 1 : out[i] = Steps[i]
  BY StepsDiffer DEF OutInv, TakenBefore
<1>2. /\ out' \in Seq(Taken) /\ Len(out') = k /\ out'[k] = Steps[k]
      /\ \A i \in 1 .. k - 1 : out'[i] = Steps[i]
  BY <1>1, Appended
<1>3. \A j \in 1 .. 5 : pc' = Steps[j] => TakenBefore(j)'
  <2>. SUFFICES ASSUME NEW j \in 1 .. 5, pc' = Steps[j]
                PROVE  TakenBefore(j)'
    OBVIOUS
  <2>1. j = k + 1
    <3>1. k + 1 \in 1 .. 5 /\ Steps[j] = Steps[k + 1]
      OBVIOUS
    <3>2. \A a, b \in 1 .. 5 : Steps[a] = Steps[b] => a = b
      BY StepsDiffer
    <3>. QED  BY <3>1, <3>2
  <2>2. \A i \in 1 .. k : out'[i] = Steps[i]
    BY <1>2
  <2>. QED  BY <1>2, <2>1, <2>2 DEF TakenBefore
<1>. QED  BY <1>2, <1>3, StepsDiffer DEF OutInv

\* Write ends early: what w has is not all the sections.
LEMMA RefuseOut ==
  ASSUME OutInv, NEW k \in 1 .. 5, pc = Steps[k],
         out' \in {out, Append(out, "torn")}, pc' = "idle", res' # "ok"
  PROVE  OutInv'
<1>1. out \in Seq(Taken) /\ Len(out) = k - 1
  BY DEF OutInv, TakenBefore
<1>2. out' \in Seq(Taken) /\ out' # Steps
  <2>1. CASE out' = out
    <3>1. Len(out') # Len(Steps)
      BY <2>1, <1>1, StepsDiffer
    <3>. QED  BY <2>1, <1>1, <3>1
  <2>2. CASE out' = Append(out, "torn")
    <3>1. out' \in Seq(Taken) /\ out'[k] = "torn"
      BY <2>2, <1>1, Appended DEF Taken
    <3>. QED  BY <3>1, StepsDiffer
  <2>. QED  BY <2>1, <2>2
<1>. QED  BY <1>2, StepsDiffer DEF OutInv

\* Every step keeps it.
LEMMA NextOut == OutInv /\ [Next]_vars => OutInv'
<1>. SUFFICES ASSUME OutInv, [Next]_vars
              PROVE  OutInv'
  OBVIOUS
<1>1. CASE Call
  <2>1. pc = "idle" /\ pc' \in {"idle", "panic"} /\ UNCHANGED <<out, res>>
    BY <1>1 DEF Call, AddFile, AllowListDirs, AddScript, SetChangelog, AddCustomTag,
       AddCustomSig, SetPGPSigner, ClearSignatures, SetSignature, Calling, Idle,
       Panic, writeVars
  <2>. QED  BY <2>1, StepsDiffer DEF OutInv
<1>2. CASE WriteStart
  BY <1>2, StepsDiffer DEF WriteStart, OutInv
<1>3. ASSUME NEW n \in Names, WriteFile(n)
      PROVE  OutInv'
  <2>1. pc = "files" /\ out = << >> /\ UNCHANGED out
    BY <1>3 DEF WriteFile, OutInv
  <2>2. pc' = pc \/ (pc' = "idle" /\ res' = "cpio")
    BY <1>3 DEF WriteFile, Return
  <2>. QED  BY <2>1, <2>2, StepsDiffer DEF OutInv
<1>4. CASE ClosePayload
  <2>1. pc = "files" /\ out = << >> /\ UNCHANGED out
    BY <1>4 DEF ClosePayload, OutInv
  <2>2. pc' = "lead" \/ (pc' = "idle" /\ res' = "close")
    BY <1>4 DEF ClosePayload, Return, Goto
  <2>3. \A j \in 1 .. 5 : pc' = Steps[j] => TakenBefore(j)'
    BY <2>1, <2>2, StepsDiffer DEF TakenBefore
  <2>. QED  BY <2>1, <2>2, <2>3, StepsDiffer DEF OutInv
<1>5. CASE WriteLead
  <2>1. pc = Steps[1]
    BY <1>5, StepsDiffer DEF WriteLead
  <2>2. \/ out' = Append(out, Steps[1]) /\ pc' = Steps[2]
        \/ out' \in {out, Append(out, "torn")} /\ pc' = "idle" /\ res' # "ok"
    BY <1>5, StepsDiffer DEF WriteLead, Take, Goto, Refuse, Return
  <2>. QED  BY <2>1, <2>2, TakeOut, RefuseOut
<1>6. CASE WriteSignatures
  <2>1. pc = Steps[2]
    BY <1>6, StepsDiffer DEF WriteSignatures
  <2>2. \/ out' = Append(out, Steps[2]) /\ pc' = Steps[3]
        \/ out' \in {out, Append(out, "torn")} /\ pc' = "idle" /\ res' # "ok"
    BY <1>6, StepsDiffer DEF WriteSignatures, Take, Goto, Refuse, Return
  <2>. QED  BY <2>1, <2>2, TakeOut, RefuseOut
<1>7. CASE WritePad
  <2>1. pc = Steps[3]
    BY <1>7, StepsDiffer DEF WritePad
  <2>2. \/ out' = Append(out, Steps[3]) /\ pc' = Steps[4]
        \/ out' \in {out, Append(out, "torn")} /\ pc' = "idle" /\ res' # "ok"
    BY <1>7, StepsDiffer DEF WritePad, Take, Goto, Refuse, Return
  <2>. QED  BY <2>1, <2>2, TakeOut, RefuseOut
<1>8. CASE WriteHeader
  <2>1. pc = Steps[4]
    BY <1>8, StepsDiffer DEF WriteHeader
  <2>2. \/ out' = Append(out, Steps[4]) /\ pc' = Steps[5]
        \/ out' \in {out, Append(out, "torn")} /\ pc' = "idle" /\ res' # "ok"
    BY <1>8, StepsDiffer DEF WriteHeader, Take, Goto, Refuse, Return
  <2>. QED  BY <2>1, <2>2, TakeOut, RefuseOut
<1>9. CASE WritePayload
  <2>1. pc = Steps[5] /\ TakenBefore(5) /\ out \in Seq(Taken)
    BY <1>9, StepsDiffer DEF WritePayload, OutInv
  <2>2. CASE out' = Append(out, "payload") /\ Return("ok")
    <3>1. /\ out' \in Seq(Taken) /\ Len(out') = 5
          /\ \A i \in 1 .. 5 : out'[i] = Steps[i]
      <4>1. /\ out' \in Seq(Taken) /\ Len(out') = 5 /\ out'[5] = "payload"
            /\ \A i \in 1 .. 4 : out'[i] = out[i]
        BY <2>1, <2>2, Appended DEF TakenBefore, Taken, SectionSteps
      <4>2. \A i \in 1 .. 4 : out'[i] = Steps[i]
        BY <2>1, <4>1 DEF TakenBefore
      <4>. QED  BY <4>1, <4>2, StepsDiffer
    <3>2. out' = Steps
      BY <3>1, StepsDiffer, SeqEqual
    <3>. QED  BY <2>2, <3>1, <3>2, StepsDiffer DEF OutInv, Return
  <2>3. CASE Refuse
    BY <2>1, <2>3, RefuseOut DEF Refuse, Return
  <2>. QED  BY <1>9, <2>2, <2>3 DEF WritePayload
<1>10. CASE UNCHANGED vars
  BY <1>10 DEF vars, writeVars, OutInv, TakenBefore
<1>. QED
  BY <1>1, <1>2, <1>3, <1>4, <1>5, <1>6, <1>7, <1>8, <1>9, <1>10 DEF Next, WriteStep

\* Write returns "ok" exactly when w took all five sections, whole and in
\* order, whichever writes fail and whatever was called or written before.
THEOREM OkCorrect == Spec => []OkIffComplete
<1>1. Init => OutInv
  BY StepsDiffer DEF Init, OutInv
<1>. QED  BY <1>1, OutImplies, NextOut, PTL DEF Spec

-----------------------------------------------------------------------------
(* The sum of the bodies.                                                   *)

\* f has the sums of the first k bodies of e, for each k up to n.
IsSums(f, e, n) == f = [k \in 0 .. n |-> IF k = 0 THEN 0 ELSE f[k - 1] + e[k].body]

\* There are such sums, by induction on their number ...
LEMMA SumsExist == \A e : \A n \in Nat : \E f : IsSums(f, e, n)
<1> SUFFICES ASSUME NEW e PROVE \A n \in Nat : \E f : IsSums(f, e, n)
  OBVIOUS
<1> DEFINE S == {n \in Nat : \E f : IsSums(f, e, n)}
<1>1. 0 \in S
  <2>1. IsSums([k \in 0 .. 0 |-> 0], e, 0)
    BY DEF IsSums
  <2> QED BY <2>1
<1>2. ASSUME NEW n \in Nat, n \in S PROVE n + 1 \in S
  <2>1. PICK f : IsSums(f, e, n)
    BY <1>2
  <2> DEFINE g == [k \in 0 .. n + 1 |-> IF k <= n THEN f[k] ELSE f[n] + e[n + 1].body]
  <2>2. ASSUME NEW k \in 0 .. n + 1
        PROVE  g[k] = IF k = 0 THEN 0 ELSE g[k - 1] + e[k].body
    <3>1. CASE k = n + 1
      BY <3>1
    <3>2. CASE k \in 0 .. n
      <4>1. f[k] = IF k = 0 THEN 0 ELSE f[k - 1] + e[k].body
        BY <2>1, <3>2 DEF IsSums
      <4>2. g[k] = f[k] /\ (k # 0 => g[k - 1] = f[k - 1])
        BY <3>2
      <4> QED BY <4>1, <4>2
    <3> QED BY <3>1, <3>2
  <2>3. IsSums(g, e, n + 1)
    BY <2>2 DEF IsSums
  <2> QED BY <2>3
<1> HIDE DEF S
<1>3. \A n \in Nat : n \in S
  BY <1>1, <1>2, Induction
<1> QED BY <1>3 DEF S

\* ... and they are the same where the bodies are.
LEMMA SumsAgree ==
  ASSUME NEW e, NEW n \in Nat, NEW f, IsSums(f, e, n),
         NEW d, NEW m \in Nat, NEW g, IsSums(g, d, m),
         NEW l \in Nat, l <= n, l <= m, \A k \in 1 .. l : e[k] = d[k]
  PROVE  f[l] = g[l]
<1> DEFINE S == {k \in Nat : k <= l => f[k] = g[k]}
<1>1. 0 \in S
  BY DEF IsSums
<1>2. ASSUME NEW k \in Nat, k \in S PROVE k + 1 \in S
  <2>1. SUFFICES ASSUME k + 1 <= l PROVE f[k + 1] = g[k + 1]
    OBVIOUS
  <2>2. f[k + 1] = f[k] + e[k + 1].body
    BY <2>1 DEF IsSums
  <2>3. g[k + 1] = g[k] + d[k + 1].body
    BY <2>1 DEF IsSums
  <2>4. e[k + 1] = d[k + 1] /\ f[k] = g[k]
    BY <1>2, <2>1
  <2> QED BY <2>2, <2>3, <2>4
<1> HIDE DEF S
<1>3. l \in S
  BY <1>1, <1>2, Induction
<1> QED BY <1>3 DEF S

\* The recursive function of BodySum is one of them.
LEMMA BodySums ==
  ASSUME NEW e, Len(e) \in Nat
  PROVE  \E f : IsSums(f, e, Len(e)) /\ BodySum(e) = f[Len(e)]
<1>1. BodySum(e) = (CHOOSE f : IsSums(f, e, Len(e)))[Len(e)]
  BY DEF BodySum, IsSums
<1> QED BY <1>1, SumsExist

\* What BodySum is of no entries, and of one more.
LEMMA BodySumEmpty == BodySum(<< >>) = 0
<1>1. Len(<< >>) = 0 OBVIOUS
<1>2. PICK f : IsSums(f, << >>, 0) /\ BodySum(<< >>) = f[0]
  BY <1>1, BodySums
<1> QED BY <1>2 DEF IsSums

\* One entry more adds its body, whatever the entries before.
LEMMA BodySumAppend ==
  ASSUME NEW S, NEW s \in Seq(S), NEW x \in S
  PROVE  BodySum(Append(s, x)) = BodySum(s) + x.body
<1> DEFINE t == Append(s, x)
           n == Len(s)
<1>1. /\ n \in Nat /\ Len(t) = n + 1 /\ t[n + 1] = x
      /\ \A k \in 1 .. n : t[k] = s[k]
  OBVIOUS
<1> HIDE DEF t, n
<1>2. PICK f : IsSums(f, s, n) /\ BodySum(s) = f[n]
  BY <1>1, BodySums DEF n
<1>3. PICK g : IsSums(g, t, n + 1) /\ BodySum(t) = g[n + 1]
  BY <1>1, BodySums
<1>4. g[n + 1] = g[n] + x.body
  BY <1>1, <1>3 DEF IsSums
<1>5. f[n] = g[n]
  BY <1>1, <1>2, <1>3, SumsAgree
<1> QED BY <1>2, <1>3, <1>4, <1>5 DEF t
-----------------------------------------------------------------------------
(* What the header and the signatures hold.                                 *)

\* Header and payload depend on nothing that a section step changes.
LEMMA HeaderSame ==
  UNCHANGED <<apiVars, payloadVars>> => UNCHANGED <<HeaderEntries, Payload>>
BY DEF apiVars, payloadVars, HeaderEntries, Payload, GenIndexes, FileIndexes,
   RelationIndexes, EpochIndex, ScriptIndexes, ChangelogIndex

\* What an index has after AddEntries, tag by tag.
\* AddEntries keeps what it does not put over.
LEMMA Kept ==
  ASSUME NEW f, NEW g, NEW t, t \in DOMAIN f, t \notin DOMAIN g
  PROVE  t \in DOMAIN AddEntries(f, g) /\ AddEntries(f, g)[t] = f[t]
BY DEF AddEntries

\* The scriptlets bring tags of their own.
LEMMA ScriptDomain == DOMAIN ScriptIndexes \subseteq DOMAIN ProgTag \cup Range(ProgTag)
<1> DEFINE set == {k \in DOMAIN ProgTag : scripts[k] > 0}
           progs == {ProgTag[k] : k \in set}
<1>1. progs \subseteq Range(ProgTag)
  BY DEF Range
<1>2. DOMAIN Restrict(scripts, set) = set /\ DOMAIN [t \in progs |-> "/bin/sh"] = progs
  BY DEF Restrict
<1>3. ScriptIndexes = AddEntries(Restrict(scripts, set), [t \in progs |-> "/bin/sh"])
  BY DEF ScriptIndexes
<1> HIDE DEF set, progs
<1>4. DOMAIN ScriptIndexes = set \cup progs
  BY <1>2, <1>3 DEF AddEntries
<1> QED
  BY <1>1, <1>4 DEF set

\* The two tags of the header that the properties are about.
ComputedTags == {"size", "payloaddigest"}

\* The tags of the scripts and their interpreters.
LEMMA ProgTags ==
  DOMAIN ProgTag \cup Range(ProgTag) =
    {"pretrans", "prein", "postin", "preun", "postun", "posttrans", "pretransprog",
     "preinprog", "postinprog", "preunprog", "postunprog", "posttransprog"}
BY DEF ProgTag, Range

\* No other part of the header has them.
LEMMA NotComputed ==
  ASSUME NEW t \in ComputedTags
  PROVE  /\ t \notin DOMAIN ScriptIndexes
         /\ t \notin DOMAIN ChangelogIndex
         /\ t \notin DOMAIN EpochIndex
         /\ t \notin DOMAIN FileIndexes
         /\ t \notin DOMAIN RelationIndexes
<1>1. t \notin DOMAIN ScriptIndexes
  BY ScriptDomain, ProgTags DEF ComputedTags
<1>2. t \notin DOMAIN ChangelogIndex /\ t \notin DOMAIN EpochIndex
  BY DEF ComputedTags, ChangelogIndex, EpochIndex, Put, EmptyMap
<1>3. t \notin DOMAIN FileIndexes
  <2>1. CASE DOMAIN files = {}
    BY <2>1 DEF FileIndexes, EmptyMap
  <2>2. CASE DOMAIN files # {}
    <3> DEFINE cols == [a \in FileArrays |-> [i \in DOMAIN rows |-> rows[i][a]]]
               dirs == [dirnames |-> AllDirs(di), fileinodes |-> [i \in DOMAIN rows |-> i]]
    <3>1. FileIndexes = AddEntries(cols, dirs)
      BY <2>2 DEF FileIndexes
    <3>2. t \notin DOMAIN cols /\ t \notin DOMAIN dirs
      BY DEF ComputedTags, FileArrays
    <3> QED
      BY <3>1, <3>2 DEF AddEntries
  <2> QED
    BY <2>1, <2>2
<1>4. t \notin DOMAIN RelationIndexes
  BY DEF ComputedTags, RelationIndexes, Restrict, RelTags
<1> QED BY <1>1, <1>2, <1>3, <1>4

\* The header has what was computed, unless the caller has set the tag.
LEMMA HeaderHas ==
  ASSUME NEW t \in ComputedTags, t \notin DOMAIN customTags
  PROVE  HeaderEntries[t] = IF t = "size" THEN payloadSize % Words ELSE Payload
<1> DEFINE base == [name |-> meta.name, version |-> meta.version, release |-> meta.release,
     arch |-> meta.arch, sourcerpm |-> meta.sourcePackage, size |-> payloadSize % Words,
     payloaddigest |-> Payload]
<1>1. t \in DOMAIN base /\ base[t] = IF t = "size" THEN payloadSize % Words ELSE Payload
  BY DEF ComputedTags
<1> HIDE DEF base
<1>2. t \in DOMAIN GenIndexes /\ GenIndexes[t] = base[t]
  <2>1. GenIndexes = AddEntries(AddEntries(AddEntries(base, EpochIndex), ScriptIndexes),
                                ChangelogIndex)
    BY DEF GenIndexes, base
  <2> DEFINE g1 == AddEntries(base, EpochIndex)
             g2 == AddEntries(g1, ScriptIndexes)
  <2> HIDE DEF g1, g2
  <2>2. t \in DOMAIN g1 /\ g1[t] = base[t]
    BY <1>1, NotComputed, Kept DEF g1
  <2>3. t \in DOMAIN g2 /\ g2[t] = base[t]
    BY <2>2, NotComputed, Kept DEF g2
  <2> QED
    BY <2>1, <2>3, NotComputed, Kept DEF g1, g2
<1> DEFINE h1 == AddEntries(GenIndexes, FileIndexes)
           h2 == AddEntries(h1, RelationIndexes)
<1> HIDE DEF h1, h2
<1>3. t \in DOMAIN h1 /\ h1[t] = base[t]
  BY <1>2, NotComputed, Kept DEF h1
<1>4. t \in DOMAIN h2 /\ h2[t] = base[t]
  BY <1>3, NotComputed, Kept DEF h2
<1>5. HeaderEntries = AddEntries(h2, customTags)
  BY DEF HeaderEntries, h1, h2
<1> QED
  BY <1>1, <1>4, <1>5, Kept

-----------------------------------------------------------------------------
(* Header, signatures and payload in the output.                            *)

\* The header and the signatures are those of the object as it is.
HeaderBuilt == hdr = [h |-> "immutable", entries |-> HeaderEntries]

\* So is the signature header the writer took.
SigsBuilt ==
  /\ "sig" \in DOMAIN image
  /\ image["sig"] = [h |-> "signatures", entries |-> AddEntries(Signatures(hdr), customSigs)]

\* What the header, the signatures and the size are made of: until Write returns,
\* they are those of the object, which only the steps before the sections change.
ContentInv ==
  /\ customTags = [t \in DOMAIN customTags |-> customTags[t]]
  /\ customSigs = [t \in DOMAIN customSigs |-> customSigs[t]]
  /\ payloadSize = BodySum(cpio.entries)
  /\ pc \in {"files"} \cup SectionSteps => res = "none"
  /\ pc \in SectionSteps => cpio.closed
  /\ pc \in {"pad", "header", "payload"} => HeaderBuilt /\ SigsBuilt
  /\ pc = "payload" => "header" \in DOMAIN image /\ image["header"] = hdr

\* A signature that the caller has not set is the one computed.
LEMMA SigHas ==
  ASSUME NEW h, NEW t
  PROVE  LET s == AddEntries(Signatures(h), customSigs)
         IN  /\ t \in {"size", "sha256", "payloadsize"} => t \in DOMAIN s
             /\ t \in DOMAIN s \ DOMAIN customSigs =>
                  /\ t = "size" => s[t] = <<h, Payload>>
                  /\ t = "sha256" => s[t] = h
                  /\ t = "payloadsize" => s[t] = payloadSize % Words
                  /\ t = "rsa" => s[t] = h
                  /\ t = "pgp" => s[t] = <<h, Payload>>
<1> DEFINE base == [size |-> <<h, Payload>>, sha256 |-> h, payloadsize |-> payloadSize % Words]
           keys == IF pgpSigner THEN [rsa |-> h, pgp |-> <<h, Payload>>] ELSE EmptyMap
           sigs == AddEntries(base, keys)
           s == AddEntries(sigs, customSigs)
<1>1. Signatures(h) = sigs
  BY DEF Signatures
<1>2. /\ DOMAIN base = {"size", "sha256", "payloadsize"}
      /\ base["size"] = <<h, Payload>> /\ base["sha256"] = h
      /\ base["payloadsize"] = payloadSize % Words
  OBVIOUS
<1>3. /\ DOMAIN keys \in {{"rsa", "pgp"}, {}}
      /\ "rsa" \in DOMAIN keys => keys["rsa"] = h
      /\ "pgp" \in DOMAIN keys => keys["pgp"] = <<h, Payload>>
  BY DEF EmptyMap
<1> HIDE DEF base, keys
<1>4. /\ DOMAIN sigs = DOMAIN base \cup DOMAIN keys
      /\ t \in DOMAIN keys => sigs[t] = keys[t]
      /\ t \in DOMAIN base /\ t \notin DOMAIN keys => sigs[t] = base[t]
  BY DEF AddEntries
<1> HIDE DEF sigs
<1>5. /\ DOMAIN s = DOMAIN sigs \cup DOMAIN customSigs
      /\ t \in DOMAIN sigs /\ t \notin DOMAIN customSigs => s[t] = sigs[t]
  BY DEF AddEntries
<1> HIDE DEF s
<1>6. t \in {"size", "sha256", "payloadsize"} => t \in DOMAIN s
  BY <1>2, <1>4, <1>5
<1>7. t \in {"size", "sha256", "payloadsize"} /\ t \notin DOMAIN customSigs => s[t] = base[t]
  BY <1>2, <1>3, <1>4, <1>5
<1>8. t \in {"rsa", "pgp"} /\ t \in DOMAIN s \ DOMAIN customSigs => s[t] = keys[t] /\ t \in DOMAIN keys
  BY <1>2, <1>3, <1>4, <1>5
<1> QED
  BY <1>1, <1>2, <1>3, <1>6, <1>7, <1>8 DEF s

\* A new object has nothing in its maps and its payload.
LEMMA InitContent == Init => ContentInv
<1> SUFFICES ASSUME Init PROVE ContentInv
  OBVIOUS
<1>1. /\ customTags = EmptyMap /\ customSigs = EmptyMap
      /\ cpio.entries = << >> /\ payloadSize = 0 /\ pc = "idle"
  BY DEF Init, NewRPM
<1> QED
  BY <1>1, BodySumEmpty DEF ContentInv, SectionSteps, EmptyMap

\* What a call of the caller leaves alone, and what it adds to.
LEMMA CallContent ==
  ASSUME Call
  PROVE  /\ pc = "idle" /\ pc' \in {"idle", "panic"}
         /\ UNCHANGED <<cpio, payloadSize, image, res, hdr>>
         /\ customTags' = customTags \/ \E t, e : customTags' = Put(customTags, t, e)
         /\ customSigs' = customSigs \/ \E t, e : customSigs' = Put(customSigs, t, e)
<1>1. /\ pc = "idle" /\ pc' \in {"idle", "panic"}
      /\ UNCHANGED <<cpio, payloadSize, image, res, hdr>>
  BY DEF Call, AddFile, AllowListDirs, AddScript, SetChangelog, AddCustomTag,
     AddCustomSig, SetPGPSigner, ClearSignatures, SetSignature, Calling, Idle,
     Panic, payloadVars, writeVars
<1>2. customTags' = customTags \/ \E t, e : customTags' = Put(customTags, t, e)
  BY DEF Call, AddFile, AllowListDirs, AddScript, SetChangelog, AddCustomTag,
     AddCustomSig, SetPGPSigner, ClearSignatures, SetSignature, apiVars
<1>3. customSigs' = customSigs \/ \E t, e : customSigs' = Put(customSigs, t, e)
  BY DEF Call, AddFile, AllowListDirs, AddScript, SetChangelog, AddCustomTag,
     AddCustomSig, SetPGPSigner, ClearSignatures, SetSignature, apiVars
<1> QED
  BY <1>1, <1>2, <1>3

\* A section step that leaves the built sections alone.
LEMMA SectionContent ==
  ASSUME ContentInv, pc \in SectionSteps, UNCHANGED <<apiVars, payloadVars>>,
         \/ pc' = "idle" /\ res' # "none"
         \/ /\ pc' \in SectionSteps /\ res' = res
            /\ pc' \in {"pad", "header", "payload"} => (HeaderBuilt /\ SigsBuilt)'
            /\ pc' = "payload" => "header" \in DOMAIN image' /\ image'["header"] = hdr'
  PROVE  ContentInv'
BY DEF ContentInv, SectionSteps, apiVars, payloadVars

\* The signatures computed do not change, nor do those written.
LEMMA BuiltStays ==
  ASSUME HeaderBuilt, SigsBuilt, UNCHANGED <<apiVars, payloadVars, hdr>>,
         image' = image \/ \E c : \E k \in {"pad", "header", "payload"} : image' = Put(image, k, c)
  PROVE  (HeaderBuilt /\ SigsBuilt)'
<1>1. HeaderBuilt'
  BY HeaderSame DEF HeaderBuilt
<1>2. "sig" \in DOMAIN image' /\ image'["sig"] = image["sig"]
  BY DEF SigsBuilt, Put
<1>3. Signatures(hdr)' = Signatures(hdr) /\ customSigs' = customSigs
  BY HeaderSame DEF Signatures, apiVars, payloadVars
<1> QED
  BY <1>1, <1>2, <1>3 DEF SigsBuilt, AddEntries

\* Every step keeps it.
LEMMA NextContent == ObjectOK /\ ContentInv /\ [Next]_vars => ContentInv'
<1> SUFFICES ASSUME ObjectOK, ContentInv, [Next]_vars PROVE ContentInv'
  OBVIOUS
<1>1. CASE Call
  <2>1. customTags' = [t \in DOMAIN customTags' |-> customTags'[t]]
    BY <1>1, CallContent DEF ContentInv, Put
  <2>2. customSigs' = [t \in DOMAIN customSigs' |-> customSigs'[t]]
    BY <1>1, CallContent DEF ContentInv, Put
  <2> QED
    BY <1>1, <2>1, <2>2, CallContent DEF ContentInv, SectionSteps
<1>2. CASE WriteStart
  BY <1>2 DEF WriteStart, ContentInv, SectionSteps, apiVars, payloadVars
<1>3. ASSUME NEW n \in Names, WriteFile(n) PROVE ContentInv'
  <2>1. /\ pc = "files" /\ res = "none" /\ UNCHANGED apiVars
        /\ (pc' = "files" /\ res' = res) \/ pc' = "idle"
    BY <1>3 DEF WriteFile, Return, ContentInv
  <2>2. payloadSize' = BodySum(cpio'.entries)
    <3>1. CASE UNCHANGED <<cpio, payloadSize>>
      BY <3>1 DEF ContentInv
    <3>2. CASE CpioWrite(n, files[n])
      <4> DEFINE e == CpioEntry(n, files[n])
      <4>1. cpio' = [cpio EXCEPT !.entries = Append(@, e)] /\ payloadSize' = payloadSize + e.body
        BY <3>2 DEF CpioWrite, CpioEntry
      <4>2. e \in EntryType
        <5>1. files[n] \in FileType
          BY <1>3, FileTyped DEF WriteFile, IsNext, ObjectOK
        <5>2. files[n].mode \in SUBSET TypeBits /\ files[n].time \in Nat /\ files[n].body \in Nat
          BY <5>1 DEF FileType
        <5>3. EntryMode(files[n]) \in SUBSET TypeBits
          BY <5>2 DEF EntryMode, TypeBits
        <5> QED
          BY <5>2, <5>3 DEF EntryType, CpioEntry
      <4> HIDE DEF e
      <4>3. cpio \in [entries : Seq(EntryType), closed : BOOLEAN]
        BY DEF ObjectOK
      <4>4. cpio'.entries = Append(cpio.entries, e) /\ cpio.entries \in Seq(EntryType)
        BY <4>1, <4>3
      <4> QED
        BY <4>1, <4>2, <4>4, BodySumAppend DEF ContentInv
    <3> QED
      BY <1>3, <3>1, <3>2 DEF WriteFile
  <2> QED
    BY <2>1, <2>2 DEF ContentInv, SectionSteps, apiVars
<1>4. CASE ClosePayload
  <2>1. cpio'.entries = cpio.entries /\ payloadSize' = payloadSize
    BY <1>4 DEF ClosePayload, ObjectOK
  <2>2. pc = "files" /\ ((pc' = "lead" /\ res' = res /\ cpio'.closed) \/ pc' = "idle")
    BY <1>4 DEF ClosePayload, Goto, Return, ObjectOK
  <2> QED
    BY <1>4, <2>1, <2>2 DEF ClosePayload, ContentInv, SectionSteps, apiVars
<1>5. CASE WriteLead
  <2>1. /\ pc = "lead" /\ UNCHANGED <<apiVars, payloadVars>>
        /\ (pc' = "idle" /\ res' # "none") \/ (pc' = "sig" /\ res' = res)
    BY <1>5 DEF WriteLead, Take, Refuse, Return, Goto
  <2> QED
    BY <2>1, SectionContent DEF SectionSteps
<1>6. CASE WriteSignatures
  <2>1. pc = "sig" /\ UNCHANGED <<apiVars, payloadVars>>
    BY <1>6 DEF WriteSignatures
  <2>2. CASE pc' = "idle" /\ res' # "none"
    BY <2>1, <2>2, SectionContent DEF SectionSteps
  <2> DEFINE h == [h |-> "immutable", entries |-> HeaderEntries]
             s == [h |-> "signatures", entries |-> AddEntries(Signatures(h), customSigs)]
  <2>3. CASE Take("sig", s, "pad") /\ hdr' = h
    <3>1. HeaderBuilt'
      BY <2>1, <2>3, HeaderSame DEF HeaderBuilt
    <3>2. image'["sig"] = s /\ "sig" \in DOMAIN image'
      BY <2>3 DEF Take, Put
    <3>3. Signatures(hdr)' = Signatures(h) /\ customSigs' = customSigs
      BY <2>1, <2>3, HeaderSame DEF Signatures, apiVars, payloadVars
    <3>4. SigsBuilt'
      BY <3>2, <3>3 DEF SigsBuilt
    <3> QED
      BY <2>1, <2>3, <3>1, <3>4, SectionContent DEF SectionSteps, Take, Goto
  <2> QED
    BY <1>6, <2>2, <2>3 DEF WriteSignatures, Refuse, Return
<1>7. CASE WritePad
  <2>1. /\ pc = "pad" /\ UNCHANGED <<apiVars, payloadVars>>
        /\ \/ pc' = "idle" /\ res' # "none"
           \/ pc' = "header" /\ res' = res /\ hdr' = hdr /\ image' = Put(image, "pad", 0)
    BY <1>7 DEF WritePad, Take, Refuse, Return, Goto
  <2>2. pc' = "header" => (HeaderBuilt /\ SigsBuilt)'
    BY <2>1, BuiltStays DEF ContentInv
  <2> QED
    BY <2>1, <2>2, SectionContent DEF SectionSteps
<1>8. CASE WriteHeader
  <2>1. /\ pc = "header" /\ UNCHANGED <<apiVars, payloadVars>>
        /\ \/ pc' = "idle" /\ res' # "none"
           \/ pc' = "payload" /\ res' = res /\ hdr' = hdr /\ image' = Put(image, "header", hdr)
    BY <1>8 DEF WriteHeader, Take, Refuse, Return, Goto
  <2>2. pc' = "payload" => (HeaderBuilt /\ SigsBuilt)'
    BY <2>1, BuiltStays DEF ContentInv
  <2>3. pc' = "payload" => "header" \in DOMAIN image' /\ image'["header"] = hdr'
    BY <2>1 DEF Put
  <2> QED
    BY <2>1, <2>2, <2>3, SectionContent DEF SectionSteps
<1>9. CASE WritePayload
  <2>1. pc = "payload" /\ UNCHANGED <<apiVars, payloadVars>> /\ pc' = "idle" /\ res' # "none"
    BY <1>9 DEF WritePayload, Refuse, Return
  <2> QED
    BY <2>1, SectionContent DEF SectionSteps
<1>10. CASE UNCHANGED vars
  <2>1. UNCHANGED <<apiVars, payloadVars, hdr, image, pc, res>>
    BY <1>10 DEF vars, writeVars
  <2>2. pc \in {"pad", "header", "payload"} => (HeaderBuilt /\ SigsBuilt)'
    BY <2>1, BuiltStays DEF ContentInv
  <2> QED
    BY <2>1, <2>2 DEF ContentInv, apiVars, payloadVars
<1> QED
  BY <1>1, <1>2, <1>3, <1>4, <1>5, <1>6, <1>7, <1>8, <1>9, <1>10 DEF Next, WriteStep

\* The two properties of a finished Write.
DoneInv == SignedIsWritten /\ SizeIsPayload

\* Where Write returns "ok", what its writer took is what was computed.
LEMMA DoneNow ==
  ASSUME ObjectOK, ContentInv, WritePayload, res' = "ok"
  PROVE  DoneInv'
<1>1. /\ pc = "payload" /\ image' = Put(image, "payload", Payload)
      /\ UNCHANGED <<apiVars, payloadVars>>
  BY DEF WritePayload, Refuse, Return
<1>2. /\ HeaderBuilt /\ SigsBuilt /\ "header" \in DOMAIN image /\ image["header"] = hdr
      /\ payloadSize = BodySum(cpio.entries) /\ cpio.closed
  BY <1>1 DEF ContentInv, SectionSteps
<1>3. /\ image'["sig"] = image["sig"] /\ image'["header"] = hdr
      /\ image'["payload"] = Payload
  BY <1>1, <1>2 DEF Put, SigsBuilt
<1>4. customTags' = customTags /\ customSigs' = customSigs
  BY <1>1 DEF apiVars
<1>5. image'["sig"].entries = AddEntries(Signatures(hdr), customSigs)
  BY <1>2, <1>3 DEF SigsBuilt
<1>6. /\ "payloaddigest" \notin DOMAIN customTags => hdr.entries["payloaddigest"] = Payload
      /\ "size" \notin DOMAIN customTags => hdr.entries["size"] = payloadSize % Words
  BY <1>2, HeaderHas DEF HeaderBuilt, ComputedTags
<1>7. Payload.complete = cpio.closed /\ Payload.entries = cpio.entries
  BY DEF Payload
<1> DEFINE s == image'["sig"].entries
<1>8. /\ {"sha256", "size", "payloadsize"} \subseteq DOMAIN s
      /\ \A t \in DOMAIN s \ DOMAIN customSigs :
           /\ t \in {"sha256", "rsa"} => s[t] = hdr
           /\ t \in {"size", "pgp"} => s[t] = <<hdr, Payload>>
           /\ t = "payloadsize" => s[t] = payloadSize % Words
  BY <1>5, SigHas
<1> HIDE DEF s
<1>9. SignedIsWritten'
  BY <1>2, <1>3, <1>4, <1>6, <1>7, <1>8 DEF SignedIsWritten, s
<1>10. SizeIsPayload'
  BY <1>2, <1>3, <1>4, <1>6, <1>7, <1>8 DEF SizeIsPayload, s
<1> QED
  BY <1>9, <1>10 DEF DoneInv

\* A step that does not finish a Write leaves what they relate as it is.
LEMMA NextDone == ObjectOK /\ ContentInv /\ DoneInv /\ [Next]_vars => DoneInv'
<1> SUFFICES ASSUME ObjectOK, ContentInv, DoneInv, [Next]_vars PROVE DoneInv'
  OBVIOUS
<1>1. ASSUME UNCHANGED <<image, res>>, DOMAIN customTags \subseteq DOMAIN customTags',
             DOMAIN customSigs \subseteq DOMAIN customSigs'
      PROVE  DoneInv'
  BY <1>1 DEF DoneInv, SignedIsWritten, SizeIsPayload
<1>2. CASE Call
  BY <1>1, <1>2, CallContent DEF Put
<1>3. CASE res' # "ok"
  BY <1>3 DEF DoneInv, SignedIsWritten, SizeIsPayload
<1>4. CASE WritePayload
  BY <1>3, <1>4, DoneNow
<1>5. CASE WriteStart
  BY <1>3, <1>5 DEF WriteStart
<1>6. CASE \E n \in Names : WriteFile(n)
  BY <1>3, <1>6 DEF WriteFile, Return, ContentInv
<1>7. CASE ClosePayload
  BY <1>3, <1>7 DEF ClosePayload, Return, Goto, ContentInv
<1>8. CASE WriteLead \/ WriteSignatures \/ WritePad \/ WriteHeader
  BY <1>3, <1>8 DEF WriteLead, WriteSignatures, WritePad, WriteHeader, Take, Refuse,
     Return, Goto, ContentInv, SectionSteps
<1>9. CASE UNCHANGED vars
  BY <1>1, <1>9 DEF vars, apiVars, writeVars
<1> QED
  BY <1>2, <1>4, <1>5, <1>6, <1>7, <1>8, <1>9 DEF Next, WriteStep

\* Both always hold.
LEMMA ContentAlways == Spec => [](ContentInv /\ DoneInv)
<1>1. Init => DoneInv
  BY DEF Init, DoneInv, SignedIsWritten, SizeIsPayload
<1> QED
  BY <1>1, InitContent, ObjectInv, NextContent, NextDone, PTL DEF Spec

\* In a complete output, the digest in the header is that of the payload, and
\* the signatures are those of the header and of both, whatever calls and
\* Writes, failed or not, came before.
THEOREM SignedCorrect == Spec => []SignedIsWritten
BY ContentAlways, PTL DEF DoneInv

\* The two size tags are the number of body bytes in the payload, modulo 2^32.
THEOREM SizeCorrect == Spec => []SizeIsPayload
BY ContentAlways, PTL DEF DoneInv

\* The caller's tags and signatures are in what was put out, with their values.
THEOREM CustomCorrect == Spec => []CustomWins
<1>1. ContentInv => CustomWins
  <2> SUFFICES ASSUME ContentInv PROVE CustomWins
    OBVIOUS
  <2>1. ASSUME pc = "payload"
        PROVE  Restrict(image["header"].entries, DOMAIN customTags) = customTags
    <3>1. image["header"].entries = HeaderEntries
      BY <2>1 DEF ContentInv, HeaderBuilt
    <3>2. \A t \in DOMAIN customTags : HeaderEntries[t] = customTags[t]
      BY DEF HeaderEntries, AddEntries
    <3> QED
      BY <3>1, <3>2 DEF ContentInv, Restrict
  <2>2. ASSUME pc \in {"pad", "header", "payload"}
        PROVE  Restrict(image["sig"].entries, DOMAIN customSigs) = customSigs
    <3>1. image["sig"].entries = AddEntries(Signatures(hdr), customSigs)
      BY <2>2 DEF ContentInv, SigsBuilt
    <3>2. \A t \in DOMAIN customSigs :
            AddEntries(Signatures(hdr), customSigs)[t] = customSigs[t]
      BY DEF AddEntries
    <3> QED
      BY <3>1, <3>2 DEF ContentInv, Restrict
  <2> QED
    BY <2>1, <2>2 DEF CustomWins
<1> QED
  BY <1>1, ContentAlways, PTL
=============================================================================
