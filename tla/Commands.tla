------------------------------ MODULE Commands ------------------------------
(***************************************************************************)
(* The commands of cmd/ on a file system: tar2rpm, sign, inject-in-changelog *)
(* and dump-changelog, one after the other, each up to its end, a failure   *)
(* or its being killed.                                                     *)
(*                                                                          *)
(* A file is a sequence of units, a package so many of them: its lead, its  *)
(* signatures, its header and its payload, whose numbers differ from one    *)
(* package to another.  A package is its name, its files, its changelog (of *)
(* each entry the number of texts in it), its compressor, the name in its   *)
(* lead and whether it is signed; that reading and writing keep these is    *)
(* shown in RoundTrip.                                                      *)
(***************************************************************************)
EXTENDS Integers, FiniteSets, Functions, Tar, Compressor

CONSTANTS
  Paths,             \* files
  Packages,          \* packages a program using the library may have left there
  Tars,              \* streams given to tar2rpm
  Settings,          \* compressor settings given to tar2rpm
  AllowLists,        \* directories given to tar2rpm; NoList when it has no list
  NoList,
  Indexes,           \* indexes given to inject-in-changelog
  MaxRuns            \* bound: commands run

ASSUME CommandsAssumption == Indexes \subseteq Int /\ MaxRuns \in Nat

\* A stream is a sequence of entries and an end; a name is cleaned to a name.
ASSUME TarsAssumption ==
  /\ Tars \subseteq [entries : Seq([name : STRING, kind : STRING, owner : STRING, body : Nat]),
                     end : {"eof", "broken"}]
  /\ \A tar \in Tars : \A i \in DOMAIN tar.entries : CleanName(tar.entries[i].name) \in STRING

FileType == [kind : {"dir", "link", "reg"}, body : Nat, owner : STRING]

\* A package has finitely many files, and a lead with its name and version.
ASSUME PackagesAssumption ==
  \A p \in Packages :
    /\ p = [name |-> p.name, files |-> p.files, log |-> p.log, compressor |-> p.compressor,
            lead |-> p.lead, signed |-> p.signed]
    /\ p.name \in STRING /\ p.compressor \in STRING
    /\ IsFiniteSet(DOMAIN p.files) /\ DOMAIN p.files \subseteq STRING
    /\ p.files \in [DOMAIN p.files -> FileType]
    /\ p.log \in Seq(Nat)
    /\ p.lead = <<p.name, "1">>
    /\ p.signed \in BOOLEAN

VARIABLES
  disk,              \* the files there are, each a sequence of units
  cmd,               \* the command that runs: its arguments, stage, package, ...
  exit,              \* how the last one ended
  runs               \* commands run

vars == <<disk, cmd, exit, runs>>

NoPackage == [name |-> "", files |-> EmptyMap, log |-> << >>, compressor |-> "",
              lead |-> <<"", "1">>, signed |-> FALSE]

NoCommand == [op |-> "none", in |-> "", out |-> "", arg |-> EmptyMap, stage |-> "none",
              source |-> NoPackage, package |-> NoPackage, before |-> << >>, next |-> 1]

-----------------------------------------------------------------------------
(* Packages as files.                                                       *)

Sum(s) ==
  LET sum[k \in 0 .. Len(s)] == IF k = 0 THEN 0 ELSE sum[k - 1] + s[k]
  IN  sum[Len(s)]

\* Fault variant of LeadName: the version is put behind the name once more.
LeadNameAgain(p, read) == IF read THEN Append(p.lead, "1") ELSE <<p.name, "1">>

\* The name in the lead: one that was read from a file stays as it is.
LeadName(p, read) == IF read THEN p.lead ELSE <<p.name, "1">>

\* The sections Write puts out: the lead, and of the others as many units as
\* there are signatures, changelog texts and files.
Units(p, read) ==
  <<[section |-> "lead", of |-> LeadName(p, read)]>>
  \o [i \in 1 .. (IF p.signed THEN 2 ELSE 1) |-> [section |-> "sig", i |-> i, of |-> p]]
  \o [i \in 1 .. 1 + Sum(p.log) |-> [section |-> "header", i |-> i, of |-> p]]
  \o [i \in 1 .. 1 + Cardinality(DOMAIN p.files) |->
        [section |-> "payload", i |-> i, of |-> p]]

StartsWith(f, s) == Len(s) <= Len(f) /\ SubSeq(f, 1, Len(s)) = s

\* The packages of which a file has a part.
PartsOf(f) == {f[i].of : i \in {j \in DOMAIN f : f[j].section # "lead"}}

\* Whether a file has a section of a package, from its first to its last unit.
HasSection(f, p, section) ==
  \A u \in Range(Units(p, TRUE)) : u.section = section => u \in Range(f)

\* What ReadRPMFile can make of a file, NoPackage being an error or a panic:
\* of a whole package, that package; of a file that is torn, that was written
\* over in part, or that has something behind the package, an error, or the
\* package with the lead that is there, the header of one and the payload of
\* one.  (A section that is torn is an error here; what it looks like does not matter to the commands.)
Reads(f) ==
  LET having(section) == {p \in PartsOf(f) : HasSection(f, p, section)}
      whole == {p \in having("payload") : f = Units(p, TRUE) /\ SetupDecompressor(p.compressor)}
      pairs == {c \in having("header") \X having("payload") :
                  c[1].compressor = c[2].compressor /\ SetupDecompressor(c[1].compressor)}
  IN  IF whole # {} THEN whole
      ELSE {[c[1] EXCEPT !.files = c[2].files, !.lead = f[1].of] : c \in pairs} \cup {NoPackage}

-----------------------------------------------------------------------------
(* Starting, ending, and being killed.                                      *)

Init ==
  /\ disk \in UNION {[S -> {Units(p, FALSE) : p \in Packages}] : S \in SUBSET Paths}
  /\ cmd = NoCommand
  /\ exit = NoCommand
  /\ runs = 0

File(path) == IF path \in DOMAIN disk THEN disk[path] ELSE << >>

Start(c) ==
  /\ cmd = NoCommand
  /\ runs < MaxRuns
  /\ cmd' = [c EXCEPT !.before = File(c.out)]
  /\ exit' = NoCommand
  /\ runs' = runs + 1
  /\ UNCHANGED disk

StartTar2rpm(out, tar, setting, allow) ==
  Start([NoCommand EXCEPT !.op = "tar2rpm", !.out = out, !.stage = "create",
           !.arg = [tar |-> tar, setting |-> setting, allow |-> allow]])

StartSign(in, out) ==
  Start([NoCommand EXCEPT !.op = "sign", !.in = in, !.out = out, !.stage = "key"])

StartInject(in, out, index) ==
  Start([NoCommand EXCEPT !.op = "inject", !.in = in, !.out = out, !.stage = "read",
           !.arg = [index |-> index]])

StartDump(in) ==
  Start([NoCommand EXCEPT !.op = "dump", !.in = in, !.out = in, !.stage = "read"])

\* The command ends: "ok", "error", "panic", and "io" for an error of w.Write.
Exit(how) == cmd' = NoCommand /\ exit' = [cmd EXCEPT !.stage = how]

Goto(stage) == cmd' = [cmd EXCEPT !.stage = stage] /\ UNCHANGED exit

Kill ==
  /\ cmd # NoCommand
  /\ Exit("killed")
  /\ UNCHANGED <<disk, runs>>

-----------------------------------------------------------------------------
(* tar2rpm.                                                                 *)

\* The tar file is opened and the output created, that is, made empty.
Create ==
  /\ cmd.stage = "create"
  /\ \/ Exit("error") /\ UNCHANGED disk
     \/ Goto("tar") /\ disk' = Put(disk, cmd.out, << >>)
  /\ UNCHANGED runs

\* Fault variant of ReadTar: an error in the stream makes it try again.
ReadTarAgain ==
  LET r == FromTar(cmd.arg.tar)
  IN  /\ cmd.stage = "tar"
      /\ \/ ~SetupCompressor(cmd.arg.setting) /\ Exit("error")
         \/ /\ SetupCompressor(cmd.arg.setting)
            /\ ~r.failed
            /\ cmd' = [cmd EXCEPT !.stage = "allow", !.package =
                         [NoPackage EXCEPT !.name = "tar", !.lead = <<"tar", "1">>, !.files = r.files,
                            !.compressor = CompressorName(cmd.arg.setting)]]
            /\ UNCHANGED exit
      /\ UNCHANGED <<disk, runs>>

\* NewRPM and FromTar.
ReadTar ==
  LET r == FromTar(cmd.arg.tar)
  IN  /\ cmd.stage = "tar"
      /\ \/ ~SetupCompressor(cmd.arg.setting) /\ Exit("error")
         \/ SetupCompressor(cmd.arg.setting) /\ r.failed /\ Exit("error")
         \/ /\ SetupCompressor(cmd.arg.setting)
            /\ ~r.failed
            /\ cmd' = [cmd EXCEPT !.stage = "allow", !.package =
                         [NoPackage EXCEPT !.name = "tar", !.lead = <<"tar", "1">>, !.files = r.files,
                            !.compressor = CompressorName(cmd.arg.setting)]]
            /\ UNCHANGED exit
      /\ UNCHANGED <<disk, runs>>

\* The allow list, if it is asked for and its file can be opened.
AllowList ==
  LET list == cmd.arg.allow
  IN  /\ cmd.stage = "allow"
      /\ \/ list = NoList /\ Goto("write")
         \/ /\ list # NoList
            /\ \/ Exit("error")
               \/ /\ cmd' = [cmd EXCEPT !.stage = "write", !.package.files =
                               Restrict(@, {n \in DOMAIN @ : @[n].kind = "dir" => n \in list})]
                  /\ UNCHANGED exit
      /\ UNCHANGED <<disk, runs>>

-----------------------------------------------------------------------------
(* sign, inject-in-changelog and dump-changelog.                            *)

\* sign reads its key first.
ReadKey ==
  /\ cmd.stage = "key"
  /\ Goto("read") \/ Exit("error")
  /\ UNCHANGED <<disk, runs>>

\* ReadRPMFile, and what the command makes of the package.
ReadInput ==
  /\ cmd.stage = "read"
  /\ \E p \in Reads(File(cmd.in)) :
       \/ p = NoPackage /\ (Exit("error") \/ Exit("panic"))
       \/ p # NoPackage /\ cmd.op = "dump" /\ Exit("ok")
       \/ /\ p # NoPackage /\ cmd.op # "dump"
          /\ cmd' = [cmd EXCEPT !.source = p, !.package = [p EXCEPT !.signed = cmd.op = "sign"],
                       !.stage = IF cmd.op = "sign" THEN "open" ELSE "edit"]
          /\ UNCHANGED exit
  /\ UNCHANGED <<disk, runs>>

\* Fault variant of Effective: -1 is the last entry but one.
EffectiveShort(index, n) == IF index < 0 THEN n + index - 1 ELSE index

\* The entry an index means: negative ones count from the end.
Effective(index, n) == IF index < 0 THEN n + index ELSE index

\* The changelog is changed: an index behind its end is an error, but the one
\* right behind it gets by, and out of the slice.
Edit ==
  LET n == Len(cmd.source.log)
      i == Effective(cmd.arg.index, n)
  IN  /\ cmd.stage = "edit"
      /\ \/ n = 0 /\ Exit("error")
         \/ n > 0 /\ (i < 0 \/ n < i) /\ Exit("error")
         \/ n > 0 /\ i = n /\ Exit("panic")
         \/ /\ i \in 0 .. n - 1
            /\ cmd' = [cmd EXCEPT !.stage = "open", !.package.log[i + 1] = @ + 1]
            /\ UNCHANGED exit
      /\ UNCHANGED <<disk, runs>>

\* The output is opened, and made if it is not there; it keeps what it has.
OpenOutput ==
  /\ cmd.stage = "open"
  /\ \/ Exit("error") /\ UNCHANGED disk
     \/ Goto("write") /\ disk' = Put(disk, cmd.out, File(cmd.out))
  /\ UNCHANGED runs

-----------------------------------------------------------------------------
(* Write, to the opened file.                                               *)

\* A unit over the one at its place, or behind the last.
Over(f, i, unit) == IF i <= Len(f) THEN [f EXCEPT ![i] = unit] ELSE Append(f, unit)

Output == Units(cmd.package, cmd.op # "tar2rpm")

\* Write: the signer is called when the lead is out.
WriteUnit ==
  /\ cmd.stage = "write"
  /\ cmd.next <= Len(Output)
  /\ disk' = [disk EXCEPT ![cmd.out] = Over(@, cmd.next, Output[cmd.next])]
  /\ cmd' = [cmd EXCEPT !.next = @ + 1]
  /\ UNCHANGED <<exit, runs>>

SignerFails ==
  /\ cmd.stage = "write"
  /\ cmd.op = "sign"
  /\ cmd.next = 2
  /\ Exit("error")
  /\ UNCHANGED <<disk, runs>>

WriteFails ==
  /\ cmd.stage = "write"
  /\ cmd.next <= Len(Output)
  /\ Exit("io")
  /\ UNCHANGED <<disk, runs>>

WriteEnds ==
  /\ cmd.stage = "write"
  /\ cmd.next > Len(Output)
  /\ Exit("ok")
  /\ UNCHANGED <<disk, runs>>

Command ==
  \/ \E out \in Paths, tar \in Tars, setting \in Settings, allow \in AllowLists :
       StartTar2rpm(out, tar, setting, allow)
  \/ \E in, out \in Paths : StartSign(in, out)
  \/ \E in, out \in Paths, index \in Indexes : StartInject(in, out, index)
  \/ \E in \in Paths : StartDump(in)

Step ==
  \/ Create \/ ReadTar \/ AllowList
  \/ ReadKey \/ ReadInput \/ Edit \/ OpenOutput
  \/ WriteUnit \/ SignerFails \/ WriteFails \/ WriteEnds

Next == Command \/ Step \/ Kill

\* A command that runs goes on.
Spec == Init /\ [][Next]_vars /\ WF_vars(Step)

-----------------------------------------------------------------------------
(* Properties.                                                              *)

Ended(op, how) == exit.op = op /\ exit.stage = how

\* What FromTar should find in a stream: of the entries of a name the last.
LastEntries(entries) ==
  LET names == {CleanName(entries[i].name) : i \in DOMAIN entries} \ {Root}
      last(n) == CHOOSE i \in DOMAIN entries :
                   /\ CleanName(entries[i].name) = n
                   /\ \A j \in i + 1 .. Len(entries) : CleanName(entries[j].name) # n
  IN  [n \in names |-> TarFile(entries[last(n)])]

\* A command that reports success has left the whole package in its output,
\* where it can be read back, unless a longer file was written over: for
\* tar2rpm the last entry of every name, for sign the input with a signature.
SuccessReadsBack ==
  cmd = NoCommand /\ exit.stage = "ok" /\ exit.op # "dump" =>
    LET p == exit.package
        f == disk[exit.out]
        files == LastEntries(exit.arg.tar.entries)
        allow == exit.arg.allow
    IN  /\ StartsWith(f, Units(p, TRUE))
        /\ Reads(f) = {p} \/ (exit.op # "tar2rpm" /\ Len(exit.before) > Len(Units(p, TRUE)))
        /\ exit.op = "sign" => p = [exit.source EXCEPT !.signed = TRUE]
        /\ exit.op = "tar2rpm" =>
             p.files = Restrict(files, {n \in DOMAIN files :
                         allow = NoList \/ files[n].kind # "dir" \/ n \in allow})

\* A command that fails for another reason than w.Write leaves the package it
\* works on in place as it was: sign's signer fails when a lead is written
\* already, which is the one that was there (sign/main.go:86, rpm.go:272).
\* tar2rpm's output has no trace of an older file, or is it.
FailureKeepsOld ==
  cmd = NoCommand /\ exit.stage \notin {"none", "ok"} =>
    /\ exit.op \in {"sign", "inject"} /\ exit.in = exit.out /\ exit.stage \in {"error", "panic"} =>
         File(exit.out) = exit.before
    /\ exit.op = "tar2rpm" =>
         File(exit.out) = exit.before \/ StartsWith(Units(exit.package, FALSE), File(exit.out))

\* inject-in-changelog adds to the one entry that the index means, counted from
\* the end when it is negative, and to no other; of the indexes that mean none
\* it refuses all but the one right behind the last entry, which gets by the
\* test of main.go:65 and makes it panic.
InjectChangesOne ==
  LET log == exit.source.log
      n == Len(log)
      at == {i \in 1 .. n : exit.arg.index \in {i - 1, i - 1 - n}}
  IN  /\ Ended("inject", "ok") =>
           /\ at # {}
           /\ exit.package = [exit.source EXCEPT !.signed = FALSE,
                                !.log = [i \in 1 .. n |-> IF i \in at THEN log[i] + 1 ELSE log[i]]]
      /\ Ended("inject", "panic") /\ n > 0 => exit.arg.index = n

\* Every command ends.
CommandsEnd == cmd # NoCommand ~> cmd = NoCommand
=============================================================================
