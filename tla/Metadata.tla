------------------------------- MODULE Metadata -----------------------------
(***************************************************************************)
(* The two kinds of lists in an RPMMetaData that a caller has in common     *)
(* with the RPM object, the relations and the changelog.  They have no      *)
(* state in common: to bound the model, a behaviour uses one of the two.    *)
(***************************************************************************)
EXTENDS Relations

CONSTANTS Changelogs, NewTexts, ColumnOverrides, Words, MaxLogSets, MaxReads

VARIABLES entries, changelog, held, customTags, logIndex, logPhase, logSets, reads,
          logWritten

Log == INSTANCE Changelog WITH
  MaxSets <- MaxLogSets, Overrides <- ColumnOverrides, index <- logIndex, phase <- logPhase,
  sets <- logSets, written <- logWritten

ASSUME ChangelogsAssumption ==
  /\ Words \in Nat \ {0}
  /\ \A c \in Changelogs :
       /\ c \in Seq(Range(c))
       /\ \A i \in DOMAIN c :
            /\ c[i] = [time |-> c[i].time, name |-> c[i].name, text |-> c[i].text]
            /\ c[i].time \in Log!Times
  /\ \A o \in ColumnOverrides :
       /\ DOMAIN o \subseteq {"time", "name", "text"}
       /\ \A a \in DOMAIN o :
            /\ o[a] = [type |-> o[a].type, values |-> o[a].values]
            /\ o[a].values \in Seq(Range(o[a].values))
            /\ a = "time" => o[a].values \in Seq(Log!Times)

logVars == <<entries, changelog, held, customTags, logIndex, logPhase, logSets, reads,
             logWritten>>

MetaInit == Init /\ Log!Init

MetaNext ==
  \/ logSets = 0 /\ customTags = EmptyMap /\ logPhase = "open" /\ Next /\ UNCHANGED logVars
  \/ sets = 0 /\ packages = << >> /\ phase = "open" /\ Log!Next /\ UNCHANGED vars

MetaSpec == MetaInit /\ [][MetaNext]_<<vars, logVars>>

-----------------------------------------------------------------------------
(* Changelog's properties.                                                  *)

\* What the caller sees of the changelog when it writes is what is read then
\* (changelog.go:19 and 82).
SeenIsRead == Log!SeenIsRead

\* No column is left behind a changelog that was read, where it would hide the
\* changes of the next Write (changelog.go:52, header.go:628).
NothingHides == Log!NothingHides
=============================================================================
