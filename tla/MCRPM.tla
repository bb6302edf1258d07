-------------------------------- MODULE MCRPM -------------------------------
(***************************************************************************)
(* Small instances of RPM: constants for the runs, chosen in the .cfg files *)
(***************************************************************************)
EXTENDS RPMRefinement, TLC

\* Three files in two directories, one base name shared, out of order with
\* the directories: "/", "/a/x", "/a/y" and "/b/x".
MCNames == 0 .. 3
MCSplitDir == (0 :> "/") @@ (1 :> "/a/") @@ (2 :> "/a/") @@ (3 :> "/b/")
MCSplitBase == (0 :> "") @@ (1 :> "x") @@ (2 :> "y") @@ (3 :> "x")

NoRels == [t \in RelTags |-> << >>]
MCMeta == [name |-> 3, version |-> 1, release |-> 1, arch |-> 0, epoch |-> 0,
           sourcePackage |-> 0, rels |-> NoRels]
MCMetas == {MCMeta}

Regular == [mode |-> {}, type |-> {}, owner |-> "root", time |-> 1, body |-> 2]
ConfigFile == [Regular EXCEPT !.type = {"config"}]
ConfigDevice == [Regular EXCEPT !.mode = {"chr"}, !.type = {"config"}]
Dir == [mode |-> {"dir"}, type |-> {}, owner |-> "bob", time |-> 2, body |-> 0]
Link == [mode |-> Symlink, type |-> {}, owner |-> "root", time |-> 3, body |-> 4]
Ghost == [mode |-> {"reg"}, type |-> {"ghost"}, owner |-> "bob", time |-> 2, body |-> 1]
ConfigGhost == [Ghost EXCEPT !.type = {"config", "ghost"}]

AllFiles == {ConfigDevice, Dir, Link, Ghost}
FewFiles == {Regular, Dir, Ghost}
GhostFiles == {Regular, Ghost}
FlagFiles == {Regular, ConfigGhost}
MCAllowLists == {{}, {1}}

\* Two files in two directories, for the runs in which Write is called again.
TwoNames == {0, 1, 3}
TwoSplitDir == Restrict(MCSplitDir, TwoNames)
TwoSplitBase == Restrict(MCSplitBase, TwoNames)

\* For the header and the signatures: one file, a meta package with every
\* optional tag, one that already provides itself, and one whose full name of
\* 66 bytes is header_test.go's shortest that is one too long.
OneNames == {0, 1}
OneSplitDir == Restrict(MCSplitDir, OneNames)
OneSplitBase == Restrict(MCSplitBase, OneNames)
Self == [name |-> 3, sense |-> "=", version |-> 3]
Other == [name |-> 5, sense |-> ">=", version |-> 0]
EpochMeta == [MCMeta EXCEPT !.epoch = 1, !.arch = 8, !.release = 0,
                            !.rels.provides = <<Other>>, !.rels.requires = <<Other>>]
SelfMeta == [MCMeta EXCEPT !.rels.provides = <<Self, Other>>, !.sourcePackage = 9]
LongMeta == [MCMeta EXCEPT !.name = 62]
TagMetas == {EpochMeta}
LeadMetas == {[MCMeta EXCEPT !.name = n] : n \in {0, 1, 2, 60, 61, 62, 63}}
RetryMetas == {SelfMeta, LongMeta}

\* A scriptlet and a changelog, and a custom tag and signatures, one of each
\* for what Write computes too.
MCScriptKinds == {"prein"}
MCTexts == {4}
MCChangelogs == {<<1, 2>>, << >>}
ArchTag == {<<"arch", 5>>}
SizeSig == {<<"payloadsize", 3>>}
MCCustomSigs == {<<"vendor", 1>>}
=============================================================================
