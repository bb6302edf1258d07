----------------------------- MODULE MCRoundTrip ----------------------------
(***************************************************************************)
(* Small instances of RoundTrip.                                            *)
(***************************************************************************)
EXTENDS RoundTrip, MCRPM

RichMeta == [MCMeta EXCEPT !.version = 2, !.release = 0, !.arch = 6, !.epoch = 1,
                           !.sourcePackage = 9, !.rels.requires = <<Other>>]
ReadMetas == {MCMeta, RichMeta}

PayloadFiles == {ConfigFile, Dir, Link}
PlainFiles == {ConfigFile}
RetryFiles == {ConfigFile, Dir, Ghost}
ReadChangelogs == {<<1, 2>>}

\* Tags for a scriptlet that Write computes too, and for the one that is read.
ReadTags == {<<"prein", 1>>, <<"pretrans", 7>>}
=============================================================================
