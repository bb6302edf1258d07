----------------------------- MODULE MCCommands -----------------------------
(***************************************************************************)
(* Small instances of Commands.                                             *)
(***************************************************************************)
EXTENDS Commands

\* Tar entries may have "./" before their names, and the root is "./".
MCCleanName(name) ==
  CASE name \in {"./", "/"} -> "/"
    [] name \in {"a", "./a"} -> "/a"
    [] name = "d/" -> "/d"

MCPackages ==
  {[name |-> "lib", files |-> [n \in {"/a"} |-> [kind |-> "reg", body |-> 1, owner |-> "root"]],
    log |-> <<1, 1>>, compressor |-> "xz",
    lead |-> <<"lib", "1">>, signed |-> s] : s \in BOOLEAN}

Entry(name, kind, owner, body) == [name |-> name, kind |-> kind, owner |-> owner, body |-> body]
\* A name twice, a directory, the root, an entry that is refused, a stream
\* that is damaged, and nothing.
MCTars ==
  {[entries |-> e, end |-> "eof"] :
     e \in {<<Entry("a", "reg", "", 1), Entry("./a", "link", "bob", 2)>>,
            <<Entry("d/", "dir", "", 0), Entry("./a", "reg", "", 3)>>,
            <<Entry("./", "dir", "", 0)>>,
            <<Entry("a", "reg", "", 1), Entry("a", "hardlink", "", 0)>>}}
  \cup {[entries |-> <<Entry("a", "reg", "", 1)>>, end |-> "broken"]}

MCSettings == {<<"zstd", "fastest">>, <<"gzip", "99">>}
MCAllowLists == {{}, {"none"}}
MCIndexes == -3 .. 3
MCNoList == {"none"}
=============================================================================
