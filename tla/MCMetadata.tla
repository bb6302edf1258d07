------------------------------ MODULE MCMetadata ----------------------------
(***************************************************************************)
(* Small instances of Metadata.                                             *)
(***************************************************************************)
EXTENDS Metadata, TLC

Alphabet == {"p", "3", " ", "<", ">", "=", "(", ")"}

\* Every text of up to four tokens, and some of the texts of sense_test.go.
MCTexts ==
  UNION {[1 .. n -> Alphabet] : n \in 0 .. 4}
  \cup {<<"p", " ", ">", "=", " ", "3">>, <<"p", " ", ">", "<", " ", "3">>}

\* The second is what a package named p provides itself.
MCLongTexts == {<<"p">>, <<"p", "=", "3">>, <<"p", ">", "3">>, <<"p", "=", ">", "3">>}

Lib == [name |-> <<"lib">>, sense |-> {}, version |-> << >>]
Rich == [name |-> <<"(", "p", ")">>, sense |-> {}, version |-> << >>]
MCLiterals == {<< >>, <<Lib>>, <<Lib, Rich>>}
MCNames == {<<"p">>, <<"q">>}
MCVersion == <<"3">>
None == [c \in {} |-> c]
MCOverrides == {None, "versions" :> << <<"3">>, <<"3">> >>, "names" :> << >>}

Item(time, name, text) == [time |-> time, name |-> name, text |-> text]

\* Times below and above half of what fits in a word.
MCChangelogs == {<< >>, <<Item(3, "a", "x")>>, <<Item(1, "a", "x"), Item(2, "b", "x")>>}

\* Columns of another length and of another type.
Col(type, values) == [type |-> type, values |-> values]
MCColumnOverrides ==
  {"text" :> Col("stringArray", <<"z">>), "name" :> Col("string", <<"z">>),
   "time" :> Col("int32", <<0, 3>>)}
=============================================================================
