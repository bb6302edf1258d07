---------------------------- MODULE MCHeaderIndex ---------------------------
(***************************************************************************)
(* Small instances of HeaderIndex: an entry of each type, integers behind   *)
(* one, two and three bytes, NULs inside data and strings, empty strings and *)
(* arrays.                                                                   *)
(***************************************************************************)
EXTENDS HeaderIndex

Value(type, value) == [type |-> type, value |-> value]

MCGoValues == {
  Value("int16", <<513>>), Value("int16", <<1, 0, 2>>), Value("int32", <<-2>>),
  Value("int32", <<0, 7>>), Value("string", << >>), Value("string", <<97, 98>>),
  Value("binary", <<0>>), Value("binary", <<5, 0, 0, 6>>), Value("stringArray", << >>),
  Value("stringArray", << <<97>>, << >>, <<98>> >>),
  Value("string", <<97, 0, 98>>), Value("stringArray", << <<0, 97>>, <<98>> >>)}
=============================================================================
