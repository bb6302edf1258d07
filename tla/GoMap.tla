-------------------------------- MODULE GoMap -------------------------------
(***************************************************************************)
(* Go maps as functions: the one in dirIndex, RPM.files and the entries of  *)
(* a header index, which index.Add and index.AddEntries extend.             *)
(***************************************************************************)

\* make(map[...]...)
EmptyMap == [k \in {} |-> k]

\* m[k] = v, and index.Add: a key has one value, the last.
Put(m, k, v) == [x \in DOMAIN m \cup {k} |-> IF x = k THEN v ELSE m[x]]

\* Fault variant of AddEntries: what is there already stays.
AddEntriesKeeping(m, n) ==
  [x \in DOMAIN m \cup DOMAIN n |-> IF x \in DOMAIN m THEN m[x] ELSE n[x]]

\* index.AddEntries: every entry of n is put into m.
AddEntries(m, n) ==
  [x \in DOMAIN m \cup DOMAIN n |-> IF x \in DOMAIN n THEN n[x] ELSE m[x]]
=============================================================================
