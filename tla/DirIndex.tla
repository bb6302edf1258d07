------------------------------ MODULE DirIndex ------------------------------
(***************************************************************************)
(* dirIndex of dir.go: the list of directory names of a package and the    *)
(* map that finds the position of a name already in it.  File entries      *)
(* refer to their directory by position, so the pair has to intern names.  *)
(***************************************************************************)
EXTENDS Integers, Sequences, GoMap

\* newDirIndex: an empty list and an empty map.
NewDirIndex == [l |-> << >>, m |-> EmptyMap]

\* Fault variant of DirPos: the position is taken after the list has grown.
DirPosAfter(di, d) == IF d \in DOMAIN di.m THEN di.m[d] ELSE Len(di.l) + 1

\* The number Get returns for directory d: a known position, or the next one.
DirPos(di, d) == IF d \in DOMAIN di.m THEN di.m[d] ELSE Len(di.l)

\* Fault variant of DirAdd: the new name is listed but not remembered.
DirAddForgets(di, d) == [di EXCEPT !.l = Append(@, d)]

\* What Get does to the index: an unknown directory is listed and remembered.
DirAdd(di, d) ==
  IF d \in DOMAIN di.m
  THEN di
  ELSE [l |-> Append(di.l, d), m |-> Put(di.m, d, Len(di.l))]

\* AllDirs returns the list.
AllDirs(di) == di.l

-----------------------------------------------------------------------------
\* The map is the inverse of the list: it knows the listed names, no others,
\* each at its (zero based) position.  This is what makes Get intern names.
DirIndexOK(di) ==
  /\ \A d \in DOMAIN di.m :
       /\ di.m[d] \in 0 .. Len(di.l) - 1
       /\ di.l[di.m[d] + 1] = d
  /\ \A i \in 1 .. Len(di.l) :
       /\ di.l[i] \in DOMAIN di.m
       /\ di.m[di.l[i]] = i - 1
=============================================================================
