--------------------------- MODULE RelationsProofs ---------------------------
(***************************************************************************)
(* Proofs about the relations of Metadata: no list loses or gains a relation*)
(* behind its owner's back, whatever array it shares; what is written is read;*)
(* and what Set makes of a text.                                           *)
(*                                                                         *)
(* An array only ever gains elements behind the list that is appended to.  *)
(* RelationsInv says so of every list at once: for the caller's, of the    *)
(* elements up to its length; for a package's, of those the caller had asked*)
(* for when the package was made.                                          *)
(***************************************************************************)
EXTENDS Metadata, Lemmas, SequenceTheorems

(* Slices and append.                                                       *)

\* All relations there can be.
Rels ==
  {NewRelation(t) : t \in Texts} \cup {Relation(n, {"equal"}, Version) : n \in Names}
  \cup (UNION {Range(l) : l \in Literals}) \cup {NoRelation}

\* Every relation is a record of a name, a sense and a version.
LEMMA RelsAreRelations ==
  \A r \in Rels : r = Relation(r.name, r.sense, r.version)
<1>1. ASSUME NEW t \in Texts PROVE \E n, s, v : NewRelation(t) = Relation(n, s, v)
  <2>1. NewRelation(t) = Relation(t, {}, << >>) \/ NewRelation(t) = NoRelation
        \/ NewRelation(t) = Relation(Match(t)[1], StringToSense[Match(t)[2]], Match(t)[3])
    BY DEF NewRelation
  <2>2. NoRelation = Relation(<< >>, {"error"}, << >>)
    BY DEF NoRelation, Relation
  <2> QED
    BY <2>1, <2>2
<1>2. \A n, s, v : Relation(n, s, v) = Relation(Relation(n, s, v).name, Relation(n, s, v).sense, Relation(n, s, v).version)
  BY DEF Relation
<1>3. ASSUME NEW l \in Literals, NEW r \in Range(l) PROVE r = Relation(r.name, r.sense, r.version)
  BY LiteralsAssumption DEF Range, Relation
<1>4. NoRelation = Relation(NoRelation.name, NoRelation.sense, NoRelation.version)
  BY DEF NoRelation, Relation
<1> QED
  BY <1>1, <1>2, <1>3, <1>4 DEF Rels

\* A slice into the heap h.
Slice(h, s) ==
  /\ s = [array |-> s.array, len |-> s.len]
  /\ s.array \in Nat /\ s.len \in Nat
  /\ IF s.array = 0 THEN s.len = 0 ELSE s.array <= Len(h) /\ s.len <= Len(h[s.array])

\* No two elements of the slice are alike.
Distinct(h, s) == \A i, j \in 1 .. s.len : h[s.array][i] = h[s.array][j] => i = j

\* The package's list is what the caller had asked for and, behind it, the package
\* itself.
HasSelf(h, p) ==
  p.provides.len = Len(p.asked) + 1 /\ h[p.provides.array][p.provides.len] = p.self

\* A package's list, in the heap h, where the caller's is the slice l.
PackageOK(h, l, p) ==
  LET s == p.provides
  IN  /\ Slice(h, s) /\ Distinct(h, s)
      /\ p.asked \in Seq(Rels) /\ s.len \in {Len(p.asked), Len(p.asked) + 1}
      /\ \A i \in 1 .. Len(p.asked) : h[s.array][i] = p.asked[i]
      /\ s.array = l.array => s.len <= l.len + 1 /\ Len(p.asked) <= l.len
      /\ p.self \notin Range(p.asked) /\ ~p.spare => s.array # l.array /\ HasSelf(h, p)

\* The heap h2 and the slice s are what append makes of h and l.
Grows(h, l, r, h2, s) ==
  /\ h2 \in Seq(Seq(Rels)) /\ Len(h) <= Len(h2)
  /\ Slice(h2, s) /\ s.len = l.len + 1 /\ s.array # 0
  /\ \A i \in 1 .. l.len : h2[s.array][i] = h[l.array][i]
  /\ h2[s.array][l.len + 1] = r
  /\ \A a \in 1 .. Len(h) :
       /\ Len(h2[a]) = Len(h[a])
       /\ \A i \in 1 .. Len(h[a]) :
            h2[a][i] # h[a][i] => a = l.array /\ i = l.len + 1 /\ h2[a][i] = r
  /\ s.array = IF l.array # 0 /\ l.len < Len(h[l.array]) THEN l.array ELSE Len(h) + 1

\* What is appended is behind the elements of the caller's list.
LEMMA GrowsKeepsPackage ==
  ASSUME NEW h \in Seq(Seq(Rels)), NEW l, Slice(h, l), NEW r, NEW h2, NEW s,
         Grows(h, l, r, h2, s), \A i \in 1 .. l.len : h[l.array][i] # r,
         NEW p, PackageOK(h, l, p)
  PROVE  PackageOK(h2, l, p) /\ PackageOK(h2, s, p)
         /\ (p.provides.array # l.array /\ HasSelf(h, p) => HasSelf(h2, p))
<1> DEFINE q == p.provides
<1>1. /\ Slice(h, q) /\ Distinct(h, q)
      /\ p.asked \in Seq(Rels) /\ Len(p.asked) \in Nat
      /\ q.len \in {Len(p.asked), Len(p.asked) + 1}
      /\ \A i \in 1 .. Len(p.asked) : h[q.array][i] = p.asked[i]
      /\ q.array = l.array => q.len <= l.len + 1 /\ Len(p.asked) <= l.len
      /\ p.self \notin Range(p.asked) /\ ~p.spare => q.array # l.array /\ HasSelf(h, p)
  BY DEF PackageOK
<1> HIDE DEF q
<1>2. /\ q = [array |-> q.array, len |-> q.len] /\ q.array \in Nat /\ q.len \in Nat
      /\ IF q.array = 0 THEN q.len = 0 ELSE q.array \in 1 .. Len(h) /\ q.len <= Len(h[q.array])
      /\ Len(h) \in Nat
  BY <1>1 DEF Slice
<1>3. l.array \in Nat /\ l.len \in Nat
  BY DEF Slice
<1>4. ASSUME q.array # 0
      PROVE  /\ q.array \in 1 .. Len(h) /\ q.array <= Len(h2)
             /\ Len(h2[q.array]) = Len(h[q.array])
             /\ \A i \in 1 .. q.len :
                  h2[q.array][i] # h[q.array][i] =>
                    q.array = l.array /\ i = l.len + 1 /\ h2[q.array][i] = r
  <2>1. q.array \in 1 .. Len(h) /\ q.len <= Len(h[q.array]) /\ Len(h[q.array]) \in Nat
    BY <1>2, <1>4
  <2>2. \A i \in 1 .. q.len : i \in 1 .. Len(h[q.array])
    BY <1>2, <2>1
  <2>3. Len(h2) \in Nat /\ Len(h) <= Len(h2)
    BY DEF Grows
  <2> QED
    BY <1>2, <2>1, <2>2, <2>3 DEF Grows
<1>5. Slice(h2, q)
  BY <1>2, <1>4 DEF Slice
<1>6. Distinct(h2, q)
  <2>1. SUFFICES ASSUME NEW i \in 1 .. q.len, NEW j \in 1 .. q.len, h2[q.array][i] = h2[q.array][j]
                 PROVE  i = j
    BY DEF Distinct
  <2>2. q.array # 0 /\ i \in Nat /\ j \in Nat
    BY <1>2
  <2>3. h[q.array][i] = h[q.array][j] => i = j
    BY <1>1 DEF Distinct
  <2>4. CASE h2[q.array][i] = h[q.array][i] /\ h2[q.array][j] = h[q.array][j]
    BY <2>1, <2>3, <2>4
  <2>5. CASE h2[q.array][i] # h[q.array][i]
    <3>1. q.array = l.array /\ i = l.len + 1 /\ h2[q.array][i] = r /\ q.len <= l.len + 1
      BY <1>1, <1>4, <2>2, <2>5
    <3>2. ASSUME i # j PROVE FALSE
      <4>1. j \in 1 .. l.len /\ j # l.len + 1
        BY <1>2, <1>3, <2>2, <3>1, <3>2
      <4>2. h[l.array][j] # r /\ h2[q.array][j] = h[q.array][j]
        BY <1>4, <2>2, <4>1
      <4> QED
        BY <2>1, <3>1, <4>2
    <3> QED
      BY <2>1, <3>1, <3>2
  <2>6. CASE h2[q.array][j] # h[q.array][j]
    <3>1. q.array = l.array /\ j = l.len + 1 /\ h2[q.array][j] = r /\ q.len <= l.len + 1
      BY <1>1, <1>4, <2>2, <2>6
    <3>2. ASSUME i # j PROVE FALSE
      <4>1. i \in 1 .. l.len /\ i # l.len + 1
        BY <1>2, <1>3, <2>2, <3>1, <3>2
      <4>2. h[l.array][i] # r /\ h2[q.array][i] = h[q.array][i]
        BY <1>4, <2>2, <4>1
      <4> QED
        BY <2>1, <3>1, <4>2
    <3> QED
      BY <2>1, <3>1, <3>2
  <2> QED
    BY <2>4, <2>5, <2>6
<1>7. \A i \in 1 .. Len(p.asked) : h2[q.array][i] = p.asked[i]
  <2>1. SUFFICES ASSUME NEW i \in 1 .. Len(p.asked) PROVE h2[q.array][i] = p.asked[i]
    OBVIOUS
  <2>2. i \in 1 .. q.len /\ q.array # 0 /\ i \in Nat
    BY <1>1, <1>2
  <2>3. ~(q.array = l.array /\ i = l.len + 1)
    BY <1>1, <1>3
  <2> QED
    BY <1>1, <1>4, <2>2, <2>3
<1>8. q.array # l.array /\ HasSelf(h, p) => HasSelf(h2, p)
  <2>1. SUFFICES ASSUME q.array # l.array, HasSelf(h, p) PROVE HasSelf(h2, p)
    OBVIOUS
  <2>2. q.len = Len(p.asked) + 1 /\ h[q.array][q.len] = p.self
    BY <2>1 DEF HasSelf, q
  <2>3. q.array # 0 /\ q.len \in 1 .. q.len
    BY <1>1, <1>2, <2>2
  <2>4. h2[q.array][q.len] = h[q.array][q.len]
    BY <1>4, <2>1, <2>3
  <2> QED
    BY <2>2, <2>4 DEF HasSelf, q
<1>9. PackageOK(h2, l, p)
  BY <1>1, <1>5, <1>6, <1>7, <1>8 DEF PackageOK, q
<1>10. q.array = s.array => q.array = l.array /\ s.len = l.len + 1
  BY <1>2, <1>3 DEF Grows
<1>11. PackageOK(h2, s, p)
  <2>1. q.array = s.array => q.len <= s.len + 1 /\ Len(p.asked) <= s.len
    BY <1>1, <1>3, <1>10, <1>2
  <2>2. p.self \notin Range(p.asked) /\ ~p.spare => q.array # s.array /\ HasSelf(h2, p)
    BY <1>1, <1>8, <1>10
  <2> QED
    BY <1>1, <1>5, <1>6, <1>7, <2>1, <2>2 DEF PackageOK, q
<1> QED
  BY <1>8, <1>9, <1>11 DEF q

\* append of a relation that the list has not.
LEMMA AppendGrows ==
  ASSUME heap \in Seq(Seq(Rels)), NEW l, Slice(heap, l), NEW r \in Rels
  PROVE  Grows(heap, l, r, AppendTo(l, r).heap, AppendTo(l, r).slice)
<1>1. /\ l = [array |-> l.array, len |-> l.len] /\ l.array \in Nat /\ l.len \in Nat
      /\ IF l.array = 0 THEN l.len = 0 ELSE l.array \in 1 .. Len(heap) /\ l.len <= Len(heap[l.array])
      /\ Len(heap) \in Nat /\ \A a \in 1 .. Len(heap) : heap[a] \in Seq(Rels) /\ Len(heap[a]) \in Nat
  BY DEF Slice
<1>2. CASE l.len < Capacity(l)
  <2>1. l.array # 0 /\ l.len < Len(heap[l.array]) /\ l.array \in 1 .. Len(heap)
    BY <1>1, <1>2 DEF Capacity
  <2>2. PICK b : b = [heap[l.array] EXCEPT ![l.len + 1] = r]
    OBVIOUS
  <2>3. PICK h : h = [heap EXCEPT ![l.array][l.len + 1] = r]
    OBVIOUS
  <2>4. PICK s : s = [l EXCEPT !.len = @ + 1]
    OBVIOUS
  <2>5. AppendTo(l, r).heap = h /\ AppendTo(l, r).slice = s
    BY <1>2, <2>3, <2>4 DEF AppendTo
  <2>6. s = [array |-> l.array, len |-> l.len + 1]
    BY <1>1, <2>4
  <2>7. /\ b \in Seq(Rels) /\ Len(b) = Len(heap[l.array])
        /\ \A i \in 1 .. Len(heap[l.array]) : b[i] = IF i = l.len + 1 THEN r ELSE heap[l.array][i]
    <3>1. PICK a : a = heap[l.array]
      OBVIOUS
    <3>2. a \in Seq(Rels) /\ Len(a) \in Nat /\ l.len + 1 \in 1 .. Len(a)
      BY <1>1, <2>1, <3>1
    <3>3. b = [a EXCEPT ![l.len + 1] = r]
      BY <2>2, <3>1
    <3>4. b \in Seq(Rels) /\ Len(b) = Len(a)
          /\ \A i \in 1 .. Len(a) : b[i] = IF i = l.len + 1 THEN r ELSE a[i]
      BY <3>2, <3>3, ExceptSeq
    <3> QED
      BY <3>1, <3>4
  <2>8. h = [heap EXCEPT ![l.array] = b]
    BY <2>2, <2>3
  <2>9. /\ h \in Seq(Seq(Rels)) /\ Len(h) = Len(heap)
        /\ \A a \in 1 .. Len(heap) : h[a] = IF a = l.array THEN b ELSE heap[a]
    BY <2>1, <2>7, <2>8, ExceptSeq
  <2>10. h[l.array] = b
    BY <2>1, <2>9
  <2>11. s.array = l.array /\ s.len = l.len + 1
    BY <2>6
  <2>12. Slice(h, s)
    BY <1>1, <2>1, <2>6, <2>7, <2>9, <2>10, <2>11 DEF Slice
  <2>13. \A a \in 1 .. Len(heap) :
           /\ Len(h[a]) = Len(heap[a])
           /\ \A i \in 1 .. Len(heap[a]) :
                h[a][i] # heap[a][i] => a = l.array /\ i = l.len + 1 /\ h[a][i] = r
    BY <2>7, <2>9
  <2>14. \A i \in 1 .. l.len : h[s.array][i] = heap[l.array][i]
    BY <1>1, <2>1, <2>7, <2>10, <2>11
  <2>15. h[s.array][l.len + 1] = r
    <3>1. l.len + 1 \in 1 .. Len(heap[l.array])
      BY <1>1, <2>1
    <3> QED
      BY <3>1, <2>7, <2>10, <2>11
  <2> QED
    BY <1>1, <2>1, <2>5, <2>9, <2>11, <2>12, <2>13, <2>14, <2>15 DEF Grows
<1>3. CASE ~(l.len < Capacity(l))
  <2> DEFINE cap == IF Capacity(l) = 0 THEN 1 ELSE 2 * Capacity(l)
             e == Elements(l)
  <2>1. Capacity(l) \in Nat /\ (l.array # 0 => l.len = Len(heap[l.array]) /\ Capacity(l) = l.len)
        /\ (l.array = 0 => Capacity(l) = 0 /\ l.len = 0)
    BY <1>1, <1>3 DEF Capacity
  <2>2. cap \in Nat /\ l.len + 1 <= cap
    BY <1>1, <2>1
  <2>3. \A i \in 1 .. l.len : e[i] = heap[l.array][i] /\ heap[l.array][i] \in Rels
    <3>1. SUFFICES ASSUME l.len # 0 PROVE \A i \in 1 .. l.len : e[i] = heap[l.array][i] /\ heap[l.array][i] \in Rels
      BY <1>1
    <3>2. PICK a : a = heap[l.array]
      OBVIOUS
    <3>3. a \in Seq(Rels) /\ Len(a) = l.len /\ e = SubSeq(a, 1, l.len)
      BY <1>1, <2>1, <3>1, <3>2 DEF Elements, ElementsIn
    <3> HIDE DEF e
    <3>4. \A i \in 1 .. l.len : e[i] = a[i] /\ a[i] \in Rels
      BY <1>1, <3>3
    <3> QED
      BY <3>2, <3>4
  <2> HIDE DEF cap, e
  <2>4. PICK a : a = [i \in 1 .. cap |->
                       CASE i <= l.len -> e[i]
                         [] i = l.len + 1 -> r
                         [] OTHER -> NoRelation]
    OBVIOUS
  <2>5. \A i \in 1 .. cap : a[i] = IF i <= l.len THEN e[i] ELSE IF i = l.len + 1 THEN r ELSE NoRelation
    BY <1>1, <2>2, <2>4
  <2>6. a \in Seq(Rels) /\ Len(a) = cap
    <3>1. \A i \in 1 .. cap : a[i] \in Rels
      <4>1. NoRelation \in Rels
        BY DEF Rels
      <4>2. \A i \in 1 .. cap : i <= l.len => i \in 1 .. l.len
        BY <1>1
      <4> QED
        BY <2>3, <2>5, <4>1, <4>2
    <3>2. a = [i \in 1 .. cap |-> a[i]]
      BY <2>4
    <3> QED
      BY <2>2, <3>1, <3>2
  <2>7. PICK h : h = Append(heap, a)
    OBVIOUS
  <2>8. PICK s : s = [array |-> Len(heap) + 1, len |-> l.len + 1]
    OBVIOUS
  <2>9. AppendTo(l, r).heap = h /\ AppendTo(l, r).slice = s
    BY <1>3, <2>4, <2>7, <2>8 DEF AppendTo, cap, e
  <2>10. /\ h \in Seq(Seq(Rels)) /\ Len(h) = Len(heap) + 1
         /\ \A x \in 1 .. Len(heap) : h[x] = heap[x]
         /\ h[Len(heap) + 1] = a
    BY <1>1, <2>6, <2>7
  <2>11. s.array = Len(heap) + 1 /\ s.len = l.len + 1 /\ s = [array |-> s.array, len |-> s.len]
    BY <2>8
  <2>12. Slice(h, s)
    BY <1>1, <2>2, <2>6, <2>10, <2>11 DEF Slice
  <2>13. \A i \in 1 .. l.len : h[s.array][i] = heap[l.array][i]
    <3>1. \A i \in 1 .. l.len : i \in 1 .. cap /\ i <= l.len
      BY <1>1, <2>2
    <3> QED
      BY <2>3, <2>5, <2>10, <2>11, <3>1
  <2>14. h[s.array][l.len + 1] = r
    <3>1. l.len + 1 \in 1 .. cap /\ ~(l.len + 1 <= l.len)
      BY <1>1, <2>2
    <3> QED
      BY <2>5, <2>10, <2>11, <3>1
  <2>15. s.array = IF l.array # 0 /\ l.len < Len(heap[l.array]) THEN l.array ELSE Len(heap) + 1
    BY <1>1, <2>1, <2>11
  <2> QED
    BY <1>1, <2>9, <2>10, <2>11, <2>12, <2>13, <2>14, <2>15 DEF Grows
<1> QED
  BY <1>2, <1>3

\* The elements of a slice are what its array has up to its length.
LEMMA ElementsAre ==
  ASSUME NEW h \in Seq(Seq(Rels)), NEW s, Slice(h, s)
  PROVE  /\ ElementsIn(h, s) \in Seq(Rels) /\ Len(ElementsIn(h, s)) = s.len
         /\ \A i \in 1 .. s.len : ElementsIn(h, s)[i] = h[s.array][i]
<1>1. /\ s.array \in Nat /\ s.len \in Nat
      /\ s.len # 0 => s.array \in 1 .. Len(h) /\ s.len <= Len(h[s.array])
  BY DEF Slice
<1>2. CASE s.len = 0
  BY <1>2 DEF ElementsIn
<1>3. CASE s.len # 0
  <2>1. PICK a : a = h[s.array]
    OBVIOUS
  <2>2. a \in Seq(Rels) /\ Len(a) \in Nat /\ s.len <= Len(a) /\ ElementsIn(h, s) = SubSeq(a, 1, s.len)
    BY <1>1, <1>3, <2>1 DEF ElementsIn
  <2>3. SubSeq(a, 1, s.len) \in Seq(Rels) /\ Len(SubSeq(a, 1, s.len)) = s.len
        /\ \A i \in 1 .. s.len : SubSeq(a, 1, s.len)[i] = a[i]
    BY <1>1, <2>2
  <2> QED
    BY <2>1, <2>2, <2>3
<1> QED
  BY <1>2, <1>3

\* A list in which no element is twice has as many elements as places.
LEMMA DistinctCounts ==
  ASSUME NEW S, NEW e \in Seq(S), \A i, j \in 1 .. Len(e) : e[i] = e[j] => i = j
  PROVE  Cardinality(Range(e)) = Len(e)
<1>1. Len(e) \in Nat /\ DOMAIN e = 1 .. Len(e)
  OBVIOUS
<1>2. e \in [1 .. Len(e) -> Range(e)]
  BY <1>1 DEF Range
<1>3. e \in Bijection(1 .. Len(e), Range(e))
  BY <1>1, <1>2 DEF Bijection, Injection, Surjection, IsInjective, Range
<1>4. ExistsBijection(1 .. Len(e), Range(e))
  BY <1>3 DEF ExistsBijection
<1> QED
  BY <1>1, <1>4, FS_CountingElements

\* What Set and NewRPM add is a relation there can be.
LEMMA AddedAreRels ==
  /\ \A t \in Texts : NewRelation(t) \in Rels
  /\ \A n \in Names : Relation(n, {"equal"}, Version) \in Rels
BY DEF Rels

\* The list l of the heap h holds the relations a, each once.
ListOK(h, l, a) ==
  /\ Slice(h, l) /\ Distinct(h, l)
  /\ a \in Seq(Rels) /\ Len(a) = l.len
  /\ \A i \in 1 .. l.len : h[l.array][i] = a[i]

\* A slice that holds a list has its elements.
LEMMA ListHolds ==
  ASSUME NEW h \in Seq(Seq(Rels)), NEW l, NEW a, ListOK(h, l, a)
  PROVE  ElementsIn(h, l) = a
<1>1. /\ ElementsIn(h, l) \in Seq(Rels) /\ Len(ElementsIn(h, l)) = l.len
      /\ \A i \in 1 .. l.len : ElementsIn(h, l)[i] = h[l.array][i]
  BY ElementsAre DEF ListOK
<1>2. a \in Seq(Rels) /\ Len(a) = l.len /\ \A i \in 1 .. l.len : h[l.array][i] = a[i]
  BY DEF ListOK
<1> QED
  BY <1>1, <1>2, SeqEqual

\* addIfMissing: nothing happens, or the heap grows.
LEMMA AddIfMissingGrows ==
  ASSUME heap \in Seq(Seq(Rels)), NEW l, NEW a, ListOK(heap, l, a), NEW r \in Rels
  PROVE  /\ r \in Range(a) => AddIfMissing(l, r) = [heap |-> heap, slice |-> l]
         /\ r \notin Range(a) => /\ Grows(heap, l, r, AddIfMissing(l, r).heap, AddIfMissing(l, r).slice)
                                 /\ \A i \in 1 .. l.len : heap[l.array][i] # r
<1>1. Elements(l) = a
  BY ListHolds DEF Elements
<1>2. ASSUME r \notin Range(a) PROVE AddIfMissing(l, r) = AppendTo(l, r)
  BY <1>1, <1>2 DEF AddIfMissing
<1>3. Slice(heap, l)
  BY DEF ListOK
<1>4. Grows(heap, l, r, AppendTo(l, r).heap, AppendTo(l, r).slice)
  BY <1>3, AppendGrows
<1>5. ASSUME r \notin Range(a), NEW i \in 1 .. l.len PROVE heap[l.array][i] # r
  BY <1>5 DEF ListOK, Range
<1> QED
  BY <1>1, <1>2, <1>4, <1>5 DEF AddIfMissing

\* The list that has grown holds what was added behind what it held.
LEMMA GrownListOK ==
  ASSUME NEW h \in Seq(Seq(Rels)), NEW l, NEW a, ListOK(h, l, a), NEW r \in Rels, r \notin Range(a),
         NEW h2, NEW s, Grows(h, l, r, h2, s)
  PROVE  ListOK(h2, s, Append(a, r))
<1>1. /\ l.len \in Nat /\ a \in Seq(Rels) /\ Len(a) = l.len
      /\ \A i \in 1 .. l.len : h[l.array][i] = a[i] /\ a[i] # r
      /\ \A i, j \in 1 .. l.len : h[l.array][i] = h[l.array][j] => i = j
  BY DEF ListOK, Slice, Distinct, Range
<1>2. /\ Slice(h2, s) /\ s.len = l.len + 1
      /\ \A i \in 1 .. l.len : h2[s.array][i] = h[l.array][i]
      /\ h2[s.array][l.len + 1] = r
  BY DEF Grows
<1>3. PICK b : b = Append(a, r)
  OBVIOUS
<1>4. /\ b \in Seq(Rels) /\ Len(b) = l.len + 1 /\ b[l.len + 1] = r
      /\ \A i \in 1 .. l.len : b[i] = a[i]
  BY <1>1, <1>3
<1>5. \A i \in 1 .. l.len + 1 : i \in 1 .. l.len \/ i = l.len + 1
  BY <1>1
<1>6. \A i \in 1 .. s.len : h2[s.array][i] = b[i]
  BY <1>1, <1>2, <1>4, <1>5
<1>7. Distinct(h2, s)
  <2>1. SUFFICES ASSUME NEW i \in 1 .. l.len + 1, NEW j \in 1 .. l.len + 1, b[i] = b[j]
                 PROVE  i = j
    BY <1>2, <1>6 DEF Distinct
  <2>2. \A k \in 1 .. l.len : b[k] = h[l.array][k] /\ b[k] # r
    BY <1>1, <1>4
  <2> QED
    BY <1>1, <1>4, <1>5, <2>1, <2>2
<1> QED
  BY <1>2, <1>3, <1>4, <1>6, <1>7 DEF ListOK

\* The caller's own list stays while the heap grows behind it.
LEMMA GrowsKeepsList ==
  ASSUME NEW h \in Seq(Seq(Rels)), NEW l, NEW a, ListOK(h, l, a), NEW r, NEW h2, NEW s,
         Grows(h, l, r, h2, s)
  PROVE  ListOK(h2, l, a)
<1>1. /\ l = [array |-> l.array, len |-> l.len] /\ l.array \in Nat /\ l.len \in Nat
      /\ IF l.array = 0 THEN l.len = 0 ELSE l.array \in 1 .. Len(h) /\ l.len <= Len(h[l.array])
      /\ Len(h) \in Nat /\ a \in Seq(Rels) /\ Len(a) = l.len
      /\ \A i \in 1 .. l.len : h[l.array][i] = a[i]
      /\ \A i, j \in 1 .. l.len : h[l.array][i] = h[l.array][j] => i = j
  BY DEF ListOK, Slice, Distinct
<1>2. Len(h2) \in Nat /\ Len(h) <= Len(h2)
  BY DEF Grows
<1>3. ASSUME l.array # 0
      PROVE  /\ Len(h2[l.array]) = Len(h[l.array])
             /\ \A i \in 1 .. l.len : h2[l.array][i] = h[l.array][i]
  <2>1. l.array \in 1 .. Len(h) /\ Len(h[l.array]) \in Nat
    BY <1>1, <1>3
  <2>2. \A i \in 1 .. l.len : i \in 1 .. Len(h[l.array]) /\ i # l.len + 1
    BY <1>1, <1>3, <2>1
  <2> QED
    BY <2>1, <2>2 DEF Grows
<1>4. \A i \in 1 .. l.len : h2[l.array][i] = h[l.array][i]
  BY <1>1, <1>3
<1>5. Slice(h2, l)
  BY <1>1, <1>2, <1>3 DEF Slice
<1> QED
  BY <1>1, <1>4, <1>5 DEF ListOK, Distinct

-----------------------------------------------------------------------------
(* The lists, along the steps.                                              *)

\* The packages made so far: what each has to provide of itself, its list, what the
\* caller had asked for by then, and whether that list's array had room.
Packages ==
  [self : Rels, provides : [array : Nat, len : Nat], asked : Seq(Rels), spare : BOOLEAN]

\* The lists of the packages, which share the caller's array or have one of their own.
PackagesInv ==
  /\ packages \in Seq(Packages)
  /\ \A i \in 1 .. Len(packages) :
       PackageOK(heap, list, packages[i]) /\ Len(packages[i].asked) <= Len(asked)

\* The package that was made last has itself as long as nothing was added since.
LastInv ==
  packages # << >> =>
    LET p == packages[Len(packages)]
    IN  p.asked = asked /\ p.self \notin Range(asked) => HasSelf(heap, p)

\* The arrays and every list into them.
ListsInv ==
  /\ heap \in Seq(Seq(Rels))
  /\ ListOK(heap, list, asked)
  /\ PackagesInv
  /\ LastInv

\* The header written last, and what is read of it.
HeaderInv ==
  /\ phase # "open" => written.rels \in Seq(Rels) /\ written.custom \in Overrides
  /\ phase = "header" => index = AddEntries(AddToIndex(written.rels), written.custom)
  /\ ReadsBack

\* The inductive invariant of the relations.
RelationsInv == ListsInv /\ HeaderInv

\* The caller starts with a literal: an array of just that length, or none.
LEMMA InitLists == Init => ListsInv
<1> SUFFICES ASSUME Init PROVE ListsInv
  OBVIOUS
<1>1. PICK l \in Literals :
        /\ heap = IF l = << >> THEN << >> ELSE <<l>>
        /\ list = IF l = << >> THEN NilSlice ELSE [array |-> 1, len |-> Len(l)]
        /\ asked = l
  BY DEF Init
<1>2. /\ l \in Seq(Range(l))
      /\ \A i, j \in 1 .. Len(l) : l[i] = l[j] => i = j
  BY <1>1, LiteralsAssumption
<1>3. l \in Seq(Rels)
  <2>1. Range(l) \subseteq Rels
    BY <1>1 DEF Rels
  <2>2. Len(l) \in Nat /\ l = [i \in 1 .. Len(l) |-> l[i]] /\ \A i \in 1 .. Len(l) : l[i] \in Rels
    BY <1>2, <2>1
  <2> QED
    BY <2>2
<1>4. heap \in Seq(Seq(Rels)) /\ ListOK(heap, list, asked)
  <2>1. CASE l = << >>
    BY <1>1, <1>2, <1>3, <2>1 DEF ListOK, Slice, Distinct, NilSlice
  <2>2. CASE l # << >>
    <3>1. heap = <<l>> /\ heap[1] = l /\ Len(heap) = 1 /\ heap \in Seq(Seq(Rels))
      BY <1>1, <1>3, <2>2
    <3>2. list = [array |-> 1, len |-> Len(l)] /\ list.array = 1 /\ list.len = Len(l) /\ Len(l) \in Nat
      BY <1>1, <1>3, <2>2
    <3> QED
      BY <1>1, <1>2, <1>3, <3>1, <3>2 DEF ListOK, Slice, Distinct
  <2> QED
    BY <2>1, <2>2
<1>5. packages = << >>
  BY DEF Init
<1> QED
  BY <1>4, <1>5 DEF ListsInv, PackagesInv, LastInv

\* Set: nothing, or one relation behind those the caller has.
LEMMA SetLists == \A text \in Texts : ListsInv /\ Set(text) => ListsInv'
<1> SUFFICES ASSUME NEW text \in Texts, ListsInv, Set(text) PROVE ListsInv'
  OBVIOUS
<1>1. PICK r : r = NewRelation(text)
  OBVIOUS
<1>2. PICK to : to = AddIfMissing(list, r)
  OBVIOUS
<1>3. /\ \/ UNCHANGED <<heap, list, asked>>
         \/ /\ heap' = to.heap /\ list' = to.slice
            /\ asked' = IF r \in Range(asked) THEN asked ELSE Append(asked, r)
      /\ packages' = packages
  BY <1>1, <1>2 DEF Set
<1>4. r \in Rels /\ heap \in Seq(Seq(Rels)) /\ ListOK(heap, list, asked)
  BY <1>1, AddedAreRels DEF ListsInv
<1>5. CASE UNCHANGED <<heap, list, asked>>
  BY <1>3, <1>5 DEF ListsInv, PackagesInv, LastInv
<1>6. CASE ~UNCHANGED <<heap, list, asked>>
  <2>1. r \notin Range(asked)
    <3>1. ASSUME r \in Range(asked) PROVE FALSE
      <4>1. to = [heap |-> heap, slice |-> list]
        BY <1>2, <1>4, <3>1, AddIfMissingGrows
      <4> QED
        BY <1>3, <1>6, <3>1, <4>1
    <3> QED
      BY <3>1
  <2>2. Grows(heap, list, r, heap', list') /\ \A i \in 1 .. list.len : heap[list.array][i] # r
    BY <1>2, <1>3, <1>4, <1>6, <2>1, AddIfMissingGrows
  <2>3. asked' = Append(asked, r)
    BY <1>3, <1>6, <2>1
  <2>4. heap' \in Seq(Seq(Rels)) /\ ListOK(heap', list', asked')
    <3>1. heap' \in Seq(Seq(Rels))
      BY <2>2 DEF Grows
    <3>2. ListOK(heap', list', Append(asked, r))
      BY <1>4, <2>1, <2>2, GrownListOK
    <3> QED
      BY <2>3, <3>1, <3>2
  <2>5. Len(asked) \in Nat /\ Len(asked') = Len(asked) + 1
    BY <1>4, <2>3 DEF ListOK
  <2>6. PackagesInv'
    <3>1. SUFFICES ASSUME NEW i \in 1 .. Len(packages)
                   PROVE  PackageOK(heap', list', packages[i]) /\ Len(packages[i].asked) <= Len(asked')
      BY <1>3 DEF ListsInv, PackagesInv
    <3>2. PackageOK(heap, list, packages[i]) /\ Len(packages[i].asked) <= Len(asked)
          /\ Len(packages[i].asked) \in Nat
      BY DEF ListsInv, PackagesInv, Packages
    <3>3. PackageOK(heap', list', packages[i])
      BY <1>4, <2>2, <3>2, GrowsKeepsPackage DEF ListOK
    <3> QED
      BY <2>5, <3>2, <3>3
  <2>7. LastInv'
    <3>1. SUFFICES ASSUME packages # << >> PROVE packages[Len(packages)].asked # asked'
      BY <1>3 DEF LastInv
    <3>2. Len(packages) \in 1 .. Len(packages)
      BY <3>1 DEF ListsInv, PackagesInv
    <3>3. Len(packages[Len(packages)].asked) <= Len(asked) /\ Len(packages[Len(packages)].asked) \in Nat
      BY <3>2 DEF ListsInv, PackagesInv, Packages
    <3> QED
      BY <2>5, <3>3
  <2> QED
    BY <2>4, <2>6, <2>7 DEF ListsInv
<1> QED
  BY <1>5, <1>6

\* NewRPM: the new package has the caller's list and itself.
LEMMA NewRPMLists == \A name \in Names : ListsInv /\ NewRPM(name) => ListsInv'
<1> SUFFICES ASSUME NEW name \in Names, ListsInv, NewRPM(name) PROVE ListsInv'
  OBVIOUS
<1>1. PICK self : self = Relation(name, {"equal"}, Version)
  OBVIOUS
<1>2. PICK to : to = AddIfMissing(list, self)
  OBVIOUS
<1>3. PICK p : p = [self |-> self, provides |-> to.slice,
                    asked |-> asked, spare |-> list.len < Capacity(list)]
  OBVIOUS
<1>4. heap' = to.heap /\ packages' = Append(packages, p) /\ list' = list /\ asked' = asked
  BY <1>1, <1>2, <1>3 DEF NewRPM
<1>5. self \in Rels /\ heap \in Seq(Seq(Rels)) /\ ListOK(heap, list, asked) /\ Slice(heap, list)
  BY <1>1, AddedAreRels DEF ListsInv, ListOK
<1>6. /\ p.self = self /\ p.provides = to.slice /\ p.asked = asked
      /\ p.spare = (list.len < Capacity(list))
  BY <1>3
<1>7. /\ asked \in Seq(Rels) /\ Len(asked) = list.len /\ list.len \in Nat
      /\ \A i \in 1 .. list.len : heap[list.array][i] = asked[i]
      /\ Distinct(heap, list)
  BY <1>5 DEF ListOK, Slice
<1>8. /\ heap' \in Seq(Seq(Rels)) /\ ListOK(heap', list, asked)
      /\ PackageOK(heap', list, p)
      /\ self \notin Range(asked) => HasSelf(heap', p)
      /\ \A i \in 1 .. Len(packages) : PackageOK(heap', list, packages[i])
  <2>1. CASE self \in Range(asked)
    <3>1. to.heap = heap /\ to.slice = list
      BY <1>2, <1>5, <2>1, AddIfMissingGrows
    <3>2. PackageOK(heap, list, p)
      BY <1>5, <1>6, <1>7, <2>1, <3>1 DEF PackageOK
    <3> QED
      BY <1>4, <1>5, <2>1, <3>1, <3>2 DEF ListsInv, PackagesInv
  <2>2. CASE self \notin Range(asked)
    <3>1. PICK s : s = to.slice
      OBVIOUS
    <3>2. Grows(heap, list, self, heap', s) /\ \A i \in 1 .. list.len : heap[list.array][i] # self
      BY <1>2, <1>4, <1>5, <2>2, <3>1, AddIfMissingGrows
    <3>3. heap' \in Seq(Seq(Rels)) /\ ListOK(heap', list, asked)
      <4>1. heap' \in Seq(Seq(Rels))
        BY <3>2 DEF Grows
      <4>2. ListOK(heap', list, asked)
        BY <1>5, <3>2, GrowsKeepsList
      <4> QED
        BY <4>1, <4>2
    <3>4. ListOK(heap', s, Append(asked, self))
      BY <1>5, <2>2, <3>2, GrownListOK
    <3>5. /\ s.len = list.len + 1 /\ heap'[s.array][list.len + 1] = self
          /\ \A i \in 1 .. list.len : heap'[s.array][i] = heap[list.array][i]
          /\ s.array = IF list.array # 0 /\ list.len < Len(heap[list.array])
                       THEN list.array ELSE Len(heap) + 1
      BY <3>2 DEF Grows
    <3>6. HasSelf(heap', p)
      BY <1>6, <1>7, <3>1, <3>5 DEF HasSelf
    <3>7. ~p.spare => s.array # list.array
      <4>1. ~p.spare => ~(list.array # 0 /\ list.len < Len(heap[list.array]))
        BY <1>6 DEF Capacity
      <4>2. list.array \in Nat /\ Len(heap) \in Nat /\ list.array <= Len(heap)
        BY <1>5 DEF Slice
      <4> QED
        BY <3>5, <4>1, <4>2
    <3>8. Slice(heap', s) /\ Distinct(heap', s)
      BY <3>4 DEF ListOK
    <3>9. PackageOK(heap', list, p)
      BY <1>6, <1>7, <3>1, <3>5, <3>6, <3>7, <3>8 DEF PackageOK
    <3>10. \A i \in 1 .. Len(packages) : PackageOK(heap', list, packages[i])
      BY <1>5, <3>2, GrowsKeepsPackage DEF ListsInv, PackagesInv
    <3> QED
      BY <3>3, <3>6, <3>9, <3>10
  <2> QED
    BY <2>1, <2>2
<1>9. p \in Packages
  <2>1. to.slice \in [array : Nat, len : Nat]
    BY <1>6, <1>8 DEF PackageOK, Slice
  <2>2. (list.len < Capacity(list)) \in BOOLEAN
    OBVIOUS
  <2> QED
    BY <1>3, <1>5, <1>7, <2>1, <2>2 DEF Packages
<1>10. packages \in Seq(Packages) /\ \A i \in 1 .. Len(packages) : Len(packages[i].asked) <= Len(asked)
  BY DEF ListsInv, PackagesInv
<1>11. /\ packages' \in Seq(Packages) /\ Len(packages') = Len(packages) + 1
       /\ packages'[Len(packages) + 1] = p
       /\ \A i \in 1 .. Len(packages) : packages'[i] = packages[i]
  BY <1>4, <1>9, <1>10
<1>12. \A i \in 1 .. Len(packages') : i \in 1 .. Len(packages) \/ i = Len(packages) + 1
  BY <1>10, <1>11
<1>13. PackagesInv'
  <2>1. ASSUME NEW i \in 1 .. Len(packages')
        PROVE  PackageOK(heap', list, packages'[i]) /\ Len(packages'[i].asked) <= Len(asked)
    <3>1. CASE i \in 1 .. Len(packages)
      BY <1>8, <1>10, <1>11, <3>1
    <3>2. CASE i = Len(packages) + 1
      <4>1. Len(asked) \in Nat /\ packages'[i] = p
        BY <1>7, <1>11, <3>2
      <4> QED
        BY <1>6, <1>8, <4>1
    <3> QED
      BY <1>12, <3>1, <3>2
  <2> QED
    BY <1>4, <1>11, <2>1 DEF PackagesInv
<1>14. LastInv'
  BY <1>4, <1>6, <1>8, <1>11 DEF LastInv
<1> QED
  BY <1>4, <1>8, <1>13, <1>14 DEF ListsInv

-----------------------------------------------------------------------------
(* The header.                                                              *)

\* Nothing is written then.
LEMMA InitRelations == Init => RelationsInv
<1> SUFFICES ASSUME Init PROVE RelationsInv
  OBVIOUS
<1>1. ListsInv
  BY InitLists
<1>2. phase = "open"
  BY DEF Init
<1> QED
  BY <1>1, <1>2 DEF RelationsInv, HeaderInv, ReadsBack

\* What toRelations makes of an index.
LEMMA ToRelationsIs ==
  ASSUME NEW i
  PROVE  ToRelations(i) =
           IF /\ DOMAIN i = {"names", "versions", "flags"}
              /\ Len(i.names) = Len(i.versions) /\ Len(i.versions) = Len(i.flags)
           THEN [k \in DOMAIN i.names |-> Relation(i.names[k], i.flags[k], i.versions[k])]
           ELSE << >>
<1>1. Range(Columns) = {"names", "versions", "flags"}
  <2>1. Columns = <<"names", "versions", "flags">> /\ DOMAIN Columns = 1 .. 3
    BY DEF Columns
  <2> QED
    BY <2>1 DEF Range
<1>2. ASSUME DOMAIN i = {"names", "versions", "flags"}
      PROVE  {Len(i[c]) : c \in DOMAIN i} = {Len(i.names), Len(i.versions), Len(i.flags)}
  BY <1>2
<1>3. ASSUME DOMAIN i = {"names", "versions", "flags"}
      PROVE  Cardinality({Len(i[c]) : c \in DOMAIN i}) = 1
             <=> Len(i.names) = Len(i.versions) /\ Len(i.versions) = Len(i.flags)
  <2>1. PICK a, b, c : a = Len(i.names) /\ b = Len(i.versions) /\ c = Len(i.flags)
    OBVIOUS
  <2>2. {Len(i[d]) : d \in DOMAIN i} = {a, b, c}
    BY <1>2, <1>3, <2>1
  <2>3. Cardinality({a, b, c}) = 1 <=> a = b /\ b = c
    BY OneOfThree
  <2> QED
    BY <2>1, <2>2, <2>3
<1> QED
  BY <1>1, <1>3, Zenon DEF ToRelations

\* The columns of a list.
LEMMA AddToIndexIs ==
  ASSUME NEW l \in Seq(Rels), NEW i, i = AddToIndex(l)
  PROVE  /\ l = << >> => DOMAIN i = {}
         /\ l # << >> =>
              /\ DOMAIN i = {"names", "versions", "flags"}
              /\ i.names = [k \in 1 .. Len(l) |-> l[k].name]
              /\ i.versions = [k \in 1 .. Len(l) |-> l[k].version]
              /\ i.flags = [k \in 1 .. Len(l) |-> l[k].sense]
              /\ \A c \in DOMAIN i : Len(i[c]) = Len(l)
<1>1. CASE l = << >>
  BY <1>1 DEF AddToIndex, EmptyMap
<1>2. CASE l # << >>
  <2>1. DOMAIN l = 1 .. Len(l) /\ Len(l) \in Nat
    OBVIOUS
  <2>2. /\ DOMAIN i = {"names", "versions", "flags"}
        /\ i.names = [k \in 1 .. Len(l) |-> l[k].name]
        /\ i.versions = [k \in 1 .. Len(l) |-> l[k].version]
        /\ i.flags = [k \in 1 .. Len(l) |-> l[k].sense]
    BY <1>2, <2>1 DEF AddToIndex
  <2>3. \A c \in DOMAIN i : Len(i[c]) = Len(l)
    BY <2>1, <2>2
  <2> QED
    BY <1>2, <2>2, <2>3
<1> QED
  BY <1>1, <1>2

\* A list that is written comes back; with a column put in by hand, none does
\* or one of the length of all.
LEMMA HeaderReadsBack ==
  ASSUME NEW l \in Seq(Rels), NEW o \in Overrides, NEW i, i = AddEntries(AddToIndex(l), o),
         NEW back, back = ToRelations(i)
  PROVE  IF o = EmptyMap
         THEN back = l
         ELSE back # << >> =>
                /\ \A c \in DOMAIN o : Len(o[c]) = Len(back)
                /\ DOMAIN o # Range(Columns) => Len(back) = Len(l)
<1>1. PICK m : m = AddToIndex(l)
  OBVIOUS
<1>2. DOMAIN i = DOMAIN m \cup DOMAIN o /\ \A c \in DOMAIN i : i[c] = IF c \in DOMAIN o THEN o[c] ELSE m[c]
  BY <1>1 DEF AddEntries
<1>3. CASE o = EmptyMap
  <2>1. DOMAIN o = {}
    BY <1>3 DEF EmptyMap
  <2>2. DOMAIN i = DOMAIN m /\ \A c \in DOMAIN i : i[c] = m[c]
    BY <1>2, <2>1
  <2>3. CASE l = << >>
    <3>1. DOMAIN i = {}
      BY <1>1, <2>2, <2>3, AddToIndexIs
    <3>2. back = << >>
      BY <3>1, ToRelationsIs
    <3> QED
      BY <1>3, <2>3, <3>2
  <2>4. CASE l # << >>
    <3>1. /\ DOMAIN i = {"names", "versions", "flags"}
          /\ i.names = [k \in 1 .. Len(l) |-> l[k].name]
          /\ i.versions = [k \in 1 .. Len(l) |-> l[k].version]
          /\ i.flags = [k \in 1 .. Len(l) |-> l[k].sense]
          /\ \A c \in DOMAIN i : Len(i[c]) = Len(l)
      BY <1>1, <2>2, <2>4, AddToIndexIs
    <3>2. back = [k \in DOMAIN i.names |-> Relation(i.names[k], i.flags[k], i.versions[k])]
      <4>1. Len(i.names) = Len(i.versions) /\ Len(i.versions) = Len(i.flags)
        BY <3>1
      <4> QED
        BY <3>1, <4>1, ToRelationsIs, Zenon
    <3>3. \A k \in 1 .. Len(l) : Relation(l[k].name, l[k].sense, l[k].version) = l[k]
      <4>1. \A k \in 1 .. Len(l) : l[k] \in Rels
        OBVIOUS
      <4> QED
        BY <4>1, RelsAreRelations
    <3>4. back = [k \in 1 .. Len(l) |-> l[k]]
      BY <3>1, <3>2, <3>3
    <3> QED
      BY <1>3, <3>4
  <2> QED
    BY <2>3, <2>4
<1>4. CASE o # EmptyMap
  <2>1. SUFFICES ASSUME back # << >>
                 PROVE  /\ \A c \in DOMAIN o : Len(o[c]) = Len(back)
                        /\ DOMAIN o # Range(Columns) => Len(back) = Len(l)
    BY <1>4
  <2>2. /\ DOMAIN i = {"names", "versions", "flags"}
        /\ Len(i.names) = Len(i.versions) /\ Len(i.versions) = Len(i.flags)
        /\ back = [k \in DOMAIN i.names |-> Relation(i.names[k], i.flags[k], i.versions[k])]
    BY <2>1, ToRelationsIs
  <2>3. \A c \in DOMAIN i : Len(i[c]) = Len(i.names)
    BY <2>2
  <2>4. l = << >> => DOMAIN m = {}
    BY <1>1, AddToIndexIs
  <2>5. l # << >> => \A c \in DOMAIN m : Len(m[c]) = Len(l)
    BY <1>1, AddToIndexIs
  <2>6. i.names \in Seq(Range(i.names))
    <3>1. CASE "names" \in DOMAIN o
      BY <1>2, <2>2, <3>1, OverridesAssumption
    <3>2. CASE "names" \notin DOMAIN o
      <4>1. l # << >> /\ i.names = m.names
        BY <1>2, <2>2, <2>4, <3>2
      <4>2. m.names = [k \in 1 .. Len(l) |-> l[k].name]
        BY <1>1, <4>1, AddToIndexIs
      <4> QED
        BY <4>1, <4>2 DEF Range
    <3> QED
      BY <3>1, <3>2
  <2>7. Len(back) = Len(i.names)
    <3>1. DOMAIN i.names = 1 .. Len(i.names) /\ Len(i.names) \in Nat
      BY <2>6
    <3> QED
      BY <2>2, <3>1
  <2>8. \A c \in DOMAIN o : Len(o[c]) = Len(back)
    BY <1>2, <2>3, <2>7
  <2>9. ASSUME DOMAIN o # Range(Columns) PROVE Len(back) = Len(l)
    <3>1. Range(Columns) = {"names", "versions", "flags"}
      <4>1. Columns = <<"names", "versions", "flags">> /\ DOMAIN Columns = 1 .. 3
        BY DEF Columns
      <4> QED
        BY <4>1 DEF Range
    <3>2. DOMAIN o \subseteq {"names", "versions", "flags"}
      BY OverridesAssumption
    <3>3. PICK c \in DOMAIN i : c \notin DOMAIN o
      BY <2>2, <2>9, <3>1, <3>2
    <3>4. c \in DOMAIN m /\ i[c] = m[c]
      BY <1>2, <3>3
    <3> QED
      BY <2>3, <2>4, <2>5, <2>7, <3>3, <3>4
  <2> QED
    BY <2>8, <2>9
<1> QED
  BY <1>3, <1>4

-----------------------------------------------------------------------------
(* The invariant, and the properties that follow.                           *)

\* Every step of the relations keeps the invariant ...
LEMMA RelationsStep == RelationsInv /\ Next => RelationsInv'
<1> SUFFICES ASSUME RelationsInv, Next PROVE RelationsInv'
  OBVIOUS
<1>1. ASSUME NEW text \in TextsNow, Set(text) PROVE RelationsInv'
  <2>1. text \in Texts
    BY RelationsAssumption DEF TextsNow
  <2>2. ListsInv'
    BY <1>1, <2>1, SetLists DEF RelationsInv
  <2>3. phase' = "open"
    BY <1>1 DEF Set
  <2> QED
    BY <2>2, <2>3 DEF RelationsInv, HeaderInv, ReadsBack
<1>2. ASSUME NEW name \in Names, NewRPM(name) PROVE RelationsInv'
  <2>1. ListsInv'
    BY <1>2, NewRPMLists DEF RelationsInv
  <2>2. phase' = "open"
    BY <1>2 DEF NewRPM
  <2> QED
    BY <2>1, <2>2 DEF RelationsInv, HeaderInv, ReadsBack
<1>3. ASSUME NEW custom \in Overrides, NEW s, Slice(heap, s), WriteIndex(s, custom)
      PROVE  RelationsInv'
  <2>1. ListsInv'
    BY <1>3 DEF WriteIndex, RelationsInv, ListsInv, PackagesInv, LastInv
  <2>2. Elements(s) \in Seq(Rels)
    BY <1>3, ElementsAre DEF Elements, RelationsInv, ListsInv
  <2>3. /\ phase' = "header"
        /\ written' = [rels |-> Elements(s), custom |-> custom]
        /\ index' = AddEntries(AddToIndex(Elements(s)), custom)
    BY <1>3 DEF WriteIndex
  <2>4. written'.rels = Elements(s) /\ written'.custom = custom
    BY <2>3
  <2>5. HeaderInv'
    BY <2>2, <2>3, <2>4 DEF HeaderInv, ReadsBack
  <2> QED
    BY <2>1, <2>5 DEF RelationsInv
<1>4. ASSUME ReadIndex PROVE RelationsInv'
  <2>1. ListsInv'
    BY <1>4 DEF ReadIndex, RelationsInv, ListsInv, PackagesInv, LastInv
  <2>2. /\ phase = "header" /\ phase' = "read"
        /\ read' = ToRelations(index) /\ written' = written
    BY <1>4 DEF ReadIndex
  <2>3. /\ written.rels \in Seq(Rels) /\ written.custom \in Overrides
        /\ index = AddEntries(AddToIndex(written.rels), written.custom)
    BY <2>2 DEF RelationsInv, HeaderInv
  <2>4. PICK l, o, back : l = written.rels /\ o = written.custom /\ back = ToRelations(index)
    OBVIOUS
  <2>5. IF o = EmptyMap
        THEN back = l
        ELSE back # << >> =>
               /\ \A c \in DOMAIN o : Len(o[c]) = Len(back)
               /\ DOMAIN o # Range(Columns) => Len(back) = Len(l)
    BY <2>3, <2>4, HeaderReadsBack
  <2>6. ReadsBack'
    BY <2>2, <2>4, <2>5 DEF ReadsBack
  <2>7. HeaderInv'
    BY <2>2, <2>3, <2>6 DEF HeaderInv
  <2> QED
    BY <2>1, <2>7 DEF RelationsInv
<1>5. Slice(heap, list)
  BY DEF RelationsInv, ListsInv, ListOK
<1>6. \A p \in DOMAIN packages : Slice(heap, packages[p].provides)
  <2>1. DOMAIN packages = 1 .. Len(packages)
    BY DEF RelationsInv, ListsInv, PackagesInv
  <2> QED
    BY <2>1 DEF RelationsInv, ListsInv, PackagesInv, PackageOK
<1> QED
  BY <1>1, <1>2, <1>3, <1>4, <1>5, <1>6 DEF Next

\* ... so it always holds: the steps of the changelog touch none of this.
LEMMA RelationsAlways == MetaSpec => []RelationsInv
<1>1. MetaInit => RelationsInv
  BY InitRelations DEF MetaInit
<1>2. RelationsInv /\ [MetaNext]_<<vars, logVars>> => RelationsInv'
  <2>1. RelationsInv /\ MetaNext => RelationsInv' \/ UNCHANGED vars
    BY RelationsStep DEF MetaNext
  <2>2. RelationsInv /\ UNCHANGED vars => RelationsInv'
    BY DEF vars, RelationsInv, ListsInv, PackagesInv, LastInv, HeaderInv, ReadsBack
  <2> QED
    BY <2>1, <2>2
<1> QED
  BY <1>1, <1>2, PTL DEF MetaSpec

\* The caller's list has what the caller asked for, in order and once, though
\* the packages made from it append to its array (sense.go:99, rpm.go:145).
THEOREM CallerCorrect == MetaSpec => []CallerKeepsList
<1>1. RelationsInv => CallerKeepsList
  BY ListHolds DEF RelationsInv, ListsInv, CallerKeepsList, Elements
<1> QED
  BY <1>1, RelationsAlways, PTL

\* What a package of the invariant has.
LEMMA PackageHolds ==
  ASSUME RelationsInv, NEW i \in DOMAIN packages, NEW p, p = packages[i]
  PROVE  /\ i \in 1 .. Len(packages) /\ Len(packages) \in Nat
         /\ p \in Packages /\ PackageOK(heap, list, p)
         /\ Elements(p.provides) \in Seq(Rels) /\ Len(Elements(p.provides)) = p.provides.len
         /\ \A k \in 1 .. p.provides.len : Elements(p.provides)[k] = heap[p.provides.array][k]
<1>1. /\ i \in 1 .. Len(packages) /\ Len(packages) \in Nat
      /\ p \in Packages /\ PackageOK(heap, list, p)
  BY DEF RelationsInv, ListsInv, PackagesInv
<1>2. heap \in Seq(Seq(Rels)) /\ Slice(heap, p.provides)
  BY <1>1 DEF RelationsInv, ListsInv, PackageOK
<1> QED
  BY <1>1, <1>2, ElementsAre DEF Elements

\* The relations a package was made with stay where they are in its list,
\* whatever is added later to the caller's or to another package's (rpm.go:145).
THEOREM PackagesCorrect == MetaSpec => []PackagesKeepList
<1>1. RelationsInv => PackagesKeepList
  <2> SUFFICES ASSUME RelationsInv, NEW i \in DOMAIN packages, NEW p, p = packages[i]
               PROVE  /\ Len(Elements(p.provides)) \in {Len(p.asked), Len(p.asked) + 1}
                      /\ SubSeq(Elements(p.provides), 1, Len(p.asked)) = p.asked
    BY DEF PackagesKeepList, Range
  <2>1. PICK e, a : e = Elements(p.provides) /\ a = p.asked
    OBVIOUS
  <2>2. /\ PackageOK(heap, list, p)
        /\ e \in Seq(Rels) /\ Len(e) = p.provides.len
        /\ \A k \in 1 .. p.provides.len : e[k] = heap[p.provides.array][k]
    BY <2>1, PackageHolds
  <2>3. /\ a \in Seq(Rels) /\ Len(a) \in Nat /\ Len(e) \in {Len(a), Len(a) + 1}
        /\ \A k \in 1 .. Len(a) : heap[p.provides.array][k] = a[k]
    BY <2>1, <2>2 DEF PackageOK
  <2>4. \A k \in 1 .. Len(a) : k \in 1 .. p.provides.len /\ e[k] = a[k]
    BY <2>2, <2>3
  <2>5. PICK s : s = SubSeq(e, 1, Len(a))
    OBVIOUS
  <2>6. s \in Seq(Rels) /\ Len(s) = Len(a) /\ \A k \in 1 .. Len(a) : s[k] = e[k]
    BY <2>2, <2>3, <2>5
  <2>7. s = a
    BY <2>3, <2>4, <2>6, SeqEqual
  <2> QED
    BY <2>1, <2>3, <2>5, <2>7
<1> QED
  BY <1>1, RelationsAlways, PTL

\* No list has a relation twice (sense.go:99).
THEOREM DuplicatesCorrect == MetaSpec => []NoDuplicates
<1>1. RelationsInv => NoDuplicates
  <2> SUFFICES ASSUME RelationsInv, NEW s \in {list} \cup {p.provides : p \in Range(packages)}
               PROVE  Cardinality(Range(Elements(s))) = s.len
    BY DEF NoDuplicates
  <2>1. heap \in Seq(Seq(Rels)) /\ Slice(heap, s) /\ Distinct(heap, s)
    <3>1. heap \in Seq(Seq(Rels)) /\ Slice(heap, list) /\ Distinct(heap, list)
      BY DEF RelationsInv, ListsInv, ListOK
    <3>2. \A p \in Range(packages) : Slice(heap, p.provides) /\ Distinct(heap, p.provides)
      <4>1. DOMAIN packages = 1 .. Len(packages)
        BY DEF RelationsInv, ListsInv, PackagesInv
      <4> QED
        BY <4>1 DEF RelationsInv, ListsInv, PackagesInv, PackageOK, Range
    <3> QED
      BY <3>1, <3>2
  <2>2. PICK e : e = Elements(s)
    OBVIOUS
  <2>3. e \in Seq(Rels) /\ Len(e) = s.len /\ \A i \in 1 .. s.len : e[i] = heap[s.array][i]
    BY <2>1, <2>2, ElementsAre DEF Elements
  <2>4. \A i, j \in 1 .. Len(e) : e[i] = e[j] => i = j
    BY <2>1, <2>3 DEF Distinct
  <2>5. Cardinality(Range(e)) = Len(e)
    BY <2>3, <2>4, DistinctCounts
  <2> QED
    BY <2>2, <2>3, <2>5
<1> QED
  BY <1>1, RelationsAlways, PTL

\* "A package must provide itself" (rpm.go:145): it does, unless it was put into
\* room the caller's array had left.
THEOREM ItselfCorrect == MetaSpec => []PackageProvidesItself
<1>1. RelationsInv => PackageProvidesItself
  <2> SUFFICES ASSUME RelationsInv, NEW i \in DOMAIN packages, NEW p, p = packages[i],
                      \/ ~p.spare
                      \/ p.self \in Range(p.asked)
                      \/ i = Len(packages) /\ asked = p.asked
               PROVE  p.self \in Range(Elements(p.provides))
    BY DEF PackageProvidesItself
  <2>1. PICK e : e = Elements(p.provides)
    OBVIOUS
  <2>2. /\ PackageOK(heap, list, p)
        /\ e \in Seq(Rels) /\ Len(e) = p.provides.len /\ Len(e) \in Nat
        /\ \A k \in 1 .. p.provides.len : e[k] = heap[p.provides.array][k]
    BY <2>1, PackageHolds
  <2>3. /\ p.asked \in Seq(Rels) /\ Len(p.asked) \in Nat
        /\ Len(e) \in {Len(p.asked), Len(p.asked) + 1}
        /\ \A k \in 1 .. Len(p.asked) : heap[p.provides.array][k] = p.asked[k]
    BY <2>2 DEF PackageOK
  <2>4. CASE p.self \in Range(p.asked)
    <3>1. PICK k \in 1 .. Len(p.asked) : p.self = p.asked[k]
      BY <2>3, <2>4 DEF Range
    <3>2. k \in 1 .. Len(e) /\ e[k] = p.self
      BY <2>2, <2>3, <3>1
    <3> QED
      BY <2>1, <2>2, <3>2 DEF Range
  <2>5. CASE p.self \notin Range(p.asked)
    <3>1. HasSelf(heap, p)
      <4>1. CASE ~p.spare
        BY <2>2, <2>5, <4>1 DEF PackageOK
      <4>2. CASE i = Len(packages) /\ asked = p.asked
        BY <2>5, <4>2 DEF RelationsInv, ListsInv, LastInv
      <4> QED
        BY <2>5, <4>1, <4>2
    <3>2. Len(e) \in 1 .. Len(e) /\ e[Len(e)] = p.self
      BY <2>2, <2>3, <3>1 DEF HasSelf
    <3> QED
      BY <2>1, <2>2, <3>2 DEF Range
  <2> QED
    BY <2>4, <2>5
<1> QED
  BY <1>1, RelationsAlways, PTL

\* A list that is written and read comes back; with a column put in by hand,
\* none does or one as long as everything it was read from (sense.go:153).
THEOREM RelationsReadBack == MetaSpec => []ReadsBack
<1>1. RelationsInv => ReadsBack
  BY DEF RelationsInv, HeaderInv
<1> QED
  BY <1>1, RelationsAlways, PTL

-----------------------------------------------------------------------------
(* Parsing and printing.                                                    *)

\* Where a run of tokens ends.
Ends(text, i, class, j) ==
  /\ j \in i .. Len(text) + 1
  /\ j = Len(text) + 1 \/ text[j] \notin class
  /\ \A k \in i .. j - 1 : text[k] \in class

\* RunEnd is the one place at which a run of a class of characters ends: the least
\* of those that are not in it.
LEMMA RunEndIs ==
  ASSUME NEW S, NEW text \in Seq(S), NEW i \in 1 .. Len(text) + 1, NEW class
  PROVE  /\ Ends(text, i, class, RunEnd(text, i, class))
         /\ \A j : Ends(text, i, class, j) => RunEnd(text, i, class) = j
<1>1. Len(text) \in Nat /\ i \in Nat
  OBVIOUS
<1>2. \E j \in i .. Len(text) + 1 : Ends(text, i, class, j)
  <2> DEFINE T == {j \in i .. Len(text) + 1 : j = Len(text) + 1 \/ text[j] \notin class}
  <2>1. T \subseteq Nat /\ Len(text) + 1 \in T
    BY <1>1
  <2>2. PICK j \in T : \A k \in T : j <= k
    BY <2>1, LeastNumber
  <2>3. \A k \in i .. j - 1 : k \notin T /\ k \in i .. Len(text) + 1
    BY <1>1, <2>2
  <2> QED
    BY <1>1, <2>2, <2>3 DEF Ends
<1>3. ASSUME NEW j, NEW k, Ends(text, i, class, j), Ends(text, i, class, k) PROVE j = k
  <2>1. j \in Int /\ k \in Int /\ i \in Int
    BY <1>1, <1>3 DEF Ends
  <2>2. ASSUME NEW x, NEW y, Ends(text, i, class, x), Ends(text, i, class, y), x < y PROVE FALSE
    <3>1. x \in i .. y - 1 /\ x # Len(text) + 1
      BY <1>1, <2>2 DEF Ends
    <3> QED
      BY <2>2, <3>1 DEF Ends
  <2>3. j < k \/ k < j \/ j = k
    BY <2>1
  <2> QED
    BY <1>3, <2>2, <2>3
<1>4. RunEnd(text, i, class) = CHOOSE j \in i .. Len(text) + 1 : Ends(text, i, class, j)
  BY DEF RunEnd, Ends
<1>5. Ends(text, i, class, RunEnd(text, i, class))
  BY <1>2, <1>4
<1> QED
  BY <1>3, <1>5

\* The characters of the first group of the expression.
IsWord(c) == c \notin Ops \cup Blanks

\* The text is words up to a, blanks up to b, a comparison up to c, blanks up
\* to d, each as long as it goes, and a rest.
Parts(text, a, b, c, d) ==
  /\ a \in 0 .. Len(text) /\ b \in a .. Len(text) /\ c \in b .. Len(text) /\ d \in c .. Len(text)
  /\ \A k \in 1 .. a : IsWord(text[k])
  /\ \A k \in a + 1 .. b : text[k] \in Blanks
  /\ \A k \in b + 1 .. c : text[k] \in Ops
  /\ \A k \in c + 1 .. d : text[k] \in Blanks
  /\ a = Len(text) \/ ~IsWord(text[a + 1])
  /\ b = Len(text) \/ text[b + 1] \notin Blanks
  /\ c = Len(text) \/ text[c + 1] \notin Ops
  /\ d = Len(text) \/ text[d + 1] \notin Blanks

\* The match of a text is that of its parts, and there is but one way to part it.
LEMMA MatchIs ==
  ASSUME NEW S, NEW text \in Seq(S), NEW a, NEW b, NEW c, NEW d, Parts(text, a, b, c, d)
  PROVE  Match(text) = <<SubSeq(text, 1, a), SubSeq(text, b + 1, c), SubSeq(text, d + 1, Len(text))>>
<1>1. /\ Len(text) \in Nat /\ a \in 0 .. Len(text) /\ b \in a .. Len(text) /\ c \in b .. Len(text)
      /\ d \in c .. Len(text)
  BY DEF Parts
<1>2. PICK words : words = Range(text) \ (Ops \cup Blanks)
  OBVIOUS
<1>3. \A k \in 1 .. Len(text) : text[k] \in words <=> IsWord(text[k])
  BY <1>2 DEF IsWord, Range
<1>4. Ends(text, 1, words, a + 1)
  BY <1>1, <1>3 DEF Ends, Parts
<1>5. Ends(text, a + 1, Blanks, b + 1)
  BY <1>1 DEF Ends, Parts
<1>6. Ends(text, b + 1, Ops, c + 1)
  BY <1>1 DEF Ends, Parts
<1>7. Ends(text, c + 1, Blanks, d + 1)
  BY <1>1 DEF Ends, Parts
<1>8. /\ 1 \in 1 .. Len(text) + 1 /\ a + 1 \in 1 .. Len(text) + 1
      /\ b + 1 \in 1 .. Len(text) + 1 /\ c + 1 \in 1 .. Len(text) + 1
  BY <1>1
<1>9. RunEnd(text, 1, words) = a + 1
  BY <1>4, <1>8, RunEndIs
<1>10. RunEnd(text, a + 1, Blanks) = b + 1
  BY <1>5, <1>8, RunEndIs
<1>11. RunEnd(text, b + 1, Ops) = c + 1
  BY <1>6, <1>8, RunEndIs
<1>12. RunEnd(text, c + 1, Blanks) = d + 1
  BY <1>7, <1>8, RunEndIs
<1>13. (a + 1) - 1 = a /\ (c + 1) - 1 = c
  BY <1>1
<1> QED
  BY <1>2, <1>9, <1>10, <1>11, <1>12, <1>13, Zenon DEF Match

\* Any text has such parts.
LEMMA PartsExist ==
  ASSUME NEW S, NEW text \in Seq(S)
  PROVE  \E a, b, c, d : Parts(text, a, b, c, d)
<1>1. Len(text) \in Nat
  OBVIOUS
<1>2. PICK words : words = Range(text) \ (Ops \cup Blanks)
  OBVIOUS
<1>3. \A k \in 1 .. Len(text) : text[k] \in words <=> IsWord(text[k])
  BY <1>2 DEF IsWord, Range
<1>4. PICK w : Ends(text, 1, words, w)
  <2>1. 1 \in 1 .. Len(text) + 1
    BY <1>1
  <2> QED
    BY <2>1, RunEndIs
<1>5. w \in 1 .. Len(text) + 1
  BY <1>4 DEF Ends
<1>6. PICK x : Ends(text, w, Blanks, x)
  BY <1>5, RunEndIs
<1>7. x \in w .. Len(text) + 1 /\ x \in 1 .. Len(text) + 1
  BY <1>5, <1>6 DEF Ends
<1>8. PICK y : Ends(text, x, Ops, y)
  BY <1>7, RunEndIs
<1>9. y \in x .. Len(text) + 1 /\ y \in 1 .. Len(text) + 1
  BY <1>7, <1>8 DEF Ends
<1>10. PICK z : Ends(text, y, Blanks, z)
  BY <1>9, RunEndIs
<1>11. z \in y .. Len(text) + 1
  BY <1>10 DEF Ends
<1>12. PICK a, b, c, d : a = w - 1 /\ b = x - 1 /\ c = y - 1 /\ d = z - 1
  OBVIOUS
<1>13. /\ a \in 0 .. Len(text) /\ b \in a .. Len(text) /\ c \in b .. Len(text) /\ d \in c .. Len(text)
       /\ w = a + 1 /\ x = b + 1 /\ y = c + 1 /\ z = d + 1
  BY <1>1, <1>5, <1>7, <1>9, <1>11, <1>12
<1>14. /\ \A k \in 1 .. a : IsWord(text[k])
       /\ a = Len(text) \/ ~IsWord(text[a + 1])
  BY <1>1, <1>3, <1>4, <1>12, <1>13 DEF Ends
<1>15. /\ \A k \in a + 1 .. b : text[k] \in Blanks
       /\ b = Len(text) \/ text[b + 1] \notin Blanks
  BY <1>1, <1>6, <1>12, <1>13 DEF Ends
<1>16. /\ \A k \in b + 1 .. c : text[k] \in Ops
       /\ c = Len(text) \/ text[c + 1] \notin Ops
  BY <1>1, <1>8, <1>12, <1>13 DEF Ends
<1>17. /\ \A k \in c + 1 .. d : text[k] \in Blanks
       /\ d = Len(text) \/ text[d + 1] \notin Blanks
  BY <1>1, <1>10, <1>12, <1>13 DEF Ends
<1>18. Parts(text, a, b, c, d)
  BY <1>13, <1>14, <1>15, <1>16, <1>17 DEF Parts
<1> QED
  BY <1>18

\* The comparisons of stringToSense.
LEMMA SensesAre ==
  /\ DOMAIN StringToSense = {<< >>} \cup Comparisons
  /\ StringToSense[<< >>] = {}
  /\ StringToSense[<<"<">>] = {"less"} /\ StringToSense[<<">">>] = {"greater"}
  /\ StringToSense[<<"=">>] = {"equal"}
  /\ StringToSense[<<"<", "=">>] = {"less", "equal"}
  /\ StringToSense[<<">", "=">>] = {"greater", "equal"}
<1>1. SenseBit("<") = "less" /\ SenseBit(">") = "greater" /\ SenseBit("=") = "equal"
  BY DEF SenseBit
<1>2. DOMAIN StringToSense = {<< >>} \cup Comparisons
  BY DEF StringToSense, Comparisons
<1>3. \A op \in DOMAIN StringToSense : StringToSense[op] = {SenseBit(op[i]) : i \in DOMAIN op}
  BY DEF StringToSense
<1>4. DOMAIN << >> = {} /\ DOMAIN <<"<">> = {1} /\ DOMAIN <<">">> = {1} /\ DOMAIN <<"=">> = {1}
      /\ DOMAIN <<"<", "=">> = {1, 2} /\ DOMAIN <<">", "=">> = {1, 2}
  OBVIOUS
<1>5. StringToSense[<< >>] = {}
  BY <1>2, <1>3, <1>4
<1>6. /\ StringToSense[<<"<">>] = {"less"} /\ StringToSense[<<">">>] = {"greater"}
      /\ StringToSense[<<"=">>] = {"equal"}
  BY <1>1, <1>2, <1>3, <1>4 DEF Comparisons
<1>7. StringToSense[<<"<", "=">>] = {"less", "equal"}
  BY <1>1, <1>2, <1>3, <1>4 DEF Comparisons
<1>8. StringToSense[<<">", "=">>] = {"greater", "equal"}
  BY <1>1, <1>2, <1>3, <1>4 DEF Comparisons
<1> QED
  BY <1>2, <1>5, <1>6, <1>7, <1>8

\* What String prints for a comparison is the comparison.
LEMMA SensePrintsBack == \A op \in DOMAIN StringToSense : SenseString(StringToSense[op]) = op
<1>1. ASSUME NEW op \in DOMAIN StringToSense, NEW oq \in DOMAIN StringToSense,
             StringToSense[op] = StringToSense[oq]
      PROVE  op = oq
  <2>1. op \in {<< >>, <<"<">>, <<">">>, <<"=">>, <<"<", "=">>, <<">", "=">>}
        /\ oq \in {<< >>, <<"<">>, <<">">>, <<"=">>, <<"<", "=">>, <<">", "=">>}
    BY SensesAre DEF Comparisons
  <2>2. PICK z, l, g, e, le, ge : /\ z = {} /\ l = {"less"} /\ g = {"greater"} /\ e = {"equal"}
                                  /\ le = {"less", "equal"} /\ ge = {"greater", "equal"}
    OBVIOUS
  <2>3. /\ z # l /\ z # g /\ z # e /\ z # le /\ z # ge /\ l # g /\ l # e /\ l # le /\ l # ge
        /\ g # e /\ g # le /\ g # ge /\ e # le /\ e # ge /\ le # ge
    BY <2>2
  <2>4. /\ StringToSense[<< >>] = z /\ StringToSense[<<"<">>] = l /\ StringToSense[<<">">>] = g
        /\ StringToSense[<<"=">>] = e /\ StringToSense[<<"<", "=">>] = le
        /\ StringToSense[<<">", "=">>] = ge
    BY <2>2, SensesAre
  <2> QED
    BY ONLY <1>1, <2>1, <2>3, <2>4
<1> QED
  BY <1>1 DEF SenseString

\* NewRelation, case by case.
LEMMA NewRelationIs ==
  ASSUME NEW t
  PROVE  /\ IsRich(t) => NewRelation(t) = Relation(t, {}, << >>)
         /\ ~IsRich(t) /\ Match(t)[2] \in DOMAIN StringToSense =>
              NewRelation(t) = Relation(Match(t)[1], StringToSense[Match(t)[2]], Match(t)[3])
         /\ ~IsRich(t) /\ Match(t)[2] \notin DOMAIN StringToSense => NewRelation(t) = NoRelation
BY DEF NewRelation

\* A name is understood, with blanks behind it ...
LEMMA UnderstandsName ==
  ASSUME NEW S, NEW t \in Seq(S), ~IsRich(t), NEW n, n = Len(t), NEW i \in 1 .. n,
         \A m \in 1 .. i : IsWord(t[m]), \A m \in i + 1 .. n : t[m] \in Blanks
  PROVE  NewRelation(t) = Relation(SubSeq(t, 1, i), {}, << >>)
<1>1. n \in Nat
  OBVIOUS
<1>2. Parts(t, i, n, n, n)
  BY <1>1 DEF Parts, IsWord
<1>3. SubSeq(t, n + 1, n) = << >>
  BY <1>1
<1>4. Match(t) = <<SubSeq(t, 1, i), << >>, << >>>>
  BY <1>2, <1>3, MatchIs
<1>5. Match(t)[1] = SubSeq(t, 1, i) /\ Match(t)[2] = << >> /\ Match(t)[3] = << >>
  BY <1>4
<1> QED
  BY <1>1, <1>5, NewRelationIs, SensesAre

\* ... and a name, a comparison and a version, with blanks between them.
LEMMA UnderstandsComparison ==
  ASSUME NEW S, NEW t \in Seq(S), ~IsRich(t), NEW n, n = Len(t),
         NEW i \in 1 .. n, NEW j \in i .. n, NEW k \in j + 1 .. n, NEW l \in k .. n,
         \A m \in 1 .. i : IsWord(t[m]), \A m \in i + 1 .. j : t[m] \in Blanks,
         \A m \in j + 1 .. k : t[m] \in Ops, \A m \in k + 1 .. l : t[m] \in Blanks,
         \A m \in l + 1 .. n : IsWord(t[m])
  PROVE  NewRelation(t) =
           IF SubSeq(t, j + 1, k) \in Comparisons
           THEN Relation(SubSeq(t, 1, i), {SenseBit(c) : c \in Range(SubSeq(t, j + 1, k))},
                         SubSeq(t, l + 1, n))
           ELSE NoRelation
<1>1. n \in Nat
  OBVIOUS
<1>2. Ops \cap Blanks = {}
  BY DEF Ops, Blanks
<1>3. i \in Nat /\ j \in Nat /\ k \in Nat /\ l \in Nat /\ ~IsRich(t)
  BY <1>1
<1>4. t[j + 1] \in Ops /\ t[j + 1] \notin Blanks /\ ~IsWord(t[j + 1])
  <2>1. j + 1 \in j + 1 .. k
    BY <1>1, <1>3
  <2> QED
    BY <1>2, <2>1 DEF IsWord
<1>5. i = n \/ ~IsWord(t[i + 1])
  <2>1. CASE i = j
    BY <1>4, <2>1
  <2>2. CASE i # j
    <3>1. i + 1 \in i + 1 .. j
      BY <1>3, <2>2
    <3> QED
      BY <3>1 DEF IsWord
  <2> QED
    BY <2>1, <2>2
<1>6. l = n \/ IsWord(t[l + 1])
  <2>1. l = n \/ l + 1 \in l + 1 .. n
    BY <1>1, <1>3
  <2> QED
    BY <2>1
<1>7. k = n \/ t[k + 1] \notin Ops
  <2>1. k = n \/ k + 1 \in k + 1 .. l \/ k + 1 = l + 1
    BY <1>1, <1>3
  <2> QED
    BY <1>2, <1>6, <2>1 DEF IsWord
<1>8. l = n \/ t[l + 1] \notin Blanks
  BY <1>6 DEF IsWord
<1>9. Parts(t, i, j, k, l)
  BY <1>1, <1>3, <1>4, <1>5, <1>7, <1>8 DEF Parts
<1>10. PICK op : op = SubSeq(t, j + 1, k)
  OBVIOUS
<1>11. Match(t) = <<SubSeq(t, 1, i), op, SubSeq(t, l + 1, n)>>
  BY <1>9, <1>10, MatchIs
<1>12. Match(t)[1] = SubSeq(t, 1, i) /\ Match(t)[2] = op /\ Match(t)[3] = SubSeq(t, l + 1, n)
  BY <1>11
<1>13. op # << >> /\ op \in Seq(S)
  <2>1. op \in Seq(S) /\ Len(op) = k - j /\ k - j > 0
    BY <1>1, <1>3, <1>10
  <2> QED
    BY <2>1
<1>14. op \in DOMAIN StringToSense <=> op \in Comparisons
  BY <1>13, SensesAre
<1>15. op \in Comparisons => StringToSense[op] = {SenseBit(c) : c \in Range(op)}
  <2>1. ASSUME op \in Comparisons PROVE StringToSense[op] = {SenseBit(op[x]) : x \in DOMAIN op}
    BY <2>1, <1>14 DEF StringToSense
  <2>2. {SenseBit(op[x]) : x \in DOMAIN op} = {SenseBit(c) : c \in Range(op)}
    BY DEF Range
  <2> QED
    BY <2>1, <2>2
<1>16. CASE op \in Comparisons
  BY <1>3, <1>10, <1>12, <1>14, <1>15, <1>16, NewRelationIs
<1>17. CASE op \notin Comparisons
  BY <1>3, <1>10, <1>12, <1>14, <1>17, NewRelationIs
<1> QED
  BY <1>16, <1>17

\* The tokens of a part of a text.
LEMMA PartTokens ==
  ASSUME NEW S, NEW t \in Seq(S), NEW i \in Nat, NEW j \in Nat, i <= j, j <= Len(t)
  PROVE  /\ SubSeq(t, i + 1, j) \in Seq(S) /\ Len(SubSeq(t, i + 1, j)) = j - i
         /\ \A m \in 1 .. j - i : SubSeq(t, i + 1, j)[m] = t[i + m]
         /\ Range(SubSeq(t, i + 1, j)) = {t[m] : m \in i + 1 .. j}
<1>1. PICK p : p = SubSeq(t, i + 1, j)
  OBVIOUS
<1>2. Len(t) \in Nat
  OBVIOUS
<1>3. p \in Seq(S) /\ Len(p) = j - i /\ \A m \in 1 .. j - i : p[m] = t[i + m]
  BY <1>1, <1>2
<1>4. Range(p) = {t[m] : m \in i + 1 .. j}
  <2>1. \A m \in 1 .. j - i : i + m \in i + 1 .. j
    OBVIOUS
  <2>2. \A m \in i + 1 .. j : m - i \in 1 .. j - i /\ i + (m - i) = m
    OBVIOUS
  <2>3. Range(p) = {p[m] : m \in 1 .. j - i}
    BY <1>3 DEF Range
  <2>4. ASSUME NEW m \in 1 .. j - i PROVE p[m] \in {t[x] : x \in i + 1 .. j}
    BY <1>3, <2>1
  <2>5. ASSUME NEW m \in i + 1 .. j PROVE t[m] \in {p[x] : x \in 1 .. j - i}
    <3>1. p[m - i] = t[m]
      BY <1>3, <2>2
    <3> QED
      BY <2>2, <3>1
  <2> QED
    BY <2>3, <2>4, <2>5
<1> QED
  BY <1>1, <1>3, <1>4

\* What Set parsed last.
ParsedInv ==
  \/ last = [text |-> << >>, relation |-> NoRelation]
  \/ last.text \in Texts /\ last.relation = NewRelation(last.text)

\* Whatever is set was parsed by NewRelation and printed by String.
LEMMA ParsedAlways == MetaSpec => []ParsedInv
<1>1. MetaInit => ParsedInv
  BY DEF MetaInit, Init, ParsedInv
<1>2. ParsedInv /\ [MetaNext]_<<vars, logVars>> => ParsedInv'
  <2> SUFFICES ASSUME ParsedInv, [MetaNext]_<<vars, logVars>> PROVE ParsedInv'
    OBVIOUS
  <2>1. ASSUME NEW text \in TextsNow, Set(text) PROVE ParsedInv'
    <3>1. text \in Texts
      BY RelationsAssumption DEF TextsNow
    <3>2. last' = [text |-> text, relation |-> NewRelation(text)]
      BY <2>1 DEF Set
    <3> QED
      BY <3>1, <3>2 DEF ParsedInv
  <2>2. ASSUME UNCHANGED last PROVE ParsedInv'
    BY <2>2 DEF ParsedInv
  <2>3. ASSUME NEW name \in Names, NewRPM(name) PROVE UNCHANGED last
    BY <2>3 DEF NewRPM
  <2>4. ASSUME NEW s, NEW custom, WriteIndex(s, custom) PROVE UNCHANGED last
    BY <2>4 DEF WriteIndex
  <2>5. ReadIndex => UNCHANGED last
    BY DEF ReadIndex
  <2>6. UNCHANGED vars => UNCHANGED last
    BY DEF vars
  <2> QED
    BY <2>1, <2>2, <2>3, <2>4, <2>5, <2>6 DEF MetaNext, Next
<1> QED
  BY <1>1, <1>2, PTL DEF MetaSpec

\* What is said of a text and the relation it was parsed as.
LEMMA Understood ==
  ASSUME NEW S, NEW t \in Seq(S), NEW r, t # << >> => r = NewRelation(t)
  PROVE  LET n == Len(t)
             rich == n > 0 /\ t[1] = "(" /\ t[n] = ")"
             part(i, j) == SubSeq(t, i + 1, j)
             is(i, j, class) == Range(part(i, j)) \subseteq class
             words == Range(t) \ (Ops \cup Blanks)
         IN  /\ rich => r = Relation(t, {}, << >>)
             /\ \A i \in 1 .. n :
                  ~rich /\ is(0, i, words) /\ is(i, n, Blanks) =>
                    r = Relation(part(0, i), {}, << >>)
             /\ \A i \in 1 .. n : \A j \in i .. n : \A k \in j + 1 .. n : \A l \in k .. n :
                  /\ ~rich
                  /\ is(0, i, words) /\ is(i, j, Blanks) /\ is(j, k, Ops)
                  /\ is(k, l, Blanks) /\ is(l, n, words)
                  => r = IF part(j, k) \in Comparisons
                         THEN Relation(part(0, i), {SenseBit(c) : c \in Range(part(j, k))},
                                       part(l, n))
                         ELSE NoRelation
<1> DEFINE n == Len(t)
           rich == n > 0 /\ t[1] = "(" /\ t[n] = ")"
           part(i, j) == SubSeq(t, i + 1, j)
           is(i, j, class) == Range(part(i, j)) \subseteq class
           words == Range(t) \ (Ops \cup Blanks)
<1>1. n \in Nat /\ n = Len(t) /\ (n > 0 => r = NewRelation(t))
  OBVIOUS
<1>2. rich <=> IsRich(t)
  BY DEF IsRich
<1>3. ASSUME NEW i \in 0 .. n, NEW j \in i .. n, NEW class
      PROVE  is(i, j, class) <=> \A m \in i + 1 .. j : t[m] \in class
  <2>1. Range(SubSeq(t, i + 1, j)) = {t[m] : m \in i + 1 .. j}
    <3>1. i \in Nat /\ j \in Nat /\ i <= j /\ j <= Len(t)
      BY <1>1
    <3> QED
      BY <3>1, PartTokens
  <2> QED
    BY <2>1
<1>4. \A m \in 1 .. n : t[m] \in words <=> IsWord(t[m])
  BY DEF IsWord, Range
<1>5. \A i, j : part(i, j) = SubSeq(t, i + 1, j)
  OBVIOUS
<1> HIDE DEF n, is, words, part, rich
<1>6. rich => r = Relation(t, {}, << >>)
  <2>1. rich => n > 0
    BY DEF rich
  <2> QED
    BY <1>1, <1>2, <2>1, NewRelationIs
<1>7. ASSUME NEW i \in 1 .. n, ~rich, is(0, i, words), is(i, n, Blanks)
      PROVE  r = Relation(part(0, i), {}, << >>)
  <2>1. 0 \in 0 .. n /\ i \in 0 .. n /\ n \in i .. n /\ 0 + 1 = 1 /\ n > 0
    BY <1>1
  <2>2. \A m \in 1 .. i : t[m] \in words /\ m \in 1 .. n
    BY <1>1, <1>3, <1>7, <2>1
  <2>3. \A m \in 1 .. i : IsWord(t[m])
    BY <1>4, <2>2
  <2>4. \A m \in i + 1 .. n : t[m] \in Blanks
    BY <1>3, <1>7, <2>1
  <2>5. NewRelation(t) = Relation(SubSeq(t, 1, i), {}, << >>)
    BY <1>1, <1>2, <1>7, <2>3, <2>4, UnderstandsName
  <2> QED
    <3>1. part(0, i) = SubSeq(t, 1, i)
      BY <1>5, <2>1
    <3> QED
      BY <1>1, <2>1, <2>5, <3>1
<1>8. ASSUME NEW i \in 1 .. n, NEW j \in i .. n, NEW k \in j + 1 .. n, NEW l \in k .. n, ~rich,
             is(0, i, words), is(i, j, Blanks), is(j, k, Ops), is(k, l, Blanks), is(l, n, words)
      PROVE  r = IF part(j, k) \in Comparisons
                 THEN Relation(part(0, i), {SenseBit(c) : c \in Range(part(j, k))}, part(l, n))
                 ELSE NoRelation
  <2>1. /\ 0 \in 0 .. n /\ i \in 0 .. n /\ j \in 0 .. n /\ k \in 0 .. n /\ l \in 0 .. n
        /\ k \in j .. n /\ n \in l .. n /\ 0 + 1 = 1 /\ n > 0
    BY <1>1
  <2>2. \A m \in 1 .. i : t[m] \in words /\ m \in 1 .. n
    BY <1>1, <1>3, <1>8, <2>1
  <2>3. \A m \in l + 1 .. n : t[m] \in words /\ m \in 1 .. n
    BY <1>1, <1>3, <1>8, <2>1
  <2>4. /\ \A m \in 1 .. i : IsWord(t[m])
        /\ \A m \in l + 1 .. n : IsWord(t[m])
    BY <1>4, <2>2, <2>3
  <2>5. /\ \A m \in i + 1 .. j : t[m] \in Blanks
        /\ \A m \in j + 1 .. k : t[m] \in Ops
        /\ \A m \in k + 1 .. l : t[m] \in Blanks
    BY <1>3, <1>8, <2>1
  <2>6. NewRelation(t) =
          IF SubSeq(t, j + 1, k) \in Comparisons
          THEN Relation(SubSeq(t, 1, i), {SenseBit(c) : c \in Range(SubSeq(t, j + 1, k))},
                        SubSeq(t, l + 1, n))
          ELSE NoRelation
    BY <1>1, <1>2, <1>8, <2>4, <2>5, UnderstandsComparison
  <2> QED
    <3>1. part(0, i) = SubSeq(t, 1, i)
      BY <1>5, <2>1
    <3>2. part(j, k) = SubSeq(t, j + 1, k) /\ part(l, n) = SubSeq(t, l + 1, n)
      BY <1>5
    <3>3. r = NewRelation(t)
      BY <1>1, <2>1
    <3> QED
      BY <2>6, <3>1, <3>2, <3>3, Zenon
<1>9. \A i \in 1 .. n :
        ~rich /\ is(0, i, words) /\ is(i, n, Blanks) => r = Relation(part(0, i), {}, << >>)
  BY <1>7
<1>10. \A i \in 1 .. n : \A j \in i .. n : \A k \in j + 1 .. n : \A l \in k .. n :
         /\ ~rich
         /\ is(0, i, words) /\ is(i, j, Blanks) /\ is(j, k, Ops)
         /\ is(k, l, Blanks) /\ is(l, n, words)
         => r = IF part(j, k) \in Comparisons
                THEN Relation(part(0, i), {SenseBit(c) : c \in Range(part(j, k))}, part(l, n))
                ELSE NoRelation
  BY <1>8
<1> QED
  BY <1>6, <1>9, <1>10 DEF n, is, words, part, rich

\* The texts that the commands document are understood as they say
\* (sense.go:128, cmd/tar2rpm/main.go:76).
THEOREM SetCorrect == MetaSpec => []SetUnderstands
<1>1. ParsedInv => SetUnderstands
  <2> SUFFICES ASSUME ParsedInv PROVE SetUnderstands
    OBVIOUS
  <2>1. last.text \in Seq(Range(last.text))
    <3>1. CASE last = [text |-> << >>, relation |-> NoRelation]
      <4>1. last.text = << >>
        BY <3>1
      <4>2. << >> \in Seq(Range(<< >>))
        OBVIOUS
      <4> QED
        BY <4>1, <4>2
    <3>2. CASE last.text \in Texts
      BY <3>2, RelationsAssumption
    <3> QED
      BY <3>1, <3>2 DEF ParsedInv
  <2>2. last.text # << >> => last.relation = NewRelation(last.text)
    BY DEF ParsedInv
  <2> QED
    BY <2>1, <2>2, Understood DEF SetUnderstands
<1> QED
  BY <1>1, ParsedAlways, PTL

\* Three sequences one after the other, and each of them cut out again.
LEMMA Concat3 ==
  ASSUME NEW S, NEW p \in Seq(S), NEW q \in Seq(S), NEW v \in Seq(S), NEW u, NEW s,
         IsConcat(u, p, q), IsConcat(s, u, v)
  PROVE  /\ s \in Seq(S) /\ Len(s) = Len(p) + Len(q) + Len(v)
         /\ \A k \in 1 .. Len(p) : s[k] = p[k]
         /\ \A k \in 1 .. Len(q) : s[Len(p) + k] = q[k]
         /\ \A k \in 1 .. Len(v) : s[Len(p) + Len(q) + k] = v[k]
         /\ SubSeq(s, 1, Len(p)) = p /\ SubSeq(s, Len(p) + 1, Len(p) + Len(q)) = q
         /\ SubSeq(s, (Len(p) + Len(q)) + 1, Len(s)) = v
<1>1. PICK x, y, z : x = Len(p) /\ y = Len(q) /\ z = Len(v)
  OBVIOUS
<1>2. x \in Nat /\ y \in Nat /\ z \in Nat
  BY <1>1
<1>3. /\ u \in Seq(S) /\ Len(u) = x + y
      /\ \A k \in 1 .. x + y : u[k] = IF k <= x THEN p[k] ELSE q[k - x]
  <2>1. /\ u \in Seq(S) /\ Len(u) = Len(p) + Len(q)
        /\ \A k \in 1 .. Len(u) : u[k] = IF k <= Len(p) THEN p[k] ELSE q[k - Len(p)]
    BY ONLY p \in Seq(S), q \in Seq(S), IsConcat(u, p, q), ConcatIs
  <2> QED
    BY <1>1, <2>1
<1>4. /\ s \in Seq(S) /\ Len(s) = x + y + z
      /\ \A k \in 1 .. x + y + z : s[k] = IF k <= x + y THEN u[k] ELSE v[k - (x + y)]
  <2>1. /\ s \in Seq(S) /\ Len(s) = Len(u) + Len(v)
        /\ \A k \in 1 .. Len(s) : s[k] = IF k <= Len(u) THEN u[k] ELSE v[k - Len(u)]
    <3>1. u \in Seq(S)
      BY <1>3
    <3> QED
      BY ONLY <3>1, v \in Seq(S), IsConcat(s, u, v), ConcatIs
  <2>2. Len(u) = x + y /\ Len(s) = x + y + z
    BY <1>1, <1>3, <2>1
  <2> QED
    BY <2>1, <2>2
<1>5. ASSUME NEW k \in 1 .. x PROVE s[k] = p[k]
  BY <1>2, <1>3, <1>4
<1>6. ASSUME NEW k \in 1 .. y PROVE s[x + k] = q[k]
  <2>1. /\ x + k \in 1 .. x + y /\ ~(x + k <= x) /\ (x + k) - x = k
        /\ x + k \in 1 .. x + y + z /\ x + k <= x + y
    BY <1>2
  <2> QED
    BY <1>3, <1>4, <2>1
<1>7. ASSUME NEW k \in 1 .. z PROVE s[x + y + k] = v[k]
  <2>1. /\ x + y + k \in 1 .. x + y + z /\ ~(x + y + k <= x + y) /\ (x + y + k) - (x + y) = k
    BY <1>2
  <2> QED
    BY <1>4, <2>1
<1>8. ASSUME NEW i \in Nat, NEW w \in Seq(S), i + Len(w) <= Len(s),
             \A k \in 1 .. Len(w) : s[i + k] = w[k]
      PROVE  SubSeq(s, i + 1, i + Len(w)) = w
  <2>1. PICK j : j = i + Len(w)
    OBVIOUS
  <2>2. Len(w) \in Nat /\ j \in Nat /\ i <= j /\ j <= Len(s) /\ j - i = Len(w)
    BY <1>8, <2>1
  <2>3. PICK f : f = SubSeq(s, i + 1, j)
    OBVIOUS
  <2>4. f \in Seq(S) /\ Len(f) = Len(w) /\ \A k \in 1 .. Len(w) : f[k] = s[i + k]
    BY <1>4, <2>2, <2>3, PartTokens
  <2>5. f = w
    BY <1>8, <2>4, SeqEqual
  <2> QED
    BY <2>1, <2>3, <2>5
<1>9. SubSeq(s, 1, x) = p
  <2>1. 0 + 1 = 1 /\ 0 + x = x /\ x <= Len(s) /\ \A k \in 1 .. x : 0 + k = k
    BY <1>2, <1>4
  <2>2. \A k \in 1 .. x : s[0 + k] = p[k]
    BY <1>5, <2>1
  <2>3. SubSeq(s, 0 + 1, 0 + x) = p
    BY <1>1, <1>8, <2>1, <2>2
  <2> QED
    BY <2>1, <2>3
<1>10. SubSeq(s, x + 1, x + y) = q
  <2>1. x + y <= Len(s)
    BY <1>2, <1>4
  <2> QED
    BY <1>1, <1>2, <1>6, <1>8, <2>1
<1>11. SubSeq(s, (x + y) + 1, Len(s)) = v
  <2>1. x + y \in Nat /\ (x + y) + z <= Len(s) /\ (x + y) + z = Len(s)
    BY <1>2, <1>4
  <2>2. SubSeq(s, (x + y) + 1, (x + y) + z) = v
    BY <1>1, <1>7, <1>8, <2>1
  <2> QED
    BY <2>1, <2>2
<1> QED
  BY <1>1, <1>4, <1>5, <1>6, <1>7, <1>9, <1>10, <1>11

\* A relation is parsed from what is printed of it.
LEMMA PrintedIsRead ==
  ASSUME NEW S, NEW t \in Seq(S), NEW r, r = NewRelation(t), r # NoRelation,
         r.version = << >> \/ (r.sense # {} /\ r.version[1] \notin Ops)
  PROVE  NewRelation(RelationString(r)) = r
<1>1. CASE IsRich(t)
  <2>1. r = Relation(t, {}, << >>)
    BY <1>1, NewRelationIs
  <2>2. r.name = t /\ r.sense = {} /\ r.version = << >>
    BY <2>1 DEF Relation
  <2>3. SenseString({}) = << >>
    BY SensesAre, SensePrintsBack
  <2>4. RelationString(r) = t
    <3>1. RelationString(r) = t \o << >> \o << >>
      BY <2>2, <2>3 DEF RelationString
    <3>2. t \o << >> = t
      OBVIOUS
    <3> QED
      BY <3>1, <3>2
  <2> QED
    BY <2>4
<1>2. CASE ~IsRich(t)
  <2>1. PICK n : n = Len(t) /\ n \in Nat
    OBVIOUS
  <2>2. PICK a, b, c, d : Parts(t, a, b, c, d)
    BY PartsExist
  <2>3. a \in 0 .. n /\ b \in a .. n /\ c \in b .. n /\ d \in c .. n
        /\ a \in Nat /\ b \in Nat /\ c \in Nat /\ d \in Nat
    BY <2>1, <2>2 DEF Parts
  <2>4. PICK p, q, v : p = SubSeq(t, 1, a) /\ q = SubSeq(t, b + 1, c) /\ v = SubSeq(t, d + 1, n)
    OBVIOUS
  <2>5. Match(t) = <<p, q, v>>
    BY <2>1, <2>2, <2>4, MatchIs
  <2>6. Match(t)[1] = p /\ Match(t)[2] = q /\ Match(t)[3] = v
    BY <2>5
  <2>7. q \in DOMAIN StringToSense /\ r = Relation(p, StringToSense[q], v)
    BY <1>2, <2>6, NewRelationIs
  <2>8. r.name = p /\ r.sense = StringToSense[q] /\ r.version = v
    BY <2>7 DEF Relation
  <2>9. PICK u, s : IsConcat(u, p, q) /\ IsConcat(s, u, v)
    BY DEF IsConcat
  <2>10. RelationString(r) = s
    BY <2>7, <2>8, <2>9, SensePrintsBack DEF RelationString, IsConcat
  <2>11. PICK x, y, z : x = Len(p) /\ y = Len(q) /\ z = Len(v)
    OBVIOUS
  <2>12. /\ p \in Seq(S) /\ x = a /\ \A k \in 1 .. a : p[k] = t[k]
         /\ x \in Nat
    <3>1. Len(p) = a - 0 /\ p \in Seq(S) /\ \A k \in 1 .. a - 0 : p[k] = t[0 + k]
      BY <2>1, <2>3, <2>4, PartTokens
    <3> QED
      BY <2>3, <2>11, <3>1
  <2>13. /\ q \in Seq(S) /\ y = c - b /\ y \in Nat /\ \A k \in 1 .. y : q[k] = t[b + k]
    BY <2>1, <2>3, <2>4, <2>11, PartTokens
  <2>14. /\ v \in Seq(S) /\ z = n - d /\ z \in Nat /\ \A k \in 1 .. z : v[k] = t[d + k]
    BY <2>1, <2>3, <2>4, <2>11, PartTokens
  <2>15. \A k \in 1 .. x : IsWord(p[k])
    BY <2>2, <2>12 DEF Parts
  <2>16. \A k \in 1 .. y : q[k] \in Ops
    <3>1. \A k \in 1 .. y : b + k \in b + 1 .. c
      BY <2>3, <2>13
    <3> QED
      BY <2>2, <2>13, <3>1 DEF Parts
  <2>17. z > 0 => /\ v[1] \notin Blanks /\ v[1] \notin Ops /\ y > 0
    <3>1. SUFFICES ASSUME z > 0 PROVE v[1] \notin Blanks /\ v[1] \notin Ops /\ y > 0
      OBVIOUS
    <3>2. v # << >> /\ v[1] = t[d + 1] /\ d # n
      <4>1. v # << >>
        BY <2>11, <3>1
      <4>2. d # n
        BY <2>1, <2>3, <2>14, <3>1
      <4>3. 1 \in 1 .. z
        BY <2>14, <3>1
      <4> QED
        BY <2>14, <4>1, <4>2, <4>3
    <3>3. v[1] \notin Blanks
      BY <2>1, <2>2, <3>2 DEF Parts
    <3>4. v[1] \notin Ops /\ StringToSense[q] # {}
      BY <2>8, <3>2
    <3>5. q # << >>
      BY <3>4, SensesAre
    <3>6. y > 0
      <4>1. y = 0 => q = << >>
        BY <2>11, <2>13, EmptySeq
      <4> QED
        BY <2>13, <3>5, <4>1
    <3> QED
      BY <3>3, <3>4, <3>6
  <2>18. x = Len(p) /\ y = Len(q) /\ z = Len(v) /\ p \in Seq(S) /\ q \in Seq(S) /\ v \in Seq(S)
    BY <2>11, <2>12, <2>13, <2>14
  <2>19. /\ s \in Seq(S) /\ Len(s) = x + y + z
         /\ \A k \in 1 .. x : s[k] = p[k]
         /\ \A k \in 1 .. y : s[x + k] = q[k]
         /\ \A k \in 1 .. z : s[x + y + k] = v[k]
    BY ONLY <2>9, <2>18, Concat3
  <2>20. y > 0 => s[x + 1] \in Ops
    BY <2>13, <2>16, <2>19
  <2>21. z > 0 => s[x + y + 1] \notin Blanks /\ s[x + y + 1] \notin Ops
    BY <2>14, <2>17, <2>19
  <2>22. Parts(s, x, x, x + y, x + y)
    <3>1. /\ x \in 0 .. Len(s) /\ x \in x .. Len(s) /\ x + y \in x .. Len(s)
          /\ x + y \in x + y .. Len(s)
      BY <2>12, <2>13, <2>14, <2>19
    <3>2. \A k \in 1 .. x : IsWord(s[k])
      BY <2>15, <2>19
    <3>3. \A k \in x + 1 .. x + y : s[k] \in Ops
      <4>1. \A k \in x + 1 .. x + y : k - x \in 1 .. y /\ x + (k - x) = k
        BY <2>12, <2>13
      <4> QED
        BY <2>16, <2>19, <4>1
    <3>4. x + 1 .. x = {} /\ (x + y) + 1 .. x + y = {}
      BY <2>12, <2>13
    <3>5. x = Len(s) \/ y > 0
      BY <2>12, <2>13, <2>14, <2>17, <2>19
    <3>6. x + y = Len(s) \/ z > 0
      BY <2>12, <2>13, <2>14, <2>19
    <3>7. \A o \in Ops : o \notin Blanks /\ ~IsWord(o)
      BY DEF Ops, Blanks, IsWord
    <3> QED
      BY <2>20, <2>21, <3>1, <3>2, <3>3, <3>4, <3>5, <3>6, <3>7 DEF Parts
  <2>23. Match(s) = <<SubSeq(s, 1, x), SubSeq(s, x + 1, x + y), SubSeq(s, (x + y) + 1, Len(s))>>
    BY <2>19, <2>22, MatchIs
  <2>24. Match(s)[1] = p /\ Match(s)[2] = q /\ Match(s)[3] = v
    <3>1. /\ SubSeq(s, 1, x) = p /\ SubSeq(s, x + 1, x + y) = q
          /\ SubSeq(s, (x + y) + 1, Len(s)) = v
      BY ONLY <2>9, <2>18, Concat3
    <3> QED
      BY <2>23, <3>1
  <2>25. CASE ~IsRich(s)
    BY <2>7, <2>10, <2>24, <2>25, NewRelationIs
  <2>26. CASE IsRich(s)
    <3>1. s # << >> /\ s[1] = "(" /\ s[Len(s)] = ")"
      BY <2>26 DEF IsRich
    <3>2. "(" \notin Ops /\ ")" \notin Ops
      BY DEF Ops
    <3>3. y = 0
      <4>1. SUFFICES ASSUME y > 0 PROVE FALSE
        BY <2>13
      <4>2. x > 0
        <5>1. ASSUME x = 0 PROVE FALSE
          <6>1. s[1] \in Ops
            BY <2>20, <4>1, <5>1
          <6> QED
            BY <3>1, <3>2, <6>1
        <5> QED
          BY <2>12, <5>1
      <4>3. t[1] = "("
        <5>1. 1 \in 1 .. x
          BY <2>12, <4>2
        <5> QED
          BY <2>12, <2>19, <3>1, <5>1
      <4>4. z > 0
        <5>1. ASSUME z = 0 PROVE FALSE
          <6>1. y \in 1 .. y /\ Len(s) = x + y
            BY <2>12, <2>13, <2>19, <4>1, <5>1
          <6>2. s[Len(s)] \in Ops
            BY <2>16, <2>19, <6>1
          <6> QED
            BY <3>1, <3>2, <6>2
        <5> QED
          BY <2>14, <5>1
      <4>5. t[n] = ")"
        <5>1. z \in 1 .. z /\ d + z = n
          BY <2>1, <2>3, <2>14, <4>4
        <5>2. s[Len(s)] = v[z] /\ v[z] = t[d + z]
          BY <2>14, <2>19, <5>1
        <5> QED
          BY <3>1, <5>1, <5>2
      <4>6. t # << >>
        BY <2>1, <2>3, <2>12, <4>2
      <4> QED
        BY <1>2, <2>1, <4>3, <4>5, <4>6 DEF IsRich
    <3>4. z = 0
      BY <2>14, <2>17, <3>3
    <3>5. q = << >> /\ v = << >> /\ s = p
      <4>1. q = << >> /\ v = << >>
        <5>1. y = 0 => q = << >>
          BY <2>18, EmptySeq
        <5>2. z = 0 => v = << >>
          BY <2>18, EmptySeq
        <5> QED
          BY <3>3, <3>4, <5>1, <5>2
      <4>2. Len(s) = Len(p) /\ \A k \in 1 .. Len(p) : s[k] = p[k]
        BY <2>11, <2>12, <2>19, <3>3, <3>4
      <4> QED
        BY <2>12, <2>19, <4>1, <4>2, SeqEqual
    <3>6. r = Relation(s, {}, << >>)
      BY <2>7, <3>5, SensesAre
    <3> QED
      BY <2>10, <2>26, <3>6, NewRelationIs
  <2> QED
    BY <2>25, <2>26
<1> QED
  BY <1>1, <1>2

\* What String prints of a relation, Set reads as the same (sense.go:56).
THEOREM PrintsCorrect == MetaSpec => []PrintsBack
<1>1. ParsedInv => PrintsBack
  <2> SUFFICES ASSUME ParsedInv, NEW r, r = last.relation, r # NoRelation,
                      r.version = << >> \/ (r.sense # {} /\ r.version[1] \notin Ops)
               PROVE  NewRelation(RelationString(r)) = r
    BY DEF PrintsBack
  <2>1. last.text \in Texts /\ r = NewRelation(last.text)
    <3>1. last # [text |-> << >>, relation |-> NoRelation]
      OBVIOUS
    <3> QED
      BY <3>1 DEF ParsedInv
  <2>2. last.text \in Seq(Range(last.text))
    BY <2>1, RelationsAssumption
  <2> QED
    BY <2>1, <2>2, PrintedIsRead
<1> QED
  BY <1>1, ParsedAlways, PTL
=============================================================================
