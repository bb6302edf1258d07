-------------------------- MODULE HeaderIndexProofs -------------------------
(***************************************************************************)
(* Proofs about HeaderIndex, for all tags and Go values: Bytes lays the     *)
(* entries out as it should, the offsets lead to their data, ReadHeader     *)
(* finds it there again, whole or cut, and the readers make the Go values   *)
(* of it that it was made of.                                               *)
(*                                                                          *)
(* First what the conversions do to bytes, then what is read of the store,  *)
(* then the steps of Bytes and ReadHeader.                                  *)
(***************************************************************************)
EXTENDS HeaderIndex, Lemmas

(* Numbers and their bytes.                                                 *)

\* Two bytes make a number from which they can be had back, taken signed or not.
LEMMA Split16 ==
  ASSUME NEW a \in 0 .. 255, NEW b \in 0 .. 255
  PROVE  LET u == 256 * a + b IN
         /\ u \in Int /\ (u \div 256) % 256 = a /\ u % 256 = b
         /\ ((u - 65536) \div 256) % 256 = a /\ (u - 65536) % 256 = b
<1> DEFINE u == 256 * a + b
<1>1. a \in Int /\ b \in Int /\ 0 <= a /\ a <= 255 /\ 0 <= b /\ b <= 255 /\ u \in Int
  OBVIOUS
<1>2. (u \div 256) % 256 = a /\ u % 256 = b
  BY <1>1
<1>3. ((u - 65536) \div 256) % 256 = a /\ (u - 65536) % 256 = b
  BY <1>1
<1> QED
  BY <1>1, <1>2, <1>3

\* A number of 16 bits is two bytes.
LEMMA Int16IsBytes ==
  ASSUME NEW v \in Int
  PROVE  /\ Int16Bytes(v) \in Seq(Byte) /\ Len(Int16Bytes(v)) = 2
         /\ Int16Bytes(v) = <<(v \div 256) % 256, v % 256>>
         /\ Int16Bytes(v)[1] \in Byte /\ Int16Bytes(v)[2] \in Byte
<1>1. (v \div 256) % 256 \in 0 .. 255 /\ v % 256 \in 0 .. 255
  OBVIOUS
<1> QED
  BY <1>1 DEF Int16Bytes, Byte

\* One of 32 bits is those of its halves.
LEMMA Int32IsBytes ==
  ASSUME NEW v \in Int
  PROVE  /\ Int32Bytes(v) \in Seq(Byte) /\ Len(Int32Bytes(v)) = 4
         /\ \A k \in 1 .. 4 : Int32Bytes(v)[k] \in Byte
<1>1. v \div 65536 \in Int
  OBVIOUS
<1>2. PICK a, b : a = Int16Bytes(v \div 65536) /\ b = Int16Bytes(v)
  OBVIOUS
<1>3. a \in Seq(Byte) /\ Len(a) = 2 /\ b \in Seq(Byte) /\ Len(b) = 2
  BY <1>1, <1>2, Int16IsBytes
<1>4. PICK c : IsConcat(c, a, b)
  BY DEF IsConcat
<1>5. c \in Seq(Byte) /\ Len(c) = Len(a) + Len(b)
  <2>1. a \in Seq(Byte) /\ b \in Seq(Byte)
    BY <1>3
  <2> QED
    BY ONLY <1>4, <2>1, ConcatIs
<1>6. Int32Bytes(v) = c
  BY <1>2, <1>4 DEF Int32Bytes, IsConcat
<1>7. \A k \in 1 .. Len(c) : c[k] \in Byte
  BY <1>5, ElementOfSeq
<1> QED
  BY <1>3, <1>5, <1>6, <1>7

\* The number that bytes are read as is written as them: 16 bits ...
LEMMA Int16Back ==
  ASSUME NEW data, NEW k, data[k] \in Byte, data[k + 1] \in Byte
  PROVE  /\ Int16At(data, k) \in Int
         /\ Int16Bytes(Int16At(data, k)) = <<data[k], data[k + 1]>>
<1>1. PICK a \in 0 .. 255, b \in 0 .. 255 : a = data[k] /\ b = data[k + 1]
  BY DEF Byte
<1>2. PICK u : u = 256 * a + b
  OBVIOUS
<1>3. /\ u \in Int /\ (u \div 256) % 256 = a /\ u % 256 = b
      /\ ((u - 65536) \div 256) % 256 = a /\ (u - 65536) % 256 = b
  BY <1>2, Split16
<1>4. Int16At(data, k) = IF u < 32768 THEN u ELSE u - 65536
  BY <1>1, <1>2 DEF Int16At
<1> QED
  BY <1>1, <1>3, <1>4 DEF Int16Bytes

\* ... and 32.
LEMMA Int32Back ==
  ASSUME NEW data, NEW k \in Int, \A i \in k .. k + 3 : data[i] \in Byte
  PROVE  /\ Int32At(data, k) \in Int
         /\ Int32Bytes(Int32At(data, k))[1] = data[k]
         /\ Int32Bytes(Int32At(data, k))[2] = data[k + 1]
         /\ Int32Bytes(Int32At(data, k))[3] = data[k + 2]
         /\ Int32Bytes(Int32At(data, k))[4] = data[k + 3]
<1>1. /\ data[k] \in Byte /\ data[k + 1] \in Byte /\ data[k + 2] \in Byte /\ data[k + 3] \in Byte
  OBVIOUS
<1>2. PICK s \in Int, c \in 0 .. 255, d \in 0 .. 255 :
        s = Int16At(data, k) /\ c = data[k + 2] /\ d = data[k + 3]
  BY <1>1, Int16Back DEF Byte
<1>0. PICK x : x = 65536 * s + 256 * c + d
  OBVIOUS
<1>3. /\ x \in Int /\ 0 <= c /\ c <= 255 /\ 0 <= d /\ d <= 255
  BY <1>0
<1>4. x \div 65536 = s
  BY <1>0, <1>3
<1>5. (x \div 256) % 256 = c
  <2>1. x \div 256 = 256 * s + c
    BY <1>0, <1>3
  <2>2. (256 * s + c) % 256 = c
    BY <1>0, <1>3
  <2> QED
    BY <2>1, <2>2
<1>6. x % 256 = d
  BY <1>0, <1>3
<1>7. Int32At(data, k) = x
  BY <1>0, <1>2 DEF Int32At
<1>8. Int16Bytes(x \div 65536) = <<data[k], data[k + 1]>>
  BY <1>1, <1>2, <1>4, Int16Back
<1>9. Int16Bytes(x) = <<data[k + 2], data[k + 3]>>
  BY <1>2, <1>5, <1>6 DEF Int16Bytes
<1>10. PICK a, b : a = <<data[k], data[k + 1]>> /\ b = <<data[k + 2], data[k + 3]>>
  OBVIOUS
<1>11. /\ a \in Seq(Byte) /\ Len(a) = 2 /\ a[1] = data[k] /\ a[2] = data[k + 1]
       /\ b \in Seq(Byte) /\ Len(b) = 2 /\ b[1] = data[k + 2] /\ b[2] = data[k + 3]
  BY <1>1, <1>10
<1>12. PICK e : e = Int32Bytes(x)
  OBVIOUS
<1>13. a = Int16Bytes(x \div 65536) /\ b = Int16Bytes(x)
  BY <1>8, <1>9, <1>10
<1>14. IsConcat(e, a, b)
  BY ONLY <1>12, <1>13 DEF Int32Bytes, IsConcat
<1>15. /\ e \in Seq(Byte) /\ Len(e) = Len(a) + Len(b)
       /\ \A i \in 1 .. Len(e) : e[i] = IF i <= Len(a) THEN a[i] ELSE b[i - Len(a)]
  <2>1. a \in Seq(Byte) /\ b \in Seq(Byte)
    BY <1>11
  <2> QED
    BY ONLY <1>14, <2>1, ConcatIs
<1>16. e[1] = a[1] /\ e[2] = a[2] /\ e[3] = b[1] /\ e[4] = b[2]
  BY ONLY <1>11, <1>15
<1> QED
  BY <1>0, <1>3, <1>7, <1>11, <1>12, <1>16

-----------------------------------------------------------------------------
(* The concatenation of sequences, and where each of them stands in it.     *)

\* The two parts of a concatenation of bytes.
LEMMA ConcatParts ==
  ASSUME NEW a \in Seq(Byte), NEW b \in Seq(Byte), NEW c, IsConcat(c, a, b)
  PROVE  /\ c \in Seq(Byte) /\ Len(c) = Len(a) + Len(b) /\ Len(a) \in Nat /\ Len(b) \in Nat
         /\ \A k \in 1 .. Len(a) : c[k] = a[k]
         /\ \A k \in 1 .. Len(b) : c[Len(a) + k] = b[k]
<1>1. PICK x, y : x = Len(a) /\ y = Len(b)
  OBVIOUS
<1>2. x \in Nat /\ y \in Nat
  BY <1>1
<1>3. /\ c \in Seq(Byte) /\ Len(c) = x + y
      /\ \A k \in 1 .. x + y : c[k] = IF k <= x THEN a[k] ELSE b[k - x]
  BY <1>1, ConcatIs
<1>4. \A k \in 1 .. x : c[k] = a[k]
  BY <1>2, <1>3
<1>5. ASSUME NEW k \in 1 .. y PROVE c[x + k] = b[k]
  <2>1. x + k \in 1 .. x + y /\ ~(x + k <= x) /\ (x + k) - x = k
    BY <1>2
  <2> QED
    BY <1>3, <2>1
<1> QED
  BY <1>1, <1>2, <1>3, <1>4, <1>5

\* The parts of Joined, from none to all ...
IsUpTo(f, s) == f = [i \in 0 .. Len(s) |-> IF i = 0 THEN << >> ELSE f[i - 1] \o s[i]]

\* ... which grow by an element at a time ...
LEMMA UpToIs ==
  ASSUME NEW s \in Seq(Seq(Byte)), NEW f, IsUpTo(f, s)
  PROVE  f[0] = << >> /\ \A i \in 1 .. Len(s) : IsConcat(f[i], f[i - 1], s[i])
<1>1. PICK n \in Nat : n = Len(s)
  OBVIOUS
<1>2. f = [i \in 0 .. n |-> IF i = 0 THEN << >> ELSE f[i - 1] \o s[i]]
  BY <1>1 DEF IsUpTo
<1>3. \A i \in 0 .. n : f[i] = IF i = 0 THEN << >> ELSE f[i - 1] \o s[i]
  BY ONLY <1>2
<1>4. f[0] = << >>
  <2>0. 0 \in 0 .. n
    OBVIOUS
  <2>1. f[0] = IF 0 = 0 THEN << >> ELSE f[0 - 1] \o s[0]
    BY <1>3, <2>0, Zenon
  <2> QED
    BY <2>1, Zenon
<1>5. ASSUME NEW i \in 1 .. n PROVE IsConcat(f[i], f[i - 1], s[i])
  <2>1. i \in 0 .. n /\ i # 0
    OBVIOUS
  <2>2. f[i] = f[i - 1] \o s[i]
    BY <1>3, <2>1
  <2> QED
    BY ONLY <2>2 DEF IsConcat
<1> QED
  BY <1>1, <1>4, <1>5

\* ... exist ...
LEMMA JoinedUpTo ==
  ASSUME NEW s \in Seq(Seq(Byte))
  PROVE  \E f : IsUpTo(f, s) /\ Joined(s) = f[Len(s)]
<1> DEFINE V == Seq(Byte)
<1>1. PICK n \in Nat : n = Len(s)
  OBVIOUS
<1>2. << >> \in V /\ \A i \in 1 .. n : s[i] \in V
  BY <1>1, ElementOfSeq
<1> DEFINE step == [p \in (1 .. n) \X V |-> p[2] \o s[p[1]]]
<1>3. step \in [(1 .. n) \X V -> V]
  BY <1>2
<1>4. PICK g : IsRecursion(g, << >>, step, n) /\ g \in [0 .. n -> V]
  BY <1>2, <1>3, Recursion
<1> HIDE DEF V
<1>5. ASSUME NEW i \in 0 .. n PROVE g[i] = IF i = 0 THEN << >> ELSE g[i - 1] \o s[i]
  <2>1. g[i] = IF i = 0 THEN << >> ELSE step[<<i, g[i - 1]>>]
    BY <1>4 DEF IsRecursion
  <2>2. i # 0 => i \in 1 .. n /\ i - 1 \in 0 .. n
    BY <1>1
  <2>3. i # 0 => g[i - 1] \in V
    BY <1>4, <2>2
  <2>4. \A x \in 1 .. n, y \in V : step[<<x, y>>] = y \o s[x]
    OBVIOUS
  <2> HIDE DEF step
  <2> QED
    BY <2>1, <2>2, <2>3, <2>4
<1>6. g = [i \in 0 .. n |-> g[i]]
  BY <1>4
<1>7. IsUpTo(g, s)
  BY <1>1, <1>5, <1>6 DEF IsUpTo
<1>8. Joined(s) = (CHOOSE f : IsUpTo(f, s))[Len(s)]
  BY DEF Joined, IsUpTo
<1> QED
  BY <1>7, <1>8

\* ... and each begin with the ones before.
LEMMA UpToGrows ==
  ASSUME NEW s \in Seq(Seq(Byte)), NEW f, IsUpTo(f, s), NEW n \in 0 .. Len(s)
  PROVE  \A i \in 0 .. n : /\ f[i] \in Seq(Byte) /\ Len(f[i]) <= Len(f[n])
                           /\ \A k \in 1 .. Len(f[i]) : f[n][k] = f[i][k]
<1> DEFINE Within(a, b) == /\ a \in Seq(Byte) /\ Len(a) <= Len(b)
                           /\ \A k \in 1 .. Len(a) : b[k] = a[k]
           S == {m \in Nat : m <= Len(s) => \A i \in 0 .. m : Within(f[i], f[m])}
<1>1. 0 \in S
  <2>1. f[0] = << >>
    BY UpToIs
  <2>2. \A i \in 0 .. 0 : i = 0
    OBVIOUS
  <2>3. Within(<< >>, << >>)
    OBVIOUS
  <2> HIDE DEF Within
  <2> QED
    BY <2>1, <2>2, <2>3
<1>2. ASSUME NEW m \in Nat, m \in S PROVE m + 1 \in S
  <2>1. SUFFICES ASSUME m + 1 <= Len(s) PROVE \A i \in 0 .. m + 1 : Within(f[i], f[m + 1])
    OBVIOUS
  <2>2. \A i \in 0 .. m : Within(f[i], f[m])
    BY <1>2, <2>1
  <2>3. PICK a, b, c : a = f[m] /\ b = s[m + 1] /\ c = f[m + 1]
    OBVIOUS
  <2>4. m + 1 \in 1 .. Len(s) /\ (m + 1) - 1 = m
    BY <2>1
  <2>5. IsConcat(c, a, b)
    BY <2>3, <2>4, UpToIs
  <2>6. b \in Seq(Byte)
    BY <2>3, <2>4, ElementOfSeq
  <2>7. a \in Seq(Byte)
    BY <2>2, <2>3
  <2>8. /\ c \in Seq(Byte) /\ Len(c) = Len(a) + Len(b) /\ Len(a) \in Nat /\ Len(b) \in Nat
        /\ \A k \in 1 .. Len(a) : c[k] = a[k]
    BY ONLY <2>5, <2>6, <2>7, ConcatParts
  <2>9. Within(c, c)
    BY <2>8
  <2>10. ASSUME NEW x, Within(x, a) PROVE Within(x, c)
    <3>1. x \in Seq(Byte) /\ Len(x) \in Nat /\ Len(x) <= Len(a)
      BY <2>10
    <3>2. ASSUME NEW k \in 1 .. Len(x) PROVE c[k] = x[k]
      <4>1. k \in 1 .. Len(a)
        BY <2>8, <3>1
      <4> QED
        BY <2>8, <2>10, <4>1
    <3> QED
      BY <2>8, <3>1, <3>2
  <2> HIDE DEF Within
  <2>11. \A i \in 0 .. m + 1 : i \in 0 .. m \/ i = m + 1
    OBVIOUS
  <2> QED
    BY <2>2, <2>3, <2>9, <2>10, <2>11
<1>3. n \in Nat /\ n <= Len(s)
  OBVIOUS
<1> HIDE DEF S
<1>4. n \in S
  BY <1>1, <1>2, <1>3, Induction
<1> QED
  BY <1>3, <1>4 DEF S

\* Sequences stand in data one after the other, the i-th behind position q[i - 1].
Placed(q, s, data) ==
  /\ q \in [0 .. Len(s) -> Nat] /\ q[0] = 0
  /\ \A i \in 1 .. Len(s) : q[i] = q[i - 1] + Len(s[i])
  /\ \A i \in 0 .. Len(s) : q[i] <= Len(data)
  /\ data \in Seq(Byte) /\ Len(data) = q[Len(s)]
  /\ \A i \in 1 .. Len(s) : \A k \in 1 .. Len(s[i]) : data[q[i - 1] + k] = s[i][k]

\* So they do in their concatenation.
LEMMA JoinedIs ==
  ASSUME NEW s \in Seq(Seq(Byte))
  PROVE  \E q : Placed(q, s, Joined(s))
<1>1. PICK f : IsUpTo(f, s) /\ Joined(s) = f[Len(s)]
  BY JoinedUpTo
<1>2. Len(s) \in Nat
  OBVIOUS
<1>3. PICK data : data = f[Len(s)]
  OBVIOUS
<1>4. \A i \in 0 .. Len(s) : /\ f[i] \in Seq(Byte) /\ Len(f[i]) <= Len(data)
                             /\ \A k \in 1 .. Len(f[i]) : data[k] = f[i][k]
  BY <1>1, <1>2, <1>3, UpToGrows
<1>5. PICK q : q = [i \in 0 .. Len(s) |-> Len(f[i])]
  OBVIOUS
<1>6. \A i \in 0 .. Len(s) : q[i] = Len(f[i]) /\ q[i] \in Nat /\ q[i] <= Len(data)
  BY <1>4, <1>5
<1>7. q \in [0 .. Len(s) -> Nat]
  BY <1>5, <1>6
<1>8. q[0] = 0
  BY <1>1, <1>2, <1>6, UpToIs
<1>9. ASSUME NEW i \in 1 .. Len(s)
      PROVE  /\ q[i] = q[i - 1] + Len(s[i])
             /\ \A k \in 1 .. Len(s[i]) : data[q[i - 1] + k] = s[i][k]
  <2>1. PICK a, b, c : a = f[i - 1] /\ b = s[i] /\ c = f[i]
    OBVIOUS
  <2>2. IsConcat(c, a, b)
    BY <1>1, <2>1, UpToIs
  <2>3. i - 1 \in 0 .. Len(s) /\ i \in 0 .. Len(s)
    BY <1>2
  <2>4. a \in Seq(Byte) /\ b \in Seq(Byte)
    BY <1>4, <2>1, <2>3, ElementOfSeq
  <2>5. /\ c \in Seq(Byte) /\ Len(c) = Len(a) + Len(b) /\ Len(a) \in Nat /\ Len(b) \in Nat
        /\ \A k \in 1 .. Len(b) : c[Len(a) + k] = b[k]
    BY ONLY <2>2, <2>4, ConcatParts
  <2>6. q[i - 1] = Len(a) /\ q[i] = Len(c)
    BY <1>6, <2>1, <2>3
  <2>7. \A k \in 1 .. Len(c) : data[k] = c[k]
    BY <1>4, <2>1, <2>3
  <2>8. ASSUME NEW k \in 1 .. Len(b) PROVE data[Len(a) + k] = b[k]
    <3>1. Len(a) + k \in 1 .. Len(c)
      BY <2>5
    <3> QED
      BY <2>5, <2>7, <3>1
  <2> QED
    BY <2>1, <2>5, <2>6, <2>8
<1>10. data \in Seq(Byte) /\ Len(data) = q[Len(s)]
  BY <1>2, <1>3, <1>4, <1>6
<1>11. Placed(q, s, data)
  BY <1>6, <1>7, <1>8, <1>9, <1>10 DEF Placed
<1> QED
  BY <1>1, <1>3, <1>11

-----------------------------------------------------------------------------
(* Strings, which end at a NUL.                                             *)

\* Where the string behind a position ends: at the first NUL, or, when there is
\* none, where the position is.
LEMMA StringEndIs ==
  ASSUME NEW body, Len(body) \in Nat, NEW p \in Nat
  PROVE  /\ \A e \in p + 1 .. Len(body) :
              body[e] = 0 /\ (\A k \in p + 1 .. e - 1 : body[k] # 0) =>
                StringEnd(body, p) = e /\ Stop(body, p) = e
         /\ (\A k \in p + 1 .. Len(body) : body[k] # 0) =>
              StringEnd(body, p) = p /\ Stop(body, p) = Len(body) + 1
<1> DEFINE nuls == {k \in p + 1 .. Len(body) : body[k] = 0}
<1>1. ASSUME NEW e \in p + 1 .. Len(body), body[e] = 0, \A k \in p + 1 .. e - 1 : body[k] # 0
      PROVE  StringEnd(body, p) = e /\ Stop(body, p) = e
  <2>1. e \in nuls /\ \A k \in nuls : e <= k /\ k \in Int
    BY <1>1
  <2>2. Least(nuls) = e
    BY <2>1 DEF Least
  <2> QED
    BY <2>1, <2>2 DEF StringEnd, Stop
<1>2. ASSUME \A k \in p + 1 .. Len(body) : body[k] # 0
      PROVE  StringEnd(body, p) = p /\ Stop(body, p) = Len(body) + 1
  <2>1. nuls = {}
    BY <1>2
  <2> QED
    BY <2>1 DEF StringEnd, Stop
<1> QED
  BY <1>1, <1>2

\* The strings of an array, each with its NUL.
Nulled(vs) == [i \in DOMAIN vs |-> vs[i] \o <<0>>]

\* What those are.
LEMMA NulledIs ==
  ASSUME NEW vs \in Seq(Seq(Byte))
  PROVE  /\ Nulled(vs) \in Seq(Seq(Byte)) /\ Len(Nulled(vs)) = Len(vs)
         /\ \A i \in 1 .. Len(vs) : /\ vs[i] \in Seq(Byte) /\ Len(vs[i]) \in Nat
                                    /\ Len(Nulled(vs)[i]) = Len(vs[i]) + 1
                                    /\ Nulled(vs)[i][Len(vs[i]) + 1] = 0
                                    /\ \A k \in 1 .. Len(vs[i]) : Nulled(vs)[i][k] = vs[i][k]
<1>1. DOMAIN vs = 1 .. Len(vs) /\ Len(vs) \in Nat
  OBVIOUS
<1>2. PICK s : s = Nulled(vs)
  OBVIOUS
<1>3. PICK nul : nul = <<0>>
  OBVIOUS
<1>4. nul \in Seq(Byte) /\ Len(nul) = 1 /\ nul[1] = 0
  BY <1>3 DEF Byte
<1>5. ASSUME NEW i \in 1 .. Len(vs)
      PROVE  /\ vs[i] \in Seq(Byte) /\ s[i] \in Seq(Byte) /\ Len(s[i]) = Len(vs[i]) + 1
             /\ Len(vs[i]) \in Nat /\ s[i][Len(vs[i]) + 1] = 0
             /\ \A k \in 1 .. Len(vs[i]) : s[i][k] = vs[i][k]
  <2>1. PICK a, c : a = vs[i] /\ c = s[i]
    OBVIOUS
  <2>2. a \in Seq(Byte)
    BY <2>1, ElementOfSeq
  <2>3. IsConcat(c, a, nul)
    BY <1>1, <1>2, <1>3, <2>1 DEF Nulled, IsConcat
  <2>4. /\ c \in Seq(Byte) /\ Len(c) = Len(a) + Len(nul) /\ Len(a) \in Nat
        /\ \A k \in 1 .. Len(a) : c[k] = a[k]
        /\ \A k \in 1 .. Len(nul) : c[Len(a) + k] = nul[k]
    <3>1. nul \in Seq(Byte)
      BY <1>4
    <3> QED
      BY ONLY <2>2, <2>3, <3>1, ConcatParts
  <2>5. c[Len(a) + 1] = 0
    BY <1>4, <2>4
  <2> QED
    BY <1>4, <2>1, <2>2, <2>4, <2>5
<1>6. s = [i \in 1 .. Len(vs) |-> s[i]]
  BY <1>1, <1>2 DEF Nulled
<1>7. s \in Seq(Seq(Byte)) /\ Len(s) = Len(vs)
  BY <1>1, <1>5, <1>6
<1> QED
  BY <1>2, <1>5, <1>7

-----------------------------------------------------------------------------
(* The entries that are made of Go values, and the Go values of entries.    *)

\* Sequences of one length stand at its multiples.
LEMMA PlacedEvenly ==
  ASSUME NEW s \in Seq(Seq(Byte)), NEW q, NEW data, Placed(q, s, data),
         NEW w \in {2, 4}, \A i \in 1 .. Len(s) : Len(s[i]) = w
  PROVE  \A i \in 0 .. Len(s) : q[i] = w * i
<1> DEFINE S == {i \in Nat : i <= Len(s) => q[i] = w * i}
<1>0. Len(s) \in Nat /\ w \in Nat
  OBVIOUS
<1>1. 0 \in S
  BY <1>0 DEF Placed
<1>2. ASSUME NEW i \in Nat, i \in S PROVE i + 1 \in S
  <2>1. SUFFICES ASSUME i + 1 <= Len(s) PROVE q[i + 1] = w * (i + 1)
    OBVIOUS
  <2>2. i + 1 \in 1 .. Len(s) /\ (i + 1) - 1 = i
    BY <1>0, <2>1
  <2>3. q[i + 1] = q[i] + w
    <3>1. q[i + 1] = q[(i + 1) - 1] + Len(s[i + 1])
      BY <2>2 DEF Placed
    <3> QED
      BY <2>2, <3>1
  <2>4. q[i] = w * i
    BY <1>0, <1>2, <2>1
  <2>5. w * (i + 1) = w * i + w
    <3>1. CASE w = 2
      BY <3>1
    <3>2. CASE w = 4
      BY <3>2
    <3> QED
      BY <3>1, <3>2
  <2> QED
    BY <2>3, <2>4, <2>5
<1> HIDE DEF S
<1>3. \A i \in Nat : i \in S
  BY <1>1, <1>2, Induction
<1> QED
  BY <1>0, <1>3 DEF S

\* Numbers of 16 bits: the entry, and the numbers its data is read as.
LEMMA Int16Entry ==
  ASSUME NEW vs \in Seq(Int), NEW e, e = EntryInt16(vs)
  PROVE  /\ e.rpmtype = "int16" /\ e.count = Len(vs)
         /\ e.data \in Seq(Byte) /\ Len(e.data) = 2 * e.count
         /\ EntryInt16(ToInt16Array(e)) = e
<1>1. PICK n \in Nat : n = Len(vs) /\ DOMAIN vs = 1 .. n
  OBVIOUS
<1>2. PICK s : s = [i \in 1 .. n |-> Int16Bytes(vs[i])]
  OBVIOUS
<1>17. \A i \in 1 .. n : s[i] = Int16Bytes(vs[i]) /\ vs[i] \in Int
  BY <1>1, <1>2, ElementOfSeq
<1>3. \A i \in 1 .. n : /\ s[i] = Int16Bytes(vs[i]) /\ vs[i] \in Int
                        /\ s[i] \in Seq(Byte) /\ Len(s[i]) = 2
                        /\ s[i] = <<(vs[i] \div 256) % 256, vs[i] % 256>>
                        /\ s[i][1] \in Byte /\ s[i][2] \in Byte
  <2> SUFFICES ASSUME NEW i \in 1 .. n
               PROVE  /\ s[i] = Int16Bytes(vs[i]) /\ vs[i] \in Int
                      /\ s[i] \in Seq(Byte) /\ Len(s[i]) = 2
                      /\ s[i] = <<(vs[i] \div 256) % 256, vs[i] % 256>>
                      /\ s[i][1] \in Byte /\ s[i][2] \in Byte
    OBVIOUS
  <2>1. PICK v \in Int : v = vs[i]
    BY <1>17
  <2>2. /\ Int16Bytes(v) \in Seq(Byte) /\ Len(Int16Bytes(v)) = 2
        /\ Int16Bytes(v) = <<(v \div 256) % 256, v % 256>>
        /\ Int16Bytes(v)[1] \in Byte /\ Int16Bytes(v)[2] \in Byte
    BY Int16IsBytes
  <2>3. s[i] = Int16Bytes(v)
    BY <1>17, <2>1
  <2> QED
    BY ONLY <2>1, <2>2, <2>3
<1>4. s \in Seq(Seq(Byte)) /\ Len(s) = n
  BY <1>1, <1>2, <1>3
<1>5. e = Entry("int16", n, Joined(s))
  BY <1>1, <1>2 DEF EntryInt16
<1>6. PICK data : data = Joined(s)
  OBVIOUS
<1>7. PICK q : Placed(q, s, data)
  BY <1>4, <1>6, JoinedIs
<1>8. \A i \in 0 .. n : q[i] = 2 * i
  <2>1. \A i \in 1 .. n : Len(s[i]) = 2
    BY <1>3
  <2> QED
    BY ONLY <1>4, <1>7, <2>1, PlacedEvenly
<1>9. e.rpmtype = "int16" /\ e.count = n /\ e.data = data
  BY <1>5, <1>6 DEF Entry
<1>10. data \in Seq(Byte) /\ Len(data) = 2 * n
  BY <1>4, <1>7, <1>8 DEF Placed
<1>11. ASSUME NEW i \in 1 .. n
       PROVE  Int16At(data, 2 * i - 1) \in Int /\ Int16Bytes(Int16At(data, 2 * i - 1)) = s[i]
  <2>1. q[i - 1] = 2 * i - 2
    BY <1>8
  <2>2. \A k \in 1 .. Len(s[i]) : data[q[i - 1] + k] = s[i][k]
    BY <1>4, <1>7 DEF Placed
  <2>3. data[2 * i - 1] = s[i][1] /\ data[(2 * i - 1) + 1] = s[i][2]
    <3>1. data[q[i - 1] + 1] = s[i][1] /\ data[q[i - 1] + 2] = s[i][2]
      BY <1>3, <2>2
    <3> QED
      BY <2>1, <3>1
  <2>4. s[i] = <<s[i][1], s[i][2]>> /\ s[i][1] \in Byte /\ s[i][2] \in Byte
    BY <1>3
  <2>5. Int16Bytes(Int16At(data, 2 * i - 1)) = <<data[2 * i - 1], data[(2 * i - 1) + 1]>>
        /\ Int16At(data, 2 * i - 1) \in Int
    BY <2>3, <2>4, Int16Back
  <2> QED
    BY <2>3, <2>4, <2>5
<1>12. PICK ws : ws = ToInt16Array(e)
  OBVIOUS
<1>13. ws = [i \in 1 .. n |-> Int16At(data, 2 * i - 1)]
  BY <1>9, <1>12 DEF ToInt16Array
<1>14. Len(ws) = n /\ DOMAIN ws = 1 .. n
  BY <1>11, <1>13
<1>15. [i \in DOMAIN ws |-> Int16Bytes(ws[i])] = s
  BY <1>2, <1>11, <1>13, <1>14
<1>16. EntryInt16(ws) = Entry("int16", n, Joined(s))
  BY <1>14, <1>15 DEF EntryInt16
<1> QED
  BY <1>1, <1>5, <1>9, <1>10, <1>12, <1>16

\* Numbers of 32 bits likewise.
LEMMA Int32Entry ==
  ASSUME NEW vs \in Seq(Int), NEW e, e = EntryInt32(vs)
  PROVE  /\ e.rpmtype = "int32" /\ e.count = Len(vs)
         /\ e.data \in Seq(Byte) /\ Len(e.data) = 4 * e.count
         /\ EntryInt32(ToInt32Array(e)) = e
<1>1. PICK n \in Nat : n = Len(vs) /\ DOMAIN vs = 1 .. n
  OBVIOUS
<1>2. PICK s : s = [i \in 1 .. n |-> Int32Bytes(vs[i])]
  OBVIOUS
<1>3. \A i \in 1 .. n : /\ s[i] = Int32Bytes(vs[i]) /\ vs[i] \in Int
                        /\ s[i] \in Seq(Byte) /\ Len(s[i]) = 4
                        /\ \A k \in 1 .. 4 : s[i][k] \in Byte
  BY <1>1, <1>2, ElementOfSeq, Int32IsBytes
<1>4. s \in Seq(Seq(Byte)) /\ Len(s) = n
  BY <1>1, <1>2, <1>3
<1>5. e = Entry("int32", n, Joined(s))
  BY <1>1, <1>2 DEF EntryInt32
<1>6. PICK data : data = Joined(s)
  OBVIOUS
<1>7. PICK q : Placed(q, s, data)
  BY <1>4, <1>6, JoinedIs
<1>8. \A i \in 0 .. n : q[i] = 4 * i
  BY <1>3, <1>4, <1>7, PlacedEvenly
<1>9. e.rpmtype = "int32" /\ e.count = n /\ e.data = data
  BY <1>5, <1>6 DEF Entry
<1>10. data \in Seq(Byte) /\ Len(data) = 4 * n
  BY <1>4, <1>7, <1>8 DEF Placed
<1>11. ASSUME NEW i \in 1 .. n
       PROVE  Int32At(data, 4 * i - 3) \in Int /\ Int32Bytes(Int32At(data, 4 * i - 3)) = s[i]
  <2>1. PICK p \in Int : p = 4 * i - 3
    BY <1>1
  <2>2. q[i - 1] + 1 = p
    BY <1>8, <2>1
  <2>3. \A k \in 1 .. 4 : data[q[i - 1] + k] = s[i][k] /\ s[i][k] \in Byte
    BY <1>3, <1>4, <1>7 DEF Placed
  <2>4. \A k \in 1 .. 4 : data[p + k - 1] = s[i][k] /\ s[i][k] \in Byte
    <3>1. \A k \in 1 .. 4 : p + k - 1 = q[i - 1] + k
      BY <1>8, <2>1
    <3> QED
      BY <2>3, <3>1
  <2>5. \A j \in p .. p + 3 : data[j] \in Byte
    <3> SUFFICES ASSUME NEW j \in p .. p + 3 PROVE data[j] \in Byte
      OBVIOUS
    <3>1. j - p + 1 \in 1 .. 4 /\ p + (j - p + 1) - 1 = j
      BY <2>1
    <3> QED
      BY <2>4, <3>1
  <2>6. PICK b : b = Int32Bytes(Int32At(data, p))
    OBVIOUS
  <2>7. /\ Int32At(data, p) \in Int /\ b[1] = data[p] /\ b[2] = data[p + 1]
        /\ b[3] = data[p + 2] /\ b[4] = data[p + 3]
    BY <2>5, <2>6, Int32Back
  <2>8. b \in Seq(Byte) /\ Len(b) = 4
    BY <2>6, <2>7, Int32IsBytes
  <2>9. s[i][1] = data[p] /\ s[i][2] = data[p + 1] /\ s[i][3] = data[p + 2] /\ s[i][4] = data[p + 3]
    <3>1. /\ data[p + 1 - 1] = s[i][1] /\ data[p + 2 - 1] = s[i][2]
          /\ data[p + 3 - 1] = s[i][3] /\ data[p + 4 - 1] = s[i][4]
      BY <2>4
    <3>2. p + 1 - 1 = p /\ p + 2 - 1 = p + 1 /\ p + 3 - 1 = p + 2 /\ p + 4 - 1 = p + 3
      OBVIOUS
    <3> QED
      BY <3>1, <3>2
  <2>10. \A k \in 1 .. 4 : k = 1 \/ k = 2 \/ k = 3 \/ k = 4
    OBVIOUS
  <2>11. \A k \in 1 .. 4 : b[k] = s[i][k]
    BY <2>7, <2>9, <2>10
  <2>12. s[i] \in Seq(Byte) /\ Len(s[i]) = 4
    BY <1>3
  <2>13. b = s[i]
    BY ONLY <2>8, <2>11, <2>12, SeqEqual
  <2> QED
    BY <2>1, <2>6, <2>7, <2>13
<1>12. PICK ws : ws = ToInt32Array(e)
  OBVIOUS
<1>13. ws = [i \in 1 .. n |-> Int32At(data, 4 * i - 3)]
  BY <1>9, <1>12 DEF ToInt32Array
<1>14. Len(ws) = n /\ DOMAIN ws = 1 .. n
  BY <1>11, <1>13
<1>15. [i \in DOMAIN ws |-> Int32Bytes(ws[i])] = s
  BY <1>2, <1>11, <1>13, <1>14
<1>16. EntryInt32(ws) = Entry("int32", n, Joined(s))
  BY <1>14, <1>15 DEF EntryInt32
<1> QED
  BY <1>1, <1>5, <1>9, <1>10, <1>12, <1>16

\* A string and its NUL.
LEMMA StringEntry ==
  ASSUME NEW v \in Seq(Byte), NEW e, e = EntryString(v)
  PROVE  /\ e.rpmtype = "string" /\ e.count = 1
         /\ e.data \in Seq(Byte) /\ Len(e.data) \in Nat \ {0}
         /\ e.data[Len(e.data)] = 0
         /\ (\A k \in DOMAIN v : v[k] # 0) =>
              \A k \in 1 .. Len(e.data) - 1 : e.data[k] # 0
         /\ EntryString(ToString(e)) = e
<1>1. PICK d, n, nul : d = e.data /\ n = Len(v) /\ nul = <<0>>
  OBVIOUS
<1>2. nul \in Seq(Byte) /\ Len(nul) = 1 /\ nul[1] = 0
  BY <1>1 DEF Byte
<1>3. e = Entry("string", 1, v \o nul)
  BY <1>1 DEF EntryString
<1>4. e.rpmtype = "string" /\ e.count = 1 /\ IsConcat(d, v, nul)
  BY <1>1, <1>3 DEF Entry, IsConcat
<1>5. /\ d \in Seq(Byte) /\ Len(d) = Len(v) + Len(nul) /\ Len(v) \in Nat
      /\ \A k \in 1 .. Len(v) : d[k] = v[k]
      /\ \A k \in 1 .. Len(nul) : d[Len(v) + k] = nul[k]
  <2>1. nul \in Seq(Byte) /\ v \in Seq(Byte)
    BY <1>2
  <2> QED
    BY ONLY <1>4, <2>1, ConcatParts
<1>6. Len(d) = n + 1 /\ n \in Nat /\ d[n + 1] = 0 /\ \A k \in 1 .. n : d[k] = v[k]
  BY <1>1, <1>2, <1>5
<1>7. d \in Seq(Byte)
  BY <1>5
<1>8. ToString(e) = v
  <2>1. PICK u : u = SubSeq(d, 1, n)
    OBVIOUS
  <2>2. u \in Seq(Byte) /\ Len(u) = n /\ \A k \in 1 .. n : u[k] = d[k]
    BY <1>6, <1>7, <2>1
  <2>3. Len(u) = Len(v) /\ \A k \in 1 .. Len(u) : u[k] = v[k]
    BY <1>1, <1>6, <2>2
  <2>4. u = v
    <3>1. u \in Seq(Byte) /\ v \in Seq(Byte)
      BY <2>2
    <3> QED
      BY ONLY <2>3, <3>1, SeqEqual
  <2>5. Len(e.data) - 1 = n
    BY <1>1, <1>6
  <2> QED
    BY <1>1, <2>1, <2>4, <2>5 DEF ToString
<1>9. (\A k \in DOMAIN v : v[k] # 0) => \A k \in 1 .. Len(d) - 1 : d[k] # 0
  <2>1. DOMAIN v = 1 .. n /\ Len(d) - 1 = n
    BY <1>1, <1>6
  <2> QED
    BY <1>6, <2>1
<1> QED
  BY <1>1, <1>3, <1>4, <1>6, <1>7, <1>8, <1>9 DEF EntryString

\* Bytes are the data themselves.
LEMMA BytesEntryIs ==
  ASSUME NEW v \in Seq(Byte), NEW e, e = EntryBytes(v)
  PROVE  /\ e.rpmtype = "binary" /\ e.count = Len(v) /\ e.data = v
         /\ EntryBytes(e.data) = e
BY DEF EntryBytes, Entry

\* Strings with their NULs: the i-th ends at q[i].
Ended(q, n, data) ==
  /\ q \in [0 .. n -> Nat] /\ q[0] = 0
  /\ \A i \in 1 .. n : q[i - 1] < q[i] /\ q[i] <= Len(data) /\ data[q[i]] = 0
  /\ n # 0 => Len(data) = q[n]

\* The same, without any other NUL.
Strung(q, n, data) ==
  /\ Ended(q, n, data)
  /\ \A i \in 1 .. n : \A k \in q[i - 1] + 1 .. q[i] - 1 : data[k] # 0

\* Strings of which none has a NUL in it.
NoNul(vs) == \A i \in DOMAIN vs : \A k \in DOMAIN vs[i] : vs[i][k] # 0

\* Where the strings of an array end, and what stands there.
LEMMA StringsPlaced ==
  ASSUME NEW vs \in Seq(Seq(Byte)), NEW q, NEW data, Placed(q, Nulled(vs), data)
  PROVE  /\ Ended(q, Len(vs), data)
         /\ NoNul(vs) => Strung(q, Len(vs), data)
         /\ \A i \in 1 .. Len(vs) :
              /\ q[i] - 1 - q[i - 1] = Len(vs[i])
              /\ \A k \in 1 .. Len(vs[i]) : data[q[i - 1] + k] = vs[i][k]
<1>1. PICK s, n : s = Nulled(vs) /\ n = Len(vs)
  OBVIOUS
<1>2. n \in Nat /\ Len(s) = n /\ DOMAIN vs = 1 .. n
  BY <1>1, NulledIs
<1>3. /\ q \in [0 .. n -> Nat] /\ q[0] = 0 /\ Len(data) = q[n]
      /\ \A i \in 1 .. n : q[i] = q[i - 1] + Len(s[i]) /\ q[i] <= Len(data)
      /\ \A i \in 1 .. n : \A k \in 1 .. Len(s[i]) : data[q[i - 1] + k] = s[i][k]
  BY <1>1, <1>2 DEF Placed
<1>4. ASSUME NEW i \in 1 .. n
      PROVE  /\ q[i - 1] < q[i] /\ q[i] <= Len(data) /\ data[q[i]] = 0
             /\ q[i] - 1 - q[i - 1] = Len(vs[i])
             /\ \A k \in 1 .. Len(vs[i]) : data[q[i - 1] + k] = vs[i][k]
             /\ (\A k \in 1 .. Len(vs[i]) : vs[i][k] # 0) =>
                  \A k \in q[i - 1] + 1 .. q[i] - 1 : data[k] # 0
  <2>1. PICK p, m, a, b : p = q[i - 1] /\ m = Len(vs[i]) /\ a = vs[i] /\ b = s[i]
    OBVIOUS
  <2>2. p \in Nat
    BY <1>2, <1>3, <2>1
  <2>3. /\ m \in Nat /\ Len(b) = m + 1 /\ b[m + 1] = 0
        /\ \A k \in 1 .. m : b[k] = a[k]
    BY <1>1, <2>1, NulledIs
  <2>4. q[i] = p + (m + 1) /\ q[i] <= Len(data)
    BY <1>3, <2>1, <2>3
  <2>5. \A k \in 1 .. m + 1 : data[p + k] = b[k]
    BY <1>3, <2>1, <2>3
  <2>6. data[q[i]] = 0
    BY <2>3, <2>4, <2>5
  <2>7. ASSUME \A k \in 1 .. m : a[k] # 0, NEW k \in p + 1 .. q[i] - 1 PROVE data[k] # 0
    <3>1. k - p \in 1 .. m /\ p + (k - p) = k
      BY <2>2, <2>3, <2>4
    <3> QED
      BY <2>3, <2>5, <2>7, <3>1
  <2>8. \A k \in 1 .. m : data[p + k] = a[k]
    BY <2>3, <2>5
  <2>9. p < q[i] /\ q[i] - 1 - p = m
    BY <2>2, <2>3, <2>4
  <2> QED
    BY <2>1, <2>4, <2>6, <2>7, <2>8, <2>9
<1>5. Ended(q, n, data)
  BY <1>3, <1>4 DEF Ended
<1>6. ASSUME NoNul(vs) PROVE Strung(q, n, data)
  <2>1. ASSUME NEW i \in 1 .. n PROVE \A k \in q[i - 1] + 1 .. q[i] - 1 : data[k] # 0
    <3>1. DOMAIN vs[i] = 1 .. Len(vs[i])
      BY <1>1, NulledIs
    <3>2. \A k \in 1 .. Len(vs[i]) : vs[i][k] # 0
      BY ONLY <1>2, <1>6, <3>1, i \in 1 .. n DEF NoNul
    <3> QED
      BY <1>4, <3>2
  <2> QED
    BY <1>5, <2>1 DEF Strung
<1> QED
  BY <1>1, <1>4, <1>5, <1>6

\* Where toStringArray stops.
IsStops(f, data, n) == f = [i \in 0 .. n |-> IF i = 0 THEN 0 ELSE Stop(data, f[i - 1])]

\* It stops where the strings end.
LEMMA StopsAre ==
  ASSUME NEW n \in Nat, NEW data, Len(data) \in Nat, NEW q, Strung(q, n, data),
         NEW e, e.count = n, e.data = data
  PROVE  ToStringArray(e) = [i \in 1 .. n |-> SubSeq(data, q[i - 1] + 1, q[i] - 1)]
<1>1. ASSUME NEW i \in 1 .. n PROVE Stop(data, q[i - 1]) = q[i]
  <2>1. i - 1 \in 0 .. n /\ i \in 0 .. n
    OBVIOUS
  <2>2. q[i - 1] \in Nat /\ q[i] \in Nat
    BY <2>1 DEF Strung, Ended
  <2>3. /\ q[i] \in q[i - 1] + 1 .. Len(data) /\ data[q[i]] = 0
        /\ \A k \in q[i - 1] + 1 .. q[i] - 1 : data[k] # 0
    BY <2>2 DEF Strung, Ended
  <2> QED
    BY <2>2, <2>3, StringEndIs
<1>2. q = [i \in 0 .. n |-> q[i]] /\ q[0] = 0
  BY DEF Strung, Ended
<1>3. IsStops(q, data, n)
  BY <1>1, <1>2 DEF IsStops
<1>4. ASSUME NEW f, IsStops(f, data, n) PROVE \A i \in 0 .. n : f[i] = q[i]
  <2> DEFINE S == {i \in Nat : i <= n => f[i] = q[i]}
  <2>0. \A i \in 0 .. n : f[i] = IF i = 0 THEN 0 ELSE Stop(data, f[i - 1])
    BY <1>4 DEF IsStops
  <2>1. 0 \in S
    BY <1>2, <2>0
  <2>2. ASSUME NEW i \in Nat, i \in S PROVE i + 1 \in S
    <3>1. SUFFICES ASSUME i + 1 <= n PROVE f[i + 1] = q[i + 1]
      OBVIOUS
    <3>2. f[i] = q[i] /\ i + 1 \in 1 .. n /\ (i + 1) - 1 = i /\ i + 1 # 0 /\ i + 1 \in 0 .. n
      BY <2>2, <3>1
    <3>3. f[i + 1] = Stop(data, f[(i + 1) - 1])
      BY <2>0, <3>2
    <3>4. Stop(data, q[(i + 1) - 1]) = q[i + 1]
      BY <1>1, <3>2
    <3> QED
      BY <3>2, <3>3, <3>4
  <2> HIDE DEF S
  <2>3. \A i \in Nat : i \in S
    BY <2>1, <2>2, Induction
  <2> QED
    BY <2>3 DEF S
<1>5. PICK stop : /\ IsStops(stop, e.data, e.count)
                  /\ stop = CHOOSE f : IsStops(f, e.data, e.count)
  BY <1>3
<1>6. ToStringArray(e) = [i \in 1 .. n |-> SubSeq(data, stop[i - 1] + 1, stop[i] - 1)]
  <2>1. ToStringArray(e) =
          [i \in 1 .. e.count |-> SubSeq(e.data, stop[i - 1] + 1, stop[i] - 1)]
    <3>1. ToStringArray(e) =
            [i \in 1 .. e.count |->
               SubSeq(e.data, (CHOOSE f : IsStops(f, e.data, e.count))[i - 1] + 1,
                              (CHOOSE f : IsStops(f, e.data, e.count))[i] - 1)]
      BY ONLY DEF ToStringArray, IsStops
    <3> QED
      BY ONLY <1>5, <3>1
  <2> QED
    BY <2>1
<1>7. \A i \in 1 .. n : i \in 0 .. n /\ i - 1 \in 0 .. n
  OBVIOUS
<1>8. \A i \in 1 .. n : stop[i] = q[i] /\ stop[i - 1] = q[i - 1]
  BY <1>4, <1>5, <1>7
<1> QED
  BY <1>6, <1>8

\* An array of strings: its entry, and the strings its data is read as.
LEMMA StringSliceEntry ==
  ASSUME NEW vs \in Seq(Seq(Byte)), NEW e, e = EntryStringSlice(vs)
  PROVE  /\ e.rpmtype = "stringArray" /\ e.count = Len(vs) /\ e.data \in Seq(Byte)
         /\ \E q : Ended(q, Len(vs), e.data)
         /\ NoNul(vs) => /\ \E q : Strung(q, Len(vs), e.data)
                         /\ EntryStringSlice(ToStringArray(AsRead(e))) = e
<1>1. PICK n \in Nat : n = Len(vs) /\ DOMAIN vs = 1 .. n
  OBVIOUS
<1>2. CASE n = 0
  <2>1. vs = << >>
    BY <1>1, <1>2
  <2>2. e = Entry("stringArray", 0, <<0>>)
    BY <1>1, <1>2, <2>1 DEF EntryStringSlice
  <2>3. e.rpmtype = "stringArray" /\ e.count = 0 /\ e.data = <<0>>
    BY <2>2 DEF Entry
  <2>4. e.data \in Seq(Byte)
    BY <2>3 DEF Byte
  <2>5. AsRead(e).count = 0
    BY <2>2 DEF AsRead, Entry
  <2>6. ToStringArray(AsRead(e)) = << >>
    BY <2>5 DEF ToStringArray
  <2>7. EntryStringSlice(<< >>) = e
    BY <2>2 DEF EntryStringSlice
  <2>8. Strung([i \in 0 .. 0 |-> 0], 0, e.data)
    BY DEF Strung, Ended
  <2> QED
    BY <1>1, <1>2, <2>3, <2>4, <2>6, <2>7, <2>8 DEF Strung
<1>3. CASE n # 0
  <2>1. vs # << >>
    BY <1>1, <1>3
  <2>2. PICK data : data = Joined(Nulled(vs))
    OBVIOUS
  <2>3. e = Entry("stringArray", n, data)
    BY <1>1, <2>1, <2>2 DEF EntryStringSlice, Nulled
  <2>4. e.rpmtype = "stringArray" /\ e.count = n /\ e.data = data
    BY <2>3 DEF Entry
  <2>5. PICK q : Placed(q, Nulled(vs), data)
    BY <2>2, NulledIs, JoinedIs
  <2>6. data \in Seq(Byte) /\ Len(data) \in Nat
    BY <2>5 DEF Placed
  <2>7. /\ Ended(q, n, data) /\ (NoNul(vs) => Strung(q, n, data))
        /\ \A i \in 1 .. n :
              /\ q[i] - 1 - q[i - 1] = Len(vs[i])
              /\ \A k \in 1 .. Len(vs[i]) : data[q[i - 1] + k] = vs[i][k]
    BY <1>1, <2>5, StringsPlaced
  <2>8. AsRead(e) = e
    BY <1>3, <2>4 DEF AsRead
  <2>9. NoNul(vs) => ToStringArray(e) = [i \in 1 .. n |-> SubSeq(data, q[i - 1] + 1, q[i] - 1)]
    <3>1. ASSUME Strung(q, n, data)
          PROVE  ToStringArray(e) = [i \in 1 .. n |-> SubSeq(data, q[i - 1] + 1, q[i] - 1)]
      BY ONLY <1>1, <2>4, <2>6, <3>1, StopsAre
    <3> QED
      BY ONLY <2>7, <3>1
  <2>10. ASSUME NEW i \in 1 .. n PROVE SubSeq(data, q[i - 1] + 1, q[i] - 1) = vs[i]
    <3>1. PICK p, r, v, u : p = q[i - 1] /\ r = q[i] /\ v = vs[i] /\ u = SubSeq(data, p + 1, r - 1)
      OBVIOUS
    <3>2. i - 1 \in 0 .. n /\ i \in 0 .. n
      OBVIOUS
    <3>3. p \in Nat /\ r \in Nat /\ p < r /\ r <= Len(data)
      BY <2>7, <3>1, <3>2 DEF Ended
    <3>4. v \in Seq(Byte) /\ Len(v) \in Nat
      BY <1>1, <3>1, ElementOfSeq
    <3>5. r - 1 - p = Len(v) /\ \A k \in 1 .. Len(v) : data[p + k] = v[k]
      BY <2>7, <3>1
    <3>6. u \in Seq(Byte) /\ Len(u) = Len(v) /\ \A k \in 1 .. Len(v) : u[k] = data[p + k]
      <4>1. \A k \in p + 1 .. r - 1 : data[k] \in Byte
        BY <2>6, <3>3, ElementOfSeq
      <4>2. p + 1 \in Int /\ r - 1 \in Int /\ p + 1 <= (r - 1) + 1
        BY <3>3
      <4>3. /\ u \in Seq(Byte) /\ Len(u) = (r - 1) - (p + 1) + 1
            /\ \A k \in 1 .. (r - 1) - (p + 1) + 1 : u[k] = data[(p + 1) + k - 1]
        <5>1. PICK a, b : a = p + 1 /\ b = r - 1
          OBVIOUS
        <5>2. a \in Int /\ b \in Int /\ a <= b + 1 /\ \A k \in a .. b : data[k] \in Byte
          BY <4>1, <4>2, <5>1
        <5>3. u = SubSeq(data, a, b)
          BY <3>1, <5>1
        <5>4. /\ u \in Seq(Byte) /\ Len(u) = b - a + 1
              /\ \A k \in 1 .. b - a + 1 : u[k] = data[a + k - 1]
          BY ONLY <5>2, <5>3
        <5> QED
          BY <5>1, <5>4
      <4>4. (r - 1) - (p + 1) + 1 = Len(v)
        BY <3>3, <3>5
      <4>5. \A k \in 1 .. Len(v) : (p + 1) + k - 1 = p + k
        BY <3>3
      <4> QED
        BY <4>3, <4>4, <4>5
    <3>7. u = v
      <4>1. \A k \in 1 .. Len(u) : u[k] = v[k]
        BY <3>5, <3>6
      <4> QED
        BY ONLY <3>4, <3>6, <4>1, SeqEqual
    <3> QED
      BY <3>1, <3>7
  <2>11. vs = [i \in 1 .. n |-> vs[i]]
    BY <1>1
  <2>12. NoNul(vs) => ToStringArray(e) = vs
    BY <2>9, <2>10, <2>11
  <2> QED
    BY <1>1, <1>3, <2>4, <2>6, <2>7, <2>8, <2>12
<1> QED
  BY <1>2, <1>3

\* What the data of an entry of a type is.
Shaped(e) ==
  /\ e = Entry(e.rpmtype, e.count, e.data)
  /\ e.rpmtype \in RpmTypes /\ e.count \in Nat /\ e.data \in Seq(Byte)
  /\ e.rpmtype = "int16" => Len(e.data) = 2 * e.count
  /\ e.rpmtype = "int32" => Len(e.data) = 4 * e.count
  /\ e.rpmtype = "binary" => Len(e.data) = e.count
  /\ e.rpmtype = "string" => Len(e.data) # 0 /\ e.data[Len(e.data)] = 0
  /\ e.rpmtype = "stringArray" => \E q : Ended(q, e.count, e.data)

\* There is no NUL in it but at the ends of strings.
Unbroken(e) ==
  /\ e.rpmtype = "string" => \A k \in 1 .. Len(e.data) - 1 : e.data[k] # 0
  /\ e.rpmtype = "stringArray" => \E q : Strung(q, e.count, e.data)

\* The entry the conversions of the readers and the writers make of one.
Converted(e) ==
  CASE e.rpmtype = "int16" -> EntryInt16(ToInt16Array(e))
    [] e.rpmtype = "int32" -> EntryInt32(ToInt32Array(e))
    [] e.rpmtype = "string" -> EntryString(ToString(e))
    [] e.rpmtype = "stringArray" -> EntryStringSlice(ToStringArray(e))
    [] OTHER -> EntryBytes(e.data)

\* The entry of a Go value has its type's shape, and the Go value can be had
\* back from it.
LEMMA EntryOfIs ==
  ASSUME NEW v \in GoValues, NEW e, e = EntryOf(v)
  PROVE  Shaped(e) /\ (v \in PlainValues => Unbroken(e) /\ Converted(AsRead(e)) = e)
<1>1. \/ v.type \in {"int16", "int32"} /\ v.value \in Seq(Int)
      \/ v.type \in {"string", "binary"} /\ v.value \in Seq(Byte)
      \/ v.type = "stringArray" /\ v.value \in Seq(Seq(Byte))
  BY ValuesAssumption
<1>2. CASE v.type = "int16" /\ v.value \in Seq(Int)
  <2>1. e = EntryInt16(v.value)
    BY <1>2 DEF EntryOf
  <2>2. /\ e.rpmtype = "int16" /\ e.count = Len(v.value)
        /\ e.data \in Seq(Byte) /\ Len(e.data) = 2 * e.count
        /\ EntryInt16(ToInt16Array(e)) = e
    BY <1>2, <2>1, Int16Entry
  <2>3. e = Entry(e.rpmtype, e.count, e.data) /\ AsRead(e) = e
    BY <2>1, <2>2 DEF EntryInt16, Entry, AsRead
  <2>4. e.count \in Nat
    BY <1>2, <2>2
  <2> QED
    BY <2>2, <2>3, <2>4 DEF Shaped, Unbroken, Converted, RpmTypes
<1>3. CASE v.type = "int32" /\ v.value \in Seq(Int)
  <2>1. e = EntryInt32(v.value)
    BY <1>3 DEF EntryOf
  <2>2. /\ e.rpmtype = "int32" /\ e.count = Len(v.value)
        /\ e.data \in Seq(Byte) /\ Len(e.data) = 4 * e.count
        /\ EntryInt32(ToInt32Array(e)) = e
    BY <1>3, <2>1, Int32Entry
  <2>3. e = Entry(e.rpmtype, e.count, e.data) /\ AsRead(e) = e
    BY <2>1, <2>2 DEF EntryInt32, Entry, AsRead
  <2>4. e.count \in Nat
    BY <1>3, <2>2
  <2> QED
    BY <2>2, <2>3, <2>4 DEF Shaped, Unbroken, Converted, RpmTypes
<1>4. CASE v.type = "string" /\ v.value \in Seq(Byte)
  <2>1. e = EntryString(v.value)
    BY <1>4 DEF EntryOf
  <2>2. /\ e.rpmtype = "string" /\ e.count = 1
        /\ e.data \in Seq(Byte) /\ Len(e.data) \in Nat \ {0}
        /\ e.data[Len(e.data)] = 0
        /\ (\A k \in DOMAIN v.value : v.value[k] # 0) =>
             \A k \in 1 .. Len(e.data) - 1 : e.data[k] # 0
        /\ EntryString(ToString(e)) = e
    BY <1>4, <2>1, StringEntry
  <2>3. e = Entry(e.rpmtype, e.count, e.data) /\ AsRead(e) = e
    BY <2>1, <2>2 DEF EntryString, Entry, AsRead
  <2>4. v \in PlainValues => \A k \in DOMAIN v.value : v.value[k] # 0
    BY <1>4 DEF PlainValues
  <2> QED
    BY <2>2, <2>3, <2>4 DEF Shaped, Unbroken, Converted, RpmTypes
<1>5. CASE v.type = "binary" /\ v.value \in Seq(Byte)
  <2>1. e = EntryBytes(v.value)
    BY <1>5 DEF EntryOf
  <2>2. /\ e.rpmtype = "binary" /\ e.count = Len(v.value) /\ e.data = v.value
        /\ EntryBytes(e.data) = e
    BY <1>5, <2>1, BytesEntryIs
  <2>3. e = Entry(e.rpmtype, e.count, e.data) /\ AsRead(e) = e
    BY <2>1, <2>2 DEF EntryBytes, Entry, AsRead
  <2>4. e.count \in Nat
    BY <1>5, <2>2
  <2> QED
    BY <1>5, <2>2, <2>3, <2>4 DEF Shaped, Unbroken, Converted, RpmTypes
<1>6. CASE v.type = "stringArray" /\ v.value \in Seq(Seq(Byte))
  <2>1. e = EntryStringSlice(v.value)
    BY <1>6 DEF EntryOf
  <2>2. /\ e.rpmtype = "stringArray" /\ e.count = Len(v.value) /\ e.data \in Seq(Byte)
        /\ \E q : Ended(q, Len(v.value), e.data)
        /\ NoNul(v.value) => /\ \E q : Strung(q, Len(v.value), e.data)
                             /\ EntryStringSlice(ToStringArray(AsRead(e))) = e
    BY <1>6, <2>1, StringSliceEntry
  <2>3. e = Entry(e.rpmtype, e.count, e.data) /\ AsRead(e).rpmtype = "stringArray"
    BY <2>1, <2>2 DEF EntryStringSlice, Entry, AsRead
  <2>4. e.count \in Nat
    BY <1>6, <2>2
  <2>5. Shaped(e)
    BY <2>2, <2>3, <2>4 DEF Shaped, RpmTypes
  <2>6. v \in PlainValues => NoNul(v.value)
    BY <1>6 DEF PlainValues, NoNul
  <2>7. NoNul(v.value) => Unbroken(e)
    BY <2>2 DEF Unbroken
  <2>8. NoNul(v.value) => Converted(AsRead(e)) = e
    BY <2>2, <2>3 DEF Converted
  <2> QED
    BY <2>5, <2>6, <2>7, <2>8
<1> QED
  BY <1>1, <1>2, <1>3, <1>4, <1>5, <1>6

\* So has one that was read and is written again.
LEMMA AsReadIs ==
  ASSUME NEW e, Shaped(e)
  PROVE  /\ Shaped(AsRead(e)) /\ AsRead(AsRead(e)) = AsRead(e)
         /\ Unbroken(e) => Unbroken(AsRead(e))
         /\ AsRead(e).data =
              IF e.rpmtype = "stringArray" /\ e.count = 0 THEN << >> ELSE e.data
         /\ AsRead(e) = Entry(e.rpmtype, e.count, AsRead(e).data)
<1>1. e = Entry(e.rpmtype, e.count, e.data)
  BY DEF Shaped
<1>2. CASE e.rpmtype = "stringArray" /\ e.count = 0
  <2>1. AsRead(e) = Entry("stringArray", 0, << >>)
    BY <1>1, <1>2 DEF AsRead, Entry
  <2>2. PICK f : f = AsRead(e)
    OBVIOUS
  <2>3. /\ f = Entry("stringArray", 0, << >>)
        /\ f.rpmtype = "stringArray" /\ f.count = 0 /\ f.data = << >>
    BY <2>1, <2>2 DEF Entry
  <2>4. AsRead(f) = f
    BY <2>3 DEF AsRead, Entry
  <2>5. Strung([i \in 0 .. 0 |-> 0], 0, << >>)
    BY DEF Strung, Ended
  <2>6. << >> \in Seq(Byte)
    OBVIOUS
  <2>7. Shaped(f) /\ Unbroken(f)
    <3>1. PICK q : q = [i \in 0 .. 0 |-> 0]
      OBVIOUS
    <3>2. Strung(q, f.count, f.data)
      BY ONLY <2>3, <2>5, <3>1
    <3>3. /\ f = Entry(f.rpmtype, f.count, f.data) /\ f.data \in Seq(Byte)
          /\ f.rpmtype = "stringArray" /\ f.count = 0
      BY <2>3, <2>6
    <3> QED
      BY ONLY <3>2, <3>3 DEF Shaped, Unbroken, RpmTypes, Strung
  <2> QED
    BY <1>2, <2>2, <2>3, <2>4, <2>7
<1>3. CASE ~(e.rpmtype = "stringArray" /\ e.count = 0)
  <2>1. AsRead(e) = e
    BY <1>3 DEF AsRead
  <2> QED
    BY <1>1, <1>3, <2>1
<1> QED
  BY <1>2, <1>3

\* The entries that are given to index.Add ...
LEMMA ValueIs ==
  ASSUME NEW e \in Values
  PROVE  Shaped(e)
<1>1. PICK v \in GoValues : e = EntryOf(v) \/ e = AsRead(EntryOf(v))
  BY DEF Values, EntriesOf
<1> QED
  BY <1>1, EntryOfIs, AsReadIs

\* ... and those of Go values that have no NUL in a string.
LEMMA PlainIs ==
  ASSUME NEW e \in EntriesOf(PlainValues)
  PROVE  /\ Shaped(e) /\ Unbroken(e)
         /\ e \in {Converted(AsRead(e)), AsRead(Converted(AsRead(e)))}
<1>0. PICK v \in PlainValues : e = EntryOf(v) \/ e = AsRead(EntryOf(v))
  BY DEF EntriesOf
<1>1. PICK f : f = EntryOf(v) /\ (e = f \/ e = AsRead(f))
  BY <1>0
<1>2. Shaped(f) /\ Unbroken(f) /\ Converted(AsRead(f)) = f
  BY <1>1, EntryOfIs DEF PlainValues
<1>3. AsRead(AsRead(f)) = AsRead(f) /\ Shaped(AsRead(f)) /\ Unbroken(AsRead(f))
  BY <1>2, AsReadIs
<1> QED
  BY <1>1, <1>2, <1>3

-----------------------------------------------------------------------------
(* What readIndexEntry finds in the store, or in its beginning.             *)

\* Data in the store behind position off, as far as the store goes.
Stands(body, off, data) ==
  /\ body \in Seq(Byte) /\ data \in Seq(Byte) /\ off \in Nat /\ off <= Len(body)
  /\ \A k \in 1 .. Len(data) : off + k <= Len(body) => body[off + k] = data[k]

\* A string ends at a NUL, or where it begins; no NUL is in between.
LEMMA StringEndType ==
  ASSUME NEW body, Len(body) \in Nat, NEW p \in Nat
  PROVE  /\ StringEnd(body, p) \in Nat
         /\ StringEnd(body, p) = p \/ StringEnd(body, p) \in p + 1 .. Len(body)
         /\ \A k \in p + 1 .. Len(body) :
              body[k] = 0 => StringEnd(body, p) # p /\ StringEnd(body, p) <= k
<1> DEFINE nuls == {k \in p + 1 .. Len(body) : body[k] = 0}
<1>1. CASE nuls = {}
  BY <1>1 DEF StringEnd
<1>2. CASE nuls # {}
  <2>1. nuls \subseteq Nat
    OBVIOUS
  <2>2. \E x \in nuls : \A y \in nuls : x <= y
    BY <1>2, <2>1, LeastNumber
  <2> HIDE DEF nuls
  <2>3. Least(nuls) \in nuls /\ \A y \in nuls : Least(nuls) <= y
    BY <2>2 DEF Least
  <2>4. StringEnd(body, p) = Least(nuls)
    BY <1>2 DEF StringEnd, nuls
  <2>5. StringEnd(body, p) \in p + 1 .. Len(body) /\ \A y \in nuls : StringEnd(body, p) <= y
    BY <2>3, <2>4 DEF nuls
  <2> QED
    BY <2>5 DEF nuls
<1> QED
  BY <1>1, <1>2

\* Where the strings of an array end, one after the other.
IsEnds(f, body, p, n) ==
  f = [k \in 0 .. n |-> IF k = 0 THEN p ELSE StringEnd(body, f[k - 1])]

\* There are such ends.
LEMMA EndsExist ==
  ASSUME NEW body, Len(body) \in Nat, NEW p \in Nat, NEW n \in Nat
  PROVE  \E f : IsEnds(f, body, p, n) /\ StringsEnd(body, p, n) = f[n]
<1> DEFINE step == [x \in (1 .. n) \X Nat |-> StringEnd(body, x[2])]
<1>1. step \in [(1 .. n) \X Nat -> Nat]
  BY StringEndType
<1>2. PICK g : IsRecursion(g, p, step, n) /\ g \in [0 .. n -> Nat]
  BY <1>1, Recursion
<1>3. ASSUME NEW k \in 0 .. n PROVE g[k] = IF k = 0 THEN p ELSE StringEnd(body, g[k - 1])
  <2>1. g[k] = IF k = 0 THEN p ELSE step[<<k, g[k - 1]>>]
    BY <1>2 DEF IsRecursion
  <2>2. k # 0 => k \in 1 .. n /\ k - 1 \in 0 .. n
    OBVIOUS
  <2>3. k # 0 => g[k - 1] \in Nat
    BY <1>2, <2>2
  <2>4. \A x \in 1 .. n, y \in Nat : step[<<x, y>>] = StringEnd(body, y)
    OBVIOUS
  <2> HIDE DEF step
  <2> QED
    BY <2>1, <2>2, <2>3, <2>4
<1>4. g = [k \in 0 .. n |-> g[k]]
  BY <1>2
<1>5. IsEnds(g, body, p, n)
  BY <1>3, <1>4 DEF IsEnds
<1>6. StringsEnd(body, p, n) = (CHOOSE f : IsEnds(f, body, p, n))[n]
  BY DEF StringsEnd, IsEnds
<1> QED
  BY <1>5, <1>6

\* That is in the data, as far as it goes ...
LEMMA StringsEndWithin ==
  ASSUME NEW n \in Nat, NEW data, NEW q, Ended(q, n, data), NEW body, NEW off,
         Stands(body, off, data)
  PROVE  \E l \in 0 .. Len(data) : StringsEnd(body, off, n) = off + l /\ off + l <= Len(body)
<1>1. /\ off \in Nat /\ Len(body) \in Nat /\ Len(data) \in Nat /\ off <= Len(body)
      /\ \A k \in 1 .. Len(data) : off + k <= Len(body) => body[off + k] = data[k]
  BY DEF Stands
<1>2. PICK f : IsEnds(f, body, off, n) /\ StringsEnd(body, off, n) = f[n]
  BY <1>1, EndsExist
<1>3. \A k \in 0 .. n : f[k] = IF k = 0 THEN off ELSE StringEnd(body, f[k - 1])
  BY <1>2 DEF IsEnds
<1> DEFINE Within(x, y) == x \in Nat /\ off <= x /\ x <= off + y /\ x <= Len(body)
           S == {k \in Nat : k <= n => Within(f[k], q[k])}
<1>4. 0 \in S
  BY <1>1, <1>3 DEF Ended
<1>5. ASSUME NEW k \in Nat, k \in S PROVE k + 1 \in S
  <2>1. SUFFICES ASSUME k + 1 <= n PROVE Within(f[k + 1], q[k + 1])
    OBVIOUS
  <2>2. k + 1 \in 1 .. n /\ k \in 0 .. n /\ k + 1 \in 0 .. n /\ (k + 1) - 1 = k /\ k + 1 # 0
    BY <2>1
  <2>3. PICK p, r, a, b, m : /\ p = f[k] /\ r = f[k + 1] /\ a = q[k] /\ b = q[k + 1]
                             /\ m = Len(data)
    OBVIOUS
  <2>4. r = StringEnd(body, p)
    BY <1>3, <2>2, <2>3
  <2>5. /\ a \in Nat /\ b \in Nat /\ a < b /\ b <= m /\ data[b] = 0 /\ m \in Nat
    BY <1>1, <2>2, <2>3 DEF Ended
  <2>6. p \in Nat /\ off <= p /\ p <= off + a /\ p <= Len(body)
    BY <1>5, <2>1, <2>3
  <2>7. /\ r \in Nat
        /\ r = p \/ r \in p + 1 .. Len(body)
        /\ \A i \in p + 1 .. Len(body) : body[i] = 0 => r # p /\ r <= i
    BY <1>1, <2>4, <2>6, StringEndType
  <2>8. r \in Nat /\ off <= r /\ r <= Len(body)
    <3>1. r = p \/ (p < r /\ r <= Len(body))
      BY <1>1, <2>6, <2>7
    <3>2. r \in Nat
      BY <1>1, <2>6, <2>7
    <3>3. off \in Nat /\ Len(body) \in Nat
      BY <1>1
    <3> QED
      BY ONLY <2>6, <3>1, <3>2, <3>3
  <2>9. CASE off + b <= Len(body)
    <3>1. b \in 1 .. m /\ off + b \in p + 1 .. Len(body)
      <4>1. off \in Nat /\ Len(body) \in Nat
        BY <1>1
      <4>2. a \in Nat /\ b \in Nat /\ a < b /\ b <= m /\ m \in Nat
        BY <2>5
      <4> QED
        BY ONLY <2>6, <2>9, <4>1, <4>2
    <3>2. body[off + b] = 0
      BY <1>1, <2>3, <2>5, <2>9, <3>1
    <3>3. r <= off + b
      BY <2>7, <3>1, <3>2
    <3> QED
      BY <2>3, <2>8, <3>3
  <2>10. CASE ~(off + b <= Len(body))
    <3>1. r <= off + b
      <4>1. off \in Nat /\ Len(body) \in Nat /\ b \in Nat
        BY <1>1, <2>5
      <4> QED
        BY ONLY <2>8, <2>10, <4>1
    <3> QED
      BY <2>3, <2>8, <3>1
  <2> QED
    BY <2>9, <2>10
<1> HIDE DEF S
<1>6. n \in S
  BY <1>4, <1>5, Induction
<1>7. Within(f[n], q[n])
  BY <1>6 DEF S
<1>8. q[n] \in Nat /\ q[n] <= Len(data)
  BY <1>1 DEF Ended
<1>9. PICK l : l = f[n] - off
  OBVIOUS
<1>10. l \in 0 .. Len(data) /\ f[n] = off + l /\ off + l <= Len(body)
  BY <1>1, <1>7, <1>8, <1>9
<1> QED
  BY <1>2, <1>10

\* ... and at their end, if all of them are there and no other NUL.
LEMMA StringsEndIs ==
  ASSUME NEW n \in Nat, NEW data, NEW q, Strung(q, n, data), NEW body, NEW off,
         Stands(body, off, data), off + Len(data) <= Len(body)
  PROVE  StringsEnd(body, off, n) = off + q[n]
<1>1. /\ off \in Nat /\ Len(body) \in Nat /\ Len(data) \in Nat
      /\ \A k \in 1 .. Len(data) : off + k <= Len(body) => body[off + k] = data[k]
  BY DEF Stands
<1>2. PICK f : IsEnds(f, body, off, n) /\ StringsEnd(body, off, n) = f[n]
  BY <1>1, EndsExist
<1>3. \A k \in 0 .. n : f[k] = IF k = 0 THEN off ELSE StringEnd(body, f[k - 1])
  BY <1>2 DEF IsEnds
<1> DEFINE S == {k \in Nat : k <= n => f[k] = off + q[k]}
<1>4. 0 \in S
  BY <1>1, <1>3 DEF Strung, Ended
<1>5. ASSUME NEW k \in Nat, k \in S PROVE k + 1 \in S
  <2>1. SUFFICES ASSUME k + 1 <= n PROVE f[k + 1] = off + q[k + 1]
    OBVIOUS
  <2>2. k + 1 \in 1 .. n /\ k \in 0 .. n /\ k + 1 \in 0 .. n /\ (k + 1) - 1 = k /\ k + 1 # 0
    BY <2>1
  <2>3. PICK p, r, a, b, m : /\ p = off + q[k] /\ r = off + q[k + 1]
                             /\ a = q[k] /\ b = q[k + 1] /\ m = Len(data)
    OBVIOUS
  <2>4. f[k + 1] = StringEnd(body, p)
    BY <1>3, <1>5, <2>1, <2>2, <2>3
  <2>5. /\ a \in Nat /\ b \in Nat /\ a < b /\ b <= m /\ data[b] = 0 /\ m \in Nat
        /\ \A i \in a + 1 .. b - 1 : data[i] # 0
    <3>1. /\ q[k] \in Nat /\ q[k + 1] \in Nat
          /\ q[(k + 1) - 1] < q[k + 1] /\ q[k + 1] <= Len(data) /\ data[q[k + 1]] = 0
          /\ \A i \in q[(k + 1) - 1] + 1 .. q[k + 1] - 1 : data[i] # 0
      BY <2>2 DEF Strung, Ended
    <3> QED
      BY <1>1, <2>2, <2>3, <3>1
  <2>6. off \in Nat /\ Len(body) \in Nat /\ off + m <= Len(body)
    BY <1>1, <2>3
  <2>7. a \in Nat /\ b \in Nat /\ a < b /\ b <= m /\ m \in Nat
    BY <2>5
  <2>8. p = off + a /\ r = off + b
    BY <2>3
  <2>9. p \in Nat /\ r \in p + 1 .. Len(body) /\ b \in 1 .. m
    BY ONLY <2>6, <2>7, <2>8
  <2>10. body[r] = 0
    <3>1. body[off + b] = data[b]
      <4>1. b \in 1 .. Len(data)
        BY <2>3, <2>9
      <4>2. off + b <= Len(body)
        BY <2>6, <2>7
      <4> QED
        BY <1>1, <4>1, <4>2
    <3> QED
      BY <2>5, <2>8, <3>1
  <2>11. ASSUME NEW i \in p + 1 .. r - 1 PROVE body[i] # 0
    <3>1. i \in Int /\ p + 1 <= i /\ i <= r - 1
      BY <2>9
    <3>2. /\ i - off \in 1 .. m /\ i - off \in a + 1 .. b - 1 /\ off + (i - off) = i
          /\ i <= Len(body)
      BY ONLY <2>6, <2>7, <2>8, <3>1
    <3> QED
      BY <1>1, <2>3, <2>5, <3>2
  <2> QED
    BY <1>1, <2>3, <2>4, <2>9, <2>10, <2>11, StringEndIs
<1> HIDE DEF S
<1>6. n \in S
  BY <1>4, <1>5, Induction
<1> QED
  BY <1>2, <1>6 DEF S

\* Of a sequence, so many elements behind a position.
IsPart(d, s, a, l) == d = SubSeq(s, a + 1, a + l)

\* Those of bytes.
LEMMA Between ==
  ASSUME NEW s \in Seq(Byte), NEW a \in Nat, NEW l \in Nat, a + l <= Len(s),
         NEW d, IsPart(d, s, a, l)
  PROVE  d \in Seq(Byte) /\ Len(d) = l /\ \A k \in 1 .. l : d[k] = s[a + k]
<1>1. PICK x, y : x = a + 1 /\ y = a + l
  OBVIOUS
<1>2. x \in Int /\ y \in Int /\ y - x + 1 = l /\ x <= y + 1
  BY <1>1
<1>3. \A i \in x .. y : s[i] \in Byte
  <2>1. \A i \in x .. y : i \in 1 .. Len(s)
    BY <1>1
  <2> QED
    BY <2>1, ElementOfSeq
<1>4. d = SubSeq(s, x, y)
  BY <1>1 DEF IsPart
<1>5. /\ d \in Seq(Byte) /\ Len(d) = IF x <= y THEN y - x + 1 ELSE 0
      /\ \A i \in 1 .. y - x + 1 : d[i] = s[x + i - 1]
  BY ONLY <1>2, <1>3, <1>4, SubSeqProperties
<1>6. \A i \in 1 .. l : x + i - 1 = a + i
  BY <1>1
<1>7. Len(d) = l
  BY ONLY <1>2, <1>5
<1> QED
  BY <1>2, <1>5, <1>6, <1>7

\* A part of data that is in the store is the part of the data.
LEMMA PartStands ==
  ASSUME NEW body, NEW off, NEW data, Stands(body, off, data),
         NEW l \in Nat, l <= Len(data), off + l <= Len(body),
         NEW d, IsPart(d, body, off, l)
  PROVE  IsPart(d, data, 0, l) /\ d \in Seq(Byte) /\ Len(d) = l
<1>1. /\ body \in Seq(Byte) /\ data \in Seq(Byte) /\ off \in Nat
      /\ \A k \in 1 .. Len(data) : off + k <= Len(body) => body[off + k] = data[k]
  BY DEF Stands
<1>2. Len(body) \in Nat /\ Len(data) \in Nat /\ l \in Nat /\ l <= Len(data)
  BY <1>1
<1>3. PICK v : IsPart(v, data, 0, l)
  BY DEF IsPart
<1>4. d \in Seq(Byte) /\ Len(d) = l /\ \A k \in 1 .. l : d[k] = body[off + k]
  BY <1>1, <1>2, Between
<1>5. v \in Seq(Byte) /\ Len(v) = l /\ \A k \in 1 .. l : v[k] = data[0 + k]
  <2>1. 0 \in Nat /\ 0 + l <= Len(data)
    BY <1>2
  <2> QED
    BY <1>1, <1>2, <1>3, <2>1, Between
<1>6. \A k \in 1 .. l : d[k] = v[k]
  <2> SUFFICES ASSUME NEW k \in 1 .. l PROVE d[k] = v[k]
    OBVIOUS
  <2>1. k \in 1 .. Len(data) /\ off + k <= Len(body) /\ 0 + k = k
    BY <1>1, <1>2
  <2> QED
    BY <1>1, <1>4, <1>5, <2>1
<1>7. d = v
  BY ONLY <1>4, <1>5, <1>6, SeqEqual
<1> QED
  BY <1>3, <1>4, <1>7

\* What is read of an entry is the data's beginning, all of it if it is a number
\* or bytes; and all of a string too, if it is there and has no NUL in it.
LEMMA ReadDataIs ==
  ASSUME NEW e, Shaped(e), NEW body, NEW i, Stands(body, i.offset, e.data),
         i.rpmtype = e.rpmtype, i.count = e.count, ~TooSmall(i, body),
         NEW d, d = ReadData(i, body)
  PROVE  /\ d \in Seq(Byte) /\ d = SubSeq(e.data, 1, Len(d))
         /\ e.rpmtype \notin Strings => d = e.data
         /\ i.offset + Len(e.data) <= Len(body) /\ Unbroken(e) => d = AsRead(e).data
<1>1. PICK off, data, n : off = i.offset /\ data = e.data /\ n = e.count
  OBVIOUS
<1>2. Stands(body, off, data)
  BY <1>1
<1>3. /\ off \in Nat /\ off <= Len(body) /\ Len(body) \in Nat /\ data \in Seq(Byte)
      /\ Len(data) \in Nat
      /\ \A k \in 1 .. Len(data) : off + k <= Len(body) => body[off + k] = data[k]
  BY <1>2 DEF Stands
<1>4. n \in Nat /\ e.rpmtype \in RpmTypes
  BY <1>1 DEF Shaped
<1> DEFINE Reads(l) == /\ d = SubSeq(body, off + 1, off + l) /\ off + l <= Len(body)
                       /\ e.rpmtype \notin Strings => l = Len(data)
                       /\ off + Len(data) <= Len(body) /\ Unbroken(e) =>
                            l = IF e.rpmtype = "stringArray" /\ n = 0 THEN 0 ELSE Len(data)
<1>5. \E l \in 0 .. Len(data) : Reads(l)
  <2>1. CASE e.rpmtype \in {"int16", "int32", "binary"}
    <3>1. EntrySize(e.rpmtype) * n = Len(data)
      BY <1>1, <2>1 DEF Shaped, EntrySize
    <3>2. off + Len(data) <= Len(body)
      BY <1>1, <1>3, <3>1 DEF TooSmall
    <3>3. d = SubSeq(body, off + 1, off + Len(data))
      BY <1>1, <2>1, <3>1 DEF ReadData
    <3>4. Reads(Len(data))
      BY <2>1, <3>2, <3>3
    <3>5. Len(data) \in 0 .. Len(data)
      BY <1>3
    <3> HIDE DEF Reads
    <3> QED
      BY <3>4, <3>5
  <2>2. CASE e.rpmtype = "string"
    <3>1. PICK m : m = Len(data)
      OBVIOUS
    <3>2. m \in Nat \ {0} /\ data[m] = 0
      BY <1>1, <1>3, <2>2, <3>1 DEF Shaped
    <3>3. PICK p : p = StringEnd(body, off)
      OBVIOUS
    <3>4. /\ p \in Nat
          /\ p = off \/ p \in off + 1 .. Len(body)
          /\ \A k \in off + 1 .. Len(body) : body[k] = 0 => p # off /\ p <= k
      BY <1>3, <3>3, StringEndType
    <3>5. PICK l : l = IF p = off THEN Len(body) - off ELSE p - off
      OBVIOUS
    <3>6. l \in Nat /\ off + l <= Len(body) /\ off + l = IF p = off THEN Len(body) ELSE p
      BY <1>3, <3>4, <3>5
    <3>7. d = SubSeq(body, off + 1, off + l)
      <4>1. d = SubSeq(body, off + 1, IF p = off THEN Len(body) ELSE p)
        BY ONLY <1>1, <2>2, <3>3, d = ReadData(i, body), i.rpmtype = e.rpmtype DEF ReadData
      <4> QED
        BY ONLY <3>6, <4>1, Zenon
    <3>8. l <= m
      <4>1. CASE off + m <= Len(body)
        <5>1. off + m \in off + 1 .. Len(body) /\ m \in 1 .. Len(data)
          BY <1>3, <3>1, <3>2, <4>1
        <5>2. p # off /\ p <= off + m
          BY <1>3, <3>2, <3>4, <4>1, <5>1
        <5> QED
          BY <1>3, <3>2, <3>4, <3>5, <5>2
      <4>2. CASE ~(off + m <= Len(body))
        BY <1>3, <3>2, <3>6, <4>2
      <4> QED
        BY <4>1, <4>2
    <3>9. ASSUME off + m <= Len(body), Unbroken(e) PROVE l = m
      <4>1. \A k \in 1 .. m - 1 : data[k] # 0
        BY <1>1, <2>2, <3>1, <3>9 DEF Unbroken
      <4>2. off + m \in off + 1 .. Len(body) /\ m \in 1 .. Len(data)
        BY <1>3, <3>1, <3>2, <3>9
      <4>3. body[off + m] = 0
        BY <1>3, <3>2, <3>9, <4>2
      <4>4. \A k \in off + 1 .. (off + m) - 1 : body[k] # 0
        <5> SUFFICES ASSUME NEW k \in off + 1 .. (off + m) - 1 PROVE body[k] # 0
          OBVIOUS
        <5>1. m \in Nat \ {0}
          BY <3>2
        <5>2. /\ k - off \in 1 .. m - 1 /\ k - off \in 1 .. m /\ off + (k - off) = k
              /\ k <= Len(body)
          BY ONLY <1>3, <3>9, <5>1, k \in off + 1 .. (off + m) - 1
        <5> QED
          BY <1>3, <3>1, <4>1, <5>2
      <4>5. p = off + m
        BY <1>3, <3>3, <4>2, <4>3, <4>4, StringEndIs
      <4> QED
        BY <1>3, <3>2, <3>5, <4>5
    <3>10. Reads(l) /\ l \in 0 .. Len(data)
      BY <1>3, <2>2, <3>1, <3>6, <3>7, <3>8, <3>9 DEF Strings
    <3> HIDE DEF Reads
    <3> QED
      BY <3>10
  <2>3. CASE e.rpmtype = "stringArray"
    <3>1. PICK q : Ended(q, n, data)
      BY <1>1, <2>3 DEF Shaped
    <3>2. PICK l \in 0 .. Len(data) : StringsEnd(body, off, n) = off + l /\ off + l <= Len(body)
      BY <1>2, <1>4, <3>1, StringsEndWithin
    <3>3. d = SubSeq(body, off + 1, off + l)
      BY <1>1, <2>3, <3>2 DEF ReadData
    <3>4. ASSUME off + Len(data) <= Len(body), Unbroken(e)
          PROVE  l = IF n = 0 THEN 0 ELSE Len(data)
      <4>1. PICK r : Strung(r, n, data)
        BY <1>1, <2>3, <3>4 DEF Unbroken
      <4>2. StringsEnd(body, off, n) = off + r[n]
        BY <1>2, <1>4, <3>4, <4>1, StringsEndIs
      <4>3. r[n] \in Nat /\ r[n] = IF n = 0 THEN 0 ELSE Len(data)
        BY <1>4, <4>1 DEF Strung, Ended
      <4> QED
        BY <1>3, <3>2, <4>2, <4>3
    <3>5. Reads(l)
      BY <1>3, <2>3, <3>2, <3>3, <3>4 DEF Strings
    <3> HIDE DEF Reads
    <3> QED
      BY <3>5
  <2> QED
    BY <1>4, <2>1, <2>2, <2>3 DEF RpmTypes
<1>6. PICK l \in 0 .. Len(data) : Reads(l)
  BY <1>5
<1>7. /\ d = SubSeq(data, 1, l) /\ d \in Seq(Byte) /\ Len(d) = l
  <2>1. l \in Nat /\ l <= Len(data) /\ off + l <= Len(body) /\ IsPart(d, body, off, l)
    BY <1>3, <1>6 DEF IsPart
  <2>2. IsPart(d, data, 0, l) /\ d \in Seq(Byte) /\ Len(d) = l
    BY ONLY <1>2, <2>1, PartStands
  <2>3. d = SubSeq(data, 0 + 1, 0 + l)
    BY ONLY <2>2, Zenon DEF IsPart
  <2>4. 0 + l = l /\ 0 + 1 = 1
    BY ONLY <2>1
  <2>5. d = SubSeq(data, 1, l)
    BY ONLY <2>3, <2>4, Zenon
  <2> QED
    BY <2>2, <2>5
<1>8. SubSeq(data, 1, Len(data)) = data /\ SubSeq(data, 1, 0) = << >>
  BY <1>3, SubSeqFull
<1>9. AsRead(e).data = IF e.rpmtype = "stringArray" /\ n = 0 THEN << >> ELSE data
  BY <1>1, AsReadIs
<1> QED
  BY <1>1, <1>6, <1>7, <1>8, <1>9

-----------------------------------------------------------------------------
(* The invariant.                                                           *)

\* The types of what the proofs are about.
TypeOK ==
  /\ DOMAIN entries \subseteq Tags
  /\ IsFiniteSet(DOMAIN entries)
  /\ entries \in [DOMAIN entries -> Values]
  /\ h \in Kinds
  /\ pc \in {"add", "entries", "done", "read"}
  /\ todo \subseteq DOMAIN entries
  /\ DOMAIN offsets \subseteq DOMAIN entries
  /\ offsets \in [DOMAIN offsets -> Nat]
  /\ entryData \in Seq(Byte)

\* Bytes works on an index that nobody adds to.
FreshInv == pc = "add" => todo = {} /\ DOMAIN offsets = {} /\ entryData = << >>

\* Bytes goes up the tags.
SortedInv == \A t \in DOMAIN offsets, u \in todo : t < u

\* The store ends with an entry.
TailInv ==
  IF DOMAIN offsets = {}
  THEN entryData = << >>
  ELSE \E t \in DOMAIN offsets : End(t) = Len(entryData)

\* Bytes comes to every tag.
AllInv == pc # "add" => DOMAIN offsets \cup todo = DOMAIN entries

\* What Bytes returned is of the entries and the store they were put into.
ImageInv ==
  pc \in {"done", "read"} =>
    /\ todo = {}
    /\ image.count = Cardinality(DOMAIN entries) + 1
    /\ IsConcat(image.body, entryData, EigenData(h, Cardinality(DOMAIN entries)))
    /\ image.index = [t \in DOMAIN entries |->
                         [rpmtype |-> entries[t].rpmtype,
                          count |-> entries[t].count,
                          offset |-> offsets[t]]]

\* What ReadHeader returned is of the bytes it got.
ReadInv ==
  pc = "read" /\ read.ok =>
    LET body == SubSeq(image.body, 1, read.got)
    IN  /\ read.got \in 0 .. Len(image.body)
        /\ \A t \in DOMAIN image.index : ~TooSmall(image.index[t], body)
        /\ read.entries = [t \in DOMAIN image.index |->
                             Entry(image.index[t].rpmtype, image.index[t].count,
                                   ReadData(image.index[t], body))]

\* The inductive invariant.
IInv ==
  /\ TypeOK /\ FreshInv /\ SortedInv /\ TailInv /\ StoreHolds /\ Layout
  /\ AllInv /\ ImageInv /\ ReadInv

-----------------------------------------------------------------------------
(* Bytes and ReadHeader, step by step.                                      *)

\* pad goes to the next multiple of the boundary, and no further.
LEMMA PadAligns ==
  ASSUME NEW type, NEW offset \in Nat
  PROVE  /\ Boundary(type) \in {1, 2, 4}
         /\ PadLen(type, offset) \in Nat
         /\ PadLen(type, offset) < Boundary(type)
         /\ (offset + PadLen(type, offset)) % Boundary(type) = 0
<1>1. Boundary(type) \in {1, 2, 4}
  BY DEF Boundary
<1>2. CASE Boundary(type) = 1
  BY <1>2 DEF PadLen
<1>3. CASE Boundary(type) = 2
  BY <1>3 DEF PadLen
<1>4. CASE Boundary(type) = 4
  BY <1>4 DEF PadLen
<1>. QED  BY <1>1, <1>2, <1>3, <1>4

\* The padding is a string of zero bytes.
LEMMA ZerosType ==
  ASSUME NEW n \in Nat
  PROVE  Zeros(n) \in Seq(Byte) /\ Len(Zeros(n)) = n
<1>1. Zeros(n) \in Seq(Byte)
  BY IsASeq, \A i \in 1 .. n : 0 \in Byte DEF Zeros, Byte
<1>2. DOMAIN Zeros(n) = 1 .. n
  BY DEF Zeros
<1>. QED  BY <1>1, <1>2, LenProperties

-----------------------------------------------------------------------------
\* One turn of the loop of Bytes, in numbers: the store grows at its end by
\* the padding and the data, and the entry's offset is where its data is.
LEMMA EntryStep ==
  ASSUME IInv, NEW t \in todo, BytesEntry(t)
  PROVE  /\ entries' = entries /\ pc' = pc /\ todo' = todo \ {t}
         /\ t \notin DOMAIN offsets /\ t \in DOMAIN entries
         /\ entries[t].data \in Seq(Byte)
         /\ DOMAIN offsets' = DOMAIN offsets \cup {t}
         /\ offsets'[t] = Len(entryData) + PadLen(entries[t].rpmtype, Len(entryData))
         /\ \A u \in DOMAIN offsets : offsets'[u] = offsets[u]
         /\ entryData' \in Seq(Byte)
         /\ Len(entryData') = offsets'[t] + Len(entries[t].data)
         /\ \A k \in 1 .. Len(entryData) : entryData'[k] = entryData[k]
         /\ \A k \in 1 .. Len(entries[t].data) :
              entryData'[offsets'[t] + k] = entries[t].data[k]
<1> DEFINE n == PadLen(entries[t].rpmtype, Len(entryData))
           padded == entryData \o Zeros(n)
           data == entries[t].data
<1>1. entries' = entries /\ pc' = pc /\ todo' = todo \ {t}
  BY DEF BytesEntry
<1>2. t \notin DOMAIN offsets /\ t \in DOMAIN entries /\ t \in Int
  BY TagsAssumption DEF IInv, TypeOK, SortedInv
<1>3. data \in Seq(Byte) /\ entryData \in Seq(Byte) /\ Len(entryData) \in Nat
  BY <1>2, ValueIs, LenProperties DEF IInv, TypeOK, Shaped
<1>4. n \in Nat
  BY <1>3, PadAligns
<1>5. /\ padded \in Seq(Byte)
      /\ Len(padded) = Len(entryData) + n
      /\ \A k \in 1 .. Len(entryData) : padded[k] = entryData[k]
  BY <1>3, <1>4, ZerosType, ConcatProperties
<1>6. offsets' = Put(offsets, t, Len(padded)) /\ entryData' = padded \o data
  BY DEF BytesEntry
<1> HIDE DEF n, padded, data
<1>7. /\ DOMAIN offsets' = DOMAIN offsets \cup {t}
      /\ offsets'[t] = Len(padded)
      /\ \A u \in DOMAIN offsets : offsets'[u] = offsets[u]
  BY <1>2, <1>6 DEF Put
<1>8. /\ entryData' \in Seq(Byte)
      /\ Len(entryData') = Len(padded) + Len(data)
      /\ \A k \in 1 .. Len(padded) + Len(data) :
           entryData'[k] = IF k <= Len(padded) THEN padded[k] ELSE data[k - Len(padded)]
  BY <1>3, <1>5, <1>6, ConcatProperties
<1>9. Len(data) \in Nat /\ Len(padded) \in Nat
  BY <1>3, <1>5, LenProperties
<1>10. \A k \in 1 .. Len(entryData) : entryData'[k] = entryData[k]
  <2>. SUFFICES ASSUME NEW k \in 1 .. Len(entryData)
                PROVE  entryData'[k] = entryData[k]
    OBVIOUS
  <2>1. k \in 1 .. Len(padded) + Len(data) /\ k <= Len(padded)
    BY <1>3, <1>4, <1>5, <1>9
  <2>. QED  BY <2>1, <1>5, <1>8
<1>11. \A k \in 1 .. Len(data) : entryData'[Len(padded) + k] = data[k]
  <2>. SUFFICES ASSUME NEW k \in 1 .. Len(data)
                PROVE  entryData'[Len(padded) + k] = data[k]
    OBVIOUS
  <2>1. /\ Len(padded) + k \in 1 .. Len(padded) + Len(data)
        /\ ~(Len(padded) + k <= Len(padded))
        /\ (Len(padded) + k) - Len(padded) = k
    BY <1>9
  <2>. QED  BY <2>1, <1>8
<1>12. offsets'[t] = Len(entryData) + n /\ Len(entryData') = offsets'[t] + Len(data)
  BY <1>5, <1>7, <1>8
<1>13. \A k \in 1 .. Len(data) : entryData'[offsets'[t] + k] = data[k]
  BY <1>7, <1>11
<1>. QED  BY <1>1, <1>2, <1>3, <1>7, <1>8, <1>10, <1>12, <1>13 DEF n, data

\* The invariant is inductive: the step that matters is the loop's.
LEMMA EntryKeepsInv ==
  ASSUME IInv, NEW t \in todo, BytesEntry(t)
  PROVE  IInv'
<1> DEFINE b(u) == Boundary(entries[u].rpmtype)
           len == Len(entryData)
           n == PadLen(entries[t].rpmtype, len)
<1>1. /\ entries' = entries /\ pc' = pc /\ todo' = todo \ {t}
      /\ t \notin DOMAIN offsets /\ t \in DOMAIN entries
      /\ entries[t].data \in Seq(Byte)
      /\ DOMAIN offsets' = DOMAIN offsets \cup {t}
      /\ offsets'[t] = len + n
      /\ \A u \in DOMAIN offsets : offsets'[u] = offsets[u]
      /\ entryData' \in Seq(Byte)
      /\ Len(entryData') = offsets'[t] + Len(entries[t].data)
      /\ \A k \in 1 .. len : entryData'[k] = entryData[k]
      /\ \A k \in 1 .. Len(entries[t].data) :
           entryData'[offsets'[t] + k] = entries[t].data[k]
  BY EntryStep
<1>2. /\ TypeOK /\ FreshInv /\ SortedInv /\ TailInv /\ StoreHolds /\ Layout /\ AllInv
      /\ pc = "entries" /\ h' = h /\ \A u \in todo : t <= u
  BY DEF IInv, BytesEntry
<1>3. len \in Nat /\ \A u \in DOMAIN entries : Len(entries[u].data) \in Nat /\ u \in Int
  <2>1. \A u \in DOMAIN entries : entries[u].data \in Seq(Byte)
    BY <1>2, ValueIs DEF TypeOK, Shaped
  <2> QED
    BY <1>2, <2>1, TagsAssumption, LenProperties DEF TypeOK
<1>4. n \in Nat /\ n < b(t) /\ (len + n) % b(t) = 0 /\ b(t) \in {1, 2, 4}
  BY <1>3, PadAligns
<1>5. TypeOK'
  <2>1. offsets' \in [DOMAIN offsets' -> Nat]
    <3>1. offsets' = [x \in DOMAIN offsets' |-> offsets'[x]]
      BY DEF BytesEntry, Put
    <3>2. \A x \in DOMAIN offsets' : offsets'[x] \in Nat
      BY <1>1, <1>2, <1>3, <1>4 DEF TypeOK
    <3>. QED  BY <3>1, <3>2
  <2>. QED  BY <1>1, <1>2, <2>1 DEF TypeOK
<1>6. FreshInv'
  BY <1>1, <1>2 DEF FreshInv
<1>7. SortedInv'
  <2>. SUFFICES ASSUME NEW u \in DOMAIN offsets', NEW v \in todo'
                PROVE  u < v
    BY DEF SortedInv
  <2>1. v \in todo /\ v # t /\ t <= v /\ t \in Int /\ v \in Int
    BY <1>1, <1>2, <1>3 DEF TypeOK
  <2>2. CASE u = t
    BY <2>1, <2>2
  <2>3. CASE u \in DOMAIN offsets
    BY <2>1, <2>3, <1>2 DEF SortedInv
  <2>. QED  BY <1>1, <2>2, <2>3
<1>8. /\ End(t)' = Len(entryData')
      /\ \A u \in DOMAIN offsets : End(u)' = End(u) /\ End(u) \in Nat /\ End(u) <= len
  BY <1>1, <1>2, <1>3 DEF End, StoreHolds, TypeOK
<1>9. TailInv'
  BY <1>1, <1>8 DEF TailInv
<1>10. StoreHolds'
  <2>. SUFFICES ASSUME NEW u \in DOMAIN offsets'
                PROVE  /\ u \in DOMAIN entries
                       /\ End(u)' <= Len(entryData')
                       /\ \A k \in 1 .. Len(entries[u].data) :
                            entryData'[offsets'[u] + k] = entries[u].data[k]
    BY <1>1 DEF StoreHolds
  <2>1. CASE u = t
    BY <2>1, <1>1, <1>3, <1>4 DEF End
  <2>2. CASE u \in DOMAIN offsets
    <3>1. u \in DOMAIN entries /\ offsets[u] \in Nat /\ End(u) <= len
      BY <2>2, <1>2 DEF StoreHolds, TypeOK
    <3>2. End(u)' <= Len(entryData')
      BY <2>2, <3>1, <1>1, <1>3, <1>4, <1>8
    <3>3. ASSUME NEW k \in 1 .. Len(entries[u].data)
          PROVE  entryData'[offsets'[u] + k] = entries[u].data[k]
      <4>1. offsets[u] + k \in 1 .. len
        BY <3>1, <1>3 DEF End
      <4>2. entryData[offsets[u] + k] = entries[u].data[k]
        BY <2>2, <1>2 DEF StoreHolds
      <4>. QED  BY <2>2, <4>1, <4>2, <1>1
    <3>. QED  BY <3>1, <3>2, <3>3
  <2>. QED  BY <1>1, <2>1, <2>2
<1>11. Layout'
  <2>. SUFFICES ASSUME NEW u \in DOMAIN offsets'
                PROVE  /\ offsets'[u] % b(u) = 0
                       /\ \A v \in DOMAIN offsets' : v < u => End(v)' <= offsets'[u]
                       /\ \/ offsets'[u] < b(u)
                          \/ \E v \in DOMAIN offsets' : v < u /\ offsets'[u] < End(v)' + b(u)
    BY <1>1 DEF Layout
  <2>1. \A v \in DOMAIN offsets : v < t /\ v \in Int /\ t \in Int
    BY <1>1, <1>2, <1>3 DEF SortedInv, TypeOK
  <2>2. CASE u = t
    <3>1. \A v \in DOMAIN offsets' : v < t => End(v)' <= offsets'[t]
      <4>. SUFFICES ASSUME NEW v \in DOMAIN offsets', v < t
                    PROVE  End(v)' <= offsets'[t]
        OBVIOUS
      <4>1. v \in DOMAIN offsets
        BY <1>1, <1>3
      <4>. QED  BY <4>1, <1>1, <1>3, <1>4, <1>8
    <3>2. CASE DOMAIN offsets = {}
      <4>1. len = 0
        BY <3>2, <1>2 DEF TailInv
      <4>. QED  BY <4>1, <3>1, <2>2, <1>1, <1>4
    <3>3. CASE DOMAIN offsets # {}
      <4>1. PICK v \in DOMAIN offsets : End(v) = len
        BY <3>3, <1>2 DEF TailInv
      <4>2. v \in DOMAIN offsets' /\ v < t /\ offsets'[t] < End(v)' + b(t)
        BY <4>1, <2>1, <1>1, <1>3, <1>4, <1>8
      <4>. QED  BY <4>2, <3>1, <2>2, <1>1, <1>4
    <3>. QED  BY <3>2, <3>3
  <2>3. CASE u \in DOMAIN offsets
    <3>1. /\ offsets[u] % b(u) = 0
          /\ \A v \in DOMAIN offsets : v < u => End(v) <= offsets[u]
          /\ offsets[u] < b(u) \/ \E v \in DOMAIN offsets : v < u /\ offsets[u] < End(v) + b(u)
      BY <2>3, <1>2 DEF Layout
    <3>2. \A v \in DOMAIN offsets' : v < u => v \in DOMAIN offsets
      BY <2>1, <2>3, <1>1
    <3>. QED  BY <3>1, <3>2, <2>3, <1>1, <1>8
  <2>. QED  BY <1>1, <2>2, <2>3
<1>12. AllInv'
  BY <1>1, <1>2 DEF AllInv
<1>13. ImageInv' /\ ReadInv'
  BY <1>1, <1>2 DEF ImageInv, ReadInv
<1>. QED  BY <1>5, <1>6, <1>7, <1>9, <1>10, <1>11, <1>12, <1>13 DEF IInv

\* The other steps leave the store alone, or empty.
LEMMA StepKeepsInv == IInv /\ [Next]_vars => IInv'
<1>. SUFFICES ASSUME IInv, [Next]_vars
              PROVE  IInv'
  OBVIOUS
<1> DEFINE StoreInv == TypeOK /\ FreshInv /\ SortedInv /\ TailInv /\ StoreHolds /\ Layout
<1>1. ASSUME NEW t \in Tags, NEW e \in Values, Add(t, e)
      PROVE  IInv'
  <2>1. /\ pc = "add" /\ DOMAIN offsets = {} /\ todo = {} /\ entryData = << >>
        /\ TypeOK
    BY <1>1 DEF Add, IInv, FreshInv
  <2>2. /\ entries' = Put(entries, t, e)
        /\ UNCHANGED <<h, pc, todo, offsets, entryData>>
    BY <1>1 DEF Add
  <2>3. DOMAIN entries' \subseteq Tags /\ entries' \in [DOMAIN entries' -> Values]
    BY <2>1, <2>2 DEF Put, TypeOK
  <2>4. IsFiniteSet(DOMAIN entries')
    <3>1. DOMAIN entries' = DOMAIN entries \cup {t}
      BY <2>2 DEF Put
    <3>. QED  BY <2>1, <3>1, FS_AddElement DEF TypeOK
  <2>5. TypeOK'
    BY <2>1, <2>2, <2>3, <2>4 DEF TypeOK
  <2>. QED
    BY <2>1, <2>2, <2>5
    DEF IInv, FreshInv, SortedInv, TailInv, StoreHolds, Layout, AllInv, ImageInv, ReadInv
<1>2. CASE BytesStart
  <2>1. /\ DOMAIN offsets = {} /\ entryData = << >> /\ TypeOK
        /\ pc' = "entries" /\ todo' = DOMAIN entries
        /\ UNCHANGED <<h, entries, offsets, entryData>>
    BY <1>2 DEF BytesStart, IInv, FreshInv
  <2>2. TypeOK'
    BY <2>1 DEF TypeOK
  <2>. QED
    BY <2>1, <2>2
    DEF IInv, FreshInv, SortedInv, TailInv, StoreHolds, Layout, AllInv, ImageInv, ReadInv
<1>3. ASSUME NEW t \in Tags, BytesEntry(t)
      PROVE  IInv'
  <2>1. t \in todo
    BY <1>3 DEF BytesEntry
  <2>. QED  BY <1>3, <2>1, EntryKeepsInv
<1>4. ASSUME UNCHANGED <<h, entries, todo, offsets, entryData>>,
             pc' \in {pc, "done", "read"}
      PROVE  StoreInv'
  BY <1>4
  DEF IInv, TypeOK, FreshInv, SortedInv, TailInv, StoreHolds, Layout, End
<1>5. CASE BytesEnd
  <2> DEFINE n == Cardinality(DOMAIN entries)
             body == entryData \o EigenData(h, n)
             index == [t \in DOMAIN entries |->
                         [rpmtype |-> entries[t].rpmtype,
                          count |-> entries[t].count,
                          offset |-> offsets[t]]]
  <2>1. /\ UNCHANGED <<h, entries, todo, offsets, entryData>> /\ pc = "entries"
        /\ pc' = "done" /\ todo = {}
        /\ image' = [count |-> n + 1, body |-> body,
                     eigen |-> [tag |-> h, offset |-> Len(body) - 16], index |-> index]
    BY <1>5 DEF BytesEnd
  <2>2. image'.count = n + 1 /\ image'.body = body /\ image'.index = index
    BY <2>1
  <2>3. ImageInv'
    BY <2>1, <2>2 DEF ImageInv, IsConcat
  <2>4. AllInv' /\ ReadInv'
    BY <2>1 DEF IInv, AllInv, ReadInv
  <2>. QED  BY <1>4, <2>1, <2>3, <2>4 DEF IInv
<1>6. ASSUME NEW expected \in Kinds, NEW got \in 0 .. Len(image.body),
             ReadHeader(expected, got)
      PROVE  IInv'
  <2>1. /\ UNCHANGED <<h, entries, todo, offsets, entryData, image>>
        /\ pc = "done" /\ pc' = "read"
    BY <1>6 DEF ReadHeader
  <2>2. AllInv' /\ ImageInv'
    BY <2>1 DEF IInv, AllInv, ImageInv
  <2>3. ReadInv'
    <3> DEFINE body == SubSeq(image.body, 1, got)
               index == image.index
               found == [t \in DOMAIN index |->
                          Entry(index[t].rpmtype, index[t].count, ReadData(index[t], body))]
    <3>1. CASE /\ \A t \in DOMAIN index : ~TooSmall(index[t], body)
               /\ read' = [got |-> got, ok |-> TRUE, entries |-> found]
      <4>1. read'.got = got /\ read'.entries = found
        BY <3>1
      <4>. QED  BY <2>1, <3>1, <4>1 DEF ReadInv
    <3>2. CASE read' = [got |-> got, ok |-> FALSE, entries |-> EmptyMap]
      BY <3>2 DEF ReadInv
    <3>. QED  BY <1>6, <3>1, <3>2 DEF ReadHeader
  <2>. QED  BY <1>4, <2>1, <2>2, <2>3 DEF IInv
<1>7. CASE UNCHANGED vars
  <2>1. UNCHANGED <<h, entries, pc, todo, offsets, entryData, image, read>>
    BY <1>7 DEF vars
  <2>2. AllInv' /\ ImageInv' /\ ReadInv'
    BY <2>1 DEF IInv, AllInv, ImageInv, ReadInv
  <2>. QED  BY <1>4, <2>1, <2>2 DEF IInv
<1>. QED  BY <1>1, <1>2, <1>3, <1>5, <1>6, <1>7 DEF Next

\* It holds of a new index ...
LEMMA InitInv == Init => IInv
BY FS_EmptySet
DEF Init, EmptyMap, IInv, TypeOK, FreshInv, SortedInv, TailInv, StoreHolds, Layout,
    AllInv, ImageInv, ReadInv

\* ... and always.
LEMMA InvCorrect == Spec => []IInv
<1>. QED  BY InitInv, StepKeepsInv, PTL DEF Spec

\* Entries are in the order of their tags, apart, integers aligned, and
\* nothing is padded more than that takes (Bytes and pad).
THEOREM LayoutCorrect == Spec => []Layout
<1>1. IInv => Layout
  BY DEF IInv
<1>. QED  BY <1>1, InvCorrect, PTL

\* The offset in the index leads to the data of the entry (Bytes).
THEOREM StoreCorrect == Spec => []StoreHolds
<1>1. IInv => StoreHolds
  BY DEF IInv
<1>. QED  BY <1>1, InvCorrect, PTL

-----------------------------------------------------------------------------
(* What ReadHeader returned, and where seekFile goes.                       *)

\* What ends the store is 16 bytes.
LEMMA EigenIs ==
  ASSUME NEW kind \in Int, NEW n \in Nat
  PROVE  EigenData(kind, n) \in Seq(Byte) /\ Len(EigenData(kind, n)) = 16
<1>1. PICK a, b, c, d : /\ a = Int32Bytes(kind) /\ b = Int32Bytes(7)
                        /\ c = Int32Bytes(-16 * (n + 1)) /\ d = Int32Bytes(16)
  OBVIOUS
<1>2. -16 * (n + 1) \in Int
  OBVIOUS
<1>3. /\ a \in Seq(Byte) /\ Len(a) = 4 /\ b \in Seq(Byte) /\ Len(b) = 4
      /\ c \in Seq(Byte) /\ Len(c) = 4 /\ d \in Seq(Byte) /\ Len(d) = 4
  BY <1>1, <1>2, Int32IsBytes
<1>0. a \in Seq(Byte) /\ b \in Seq(Byte) /\ c \in Seq(Byte) /\ d \in Seq(Byte)
  BY <1>3
<1>4. PICK x : IsConcat(x, a, b)
  BY DEF IsConcat
<1>5. x \in Seq(Byte) /\ Len(x) = 8
  <2>1. x \in Seq(Byte) /\ Len(x) = Len(a) + Len(b)
    BY ONLY <1>0, <1>4, ConcatParts
  <2>. QED  BY <1>3, <2>1
<1>6. PICK y : IsConcat(y, x, c)
  BY DEF IsConcat
<1>7. y \in Seq(Byte) /\ Len(y) = 12
  <2>0. x \in Seq(Byte)
    BY <1>5
  <2>1. y \in Seq(Byte) /\ Len(y) = Len(x) + Len(c)
    BY ONLY <1>0, <2>0, <1>6, ConcatParts
  <2>. QED  BY <1>3, <1>5, <2>1
<1>8. PICK z : IsConcat(z, y, d)
  BY DEF IsConcat
<1>9. z \in Seq(Byte) /\ Len(z) = 16
  <2>0. y \in Seq(Byte)
    BY <1>7
  <2>1. z \in Seq(Byte) /\ Len(z) = Len(y) + Len(d)
    BY ONLY <1>0, <2>0, <1>8, ConcatParts
  <2>. QED  BY <1>3, <1>7, <2>1
<1>10. EigenData(kind, n) = z
  BY ONLY <1>1, <1>4, <1>6, <1>8, Zenon DEF EigenData, IsConcat
<1>. QED  BY <1>9, <1>10

\* The store Bytes returned begins with the entries'.
LEMMA BodyIs ==
  ASSUME IInv, pc \in {"done", "read"}
  PROVE  /\ image.count \in Nat /\ Len(entryData) \in Nat
         /\ image.body \in Seq(Byte) /\ Len(image.body) = Len(entryData) + 16
         /\ \A k \in 1 .. Len(entryData) : image.body[k] = entryData[k]
         /\ DOMAIN offsets = DOMAIN entries
<1>1. PICK n, a, b, c : /\ n = Cardinality(DOMAIN entries) /\ a = entryData
                        /\ b = EigenData(h, n) /\ c = image.body
  OBVIOUS
<1>2. n \in Nat /\ image.count = n + 1 /\ IsConcat(c, a, b)
  BY <1>1, FS_CardinalityType DEF IInv, TypeOK, ImageInv
<1>3. h \in Int /\ a \in Seq(Byte)
  BY <1>1, TagsAssumption DEF IInv, TypeOK
<1>4. b \in Seq(Byte) /\ Len(b) = 16
  BY <1>1, <1>2, <1>3, EigenIs
<1>5. /\ c \in Seq(Byte) /\ Len(c) = Len(a) + Len(b) /\ Len(a) \in Nat
      /\ \A k \in 1 .. Len(a) : c[k] = a[k]
  <2>1. IsConcat(c, a, b) /\ a \in Seq(Byte) /\ b \in Seq(Byte)
    BY <1>2, <1>3, <1>4
  <2>. QED  BY ONLY <2>1, ConcatParts
<1>6. DOMAIN offsets = DOMAIN entries
  BY DEF IInv, AllInv, ImageInv
<1>. QED  BY <1>1, <1>2, <1>4, <1>5, <1>6

\* What ReadHeader makes of an entry: its type and count, and the data's
\* beginning, all of it if the store is there to its end.
LEMMA EntryRead ==
  ASSUME IInv, pc = "read", read.ok, NEW t \in DOMAIN entries, NEW e, e = entries[t]
  PROVE  /\ DOMAIN read.entries = DOMAIN entries
         /\ read.entries[t] = Entry(e.rpmtype, e.count, read.entries[t].data)
         /\ read.entries[t].data \in Seq(Byte)
         /\ read.entries[t].data = SubSeq(e.data, 1, Len(read.entries[t].data))
         /\ e.rpmtype \notin Strings => read.entries[t].data = e.data
         /\ read.got = Len(image.body) /\ Unbroken(e) =>
              read.entries[t].data = AsRead(e).data
<1>1. /\ Len(entryData) \in Nat /\ image.body \in Seq(Byte)
      /\ Len(image.body) = Len(entryData) + 16
      /\ \A k \in 1 .. Len(entryData) : image.body[k] = entryData[k]
      /\ DOMAIN offsets = DOMAIN entries
  BY BodyIs
<1>2. image.index = [u \in DOMAIN entries |->
                       [rpmtype |-> entries[u].rpmtype, count |-> entries[u].count,
                        offset |-> offsets[u]]]
  BY DEF IInv, ImageInv
<1>3. PICK i, got, body : /\ i = image.index[t] /\ got = read.got
                          /\ body = SubSeq(image.body, 1, got)
  OBVIOUS
<1>4. /\ DOMAIN image.index = DOMAIN entries /\ i.rpmtype = e.rpmtype
      /\ i.count = e.count /\ i.offset = offsets[t]
  BY <1>2, <1>3
<1>5. /\ got \in 0 .. Len(image.body) /\ ~TooSmall(i, body)
      /\ read.entries = [u \in DOMAIN image.index |->
                           Entry(image.index[u].rpmtype, image.index[u].count,
                                 ReadData(image.index[u], body))]
  BY <1>3, <1>4 DEF IInv, ReadInv
<1>6. PICK d : d = ReadData(i, body)
  OBVIOUS
<1>7. DOMAIN read.entries = DOMAIN entries /\ read.entries[t] = Entry(e.rpmtype, e.count, d)
  BY <1>3, <1>4, <1>5, <1>6
<1>8. Shaped(e)
  BY ValueIs DEF IInv, TypeOK
<1>9. body \in Seq(Byte) /\ Len(body) = got /\ \A k \in 1 .. got : body[k] = image.body[k]
  <2>1. IsPart(body, image.body, 0, got)
    <3>1. 0 + 1 = 1 /\ 0 + got = got
      BY <1>1, <1>5
    <3>. QED  BY ONLY <1>3, <3>1, Zenon DEF IsPart
  <2>2. got \in Nat /\ 0 \in Nat /\ 0 + got <= Len(image.body)
    BY <1>1, <1>5
  <2>3. body \in Seq(Byte) /\ Len(body) = got /\ \A k \in 1 .. got : body[k] = image.body[0 + k]
    BY ONLY <1>1, <2>1, <2>2, Between
  <2>. QED  BY <2>3
<1>10. PICK off, data : off = offsets[t] /\ data = e.data
  OBVIOUS
<1>11. /\ off \in Nat /\ data \in Seq(Byte) /\ Len(data) \in Nat
       /\ off + Len(data) <= Len(entryData)
       /\ \A k \in 1 .. Len(data) : entryData[off + k] = data[k]
  BY <1>1, <1>8, <1>10 DEF IInv, TypeOK, StoreHolds, End, Shaped
<1>12. off <= Len(body)
  <2>1. e.count \in Nat /\ EntrySize(e.rpmtype) \in {1, 2, 4}
    BY <1>8 DEF Shaped, EntrySize
  <2>2. EntrySize(e.rpmtype) * e.count >= 0
    BY <2>1
  <2>3. EntrySize(e.rpmtype) * e.count \in Int
    BY <2>1
  <2>4. Len(body) >= off + EntrySize(e.rpmtype) * e.count
    BY <1>4, <1>5, <1>9, <1>10, <1>11, <2>3 DEF TooSmall
  <2>. QED  BY <1>9, <1>11, <2>2, <2>3, <2>4
<1>13. ASSUME NEW k \in 1 .. Len(data), off + k <= Len(body) PROVE body[off + k] = data[k]
  <2>1. off + k \in 1 .. got /\ off + k \in 1 .. Len(entryData)
    BY <1>9, <1>11, <1>13
  <2>. QED  BY <1>1, <1>9, <1>11, <2>1
<1>14. Stands(body, i.offset, e.data)
  BY <1>4, <1>9, <1>10, <1>11, <1>12, <1>13 DEF Stands
<1>15. /\ d \in Seq(Byte) /\ d = SubSeq(e.data, 1, Len(d))
       /\ e.rpmtype \notin Strings => d = e.data
       /\ i.offset + Len(e.data) <= Len(body) /\ Unbroken(e) => d = AsRead(e).data
  BY ONLY <1>4, <1>5, <1>6, <1>8, <1>14, ReadDataIs
<1>16. got = Len(image.body) => i.offset + Len(e.data) <= Len(body)
  BY <1>1, <1>4, <1>9, <1>10, <1>11
<1>17. read.entries[t].data = d
  BY <1>7 DEF Entry
<1>. QED  BY <1>3, <1>7, <1>15, <1>16, <1>17

\* One without a NUL inside a string is read whole.
LEMMA PlainRead ==
  ASSUME IInv, pc = "read", read.ok, read.got = Len(image.body), NEW t \in Plain
  PROVE  /\ t \in DOMAIN read.entries /\ read.entries[t] = AsRead(entries[t])
         /\ entries[t] \in {Converted(read.entries[t]), AsRead(Converted(read.entries[t]))}
<1>1. PICK e : e = entries[t]
  OBVIOUS
<1>2. /\ Shaped(e) /\ Unbroken(e) /\ t \in DOMAIN entries
      /\ e \in {Converted(AsRead(e)), AsRead(Converted(AsRead(e)))}
  BY <1>1, PlainIs DEF Plain
<1>3. /\ DOMAIN read.entries = DOMAIN entries
      /\ read.entries[t] = Entry(e.rpmtype, e.count, read.entries[t].data)
      /\ read.entries[t].data = AsRead(e).data
  BY <1>1, <1>2, EntryRead
<1>4. AsRead(e) = Entry(e.rpmtype, e.count, AsRead(e).data)
  BY <1>2, AsReadIs
<1>. QED  BY <1>1, <1>2, <1>3, <1>4

\* A header that is there to its end is read back as it was: its entries with
\* their types, counts and data (Bytes, ReadHeader).
THEOREM ReadsBackCorrect == Spec => []ReadsBack
<1>1. IInv => ReadsBack
  BY PlainRead DEF ReadsBack
<1>. QED  BY <1>1, InvCorrect, PTL

\* The Go values taken out of a header that was read make the entries it was
\* written with (EntryInt16 ... and toInt16Array ...).
THEOREM ConvertsCorrect == Spec => []ConvertsBack
<1>1. IInv => ConvertsBack
  BY PlainRead DEF ConvertsBack, Converted
<1>. QED  BY <1>1, InvCorrect, PTL

\* A header cut short is refused or loses nothing but the ends of strings
\* (readIndexEntry).
THEOREM CutCorrect == Spec => []CutReads
<1>1. ASSUME IInv, pc = "read", read.ok PROVE DOMAIN read.entries = DOMAIN entries
  BY <1>1 DEF IInv, ReadInv, ImageInv
<1>2. ASSUME IInv, pc = "read", read.ok, NEW t \in DOMAIN entries
      PROVE  /\ read.entries[t].data = SubSeq(entries[t].data, 1, Len(read.entries[t].data))
             /\ entries[t].rpmtype \notin Strings => read.entries[t].data = entries[t].data
  BY <1>2, EntryRead
<1>3. IInv => CutReads
  BY <1>1, <1>2 DEF CutReads
<1>. QED  BY <1>3, InvCorrect, PTL

\* Of seekFile: from the end of the signatures to the next multiple of 8, if
\* that is not nearer than half way.
LEMMA SeekIs ==
  ASSUME NEW x \in Nat
  PROVE  /\ SeekFile(96 + x) \in {96 + Padded(x), -1}
         /\ x % 4 = 0 => SeekFile(96 + x) # -1
<1>1. PICK r \in 0 .. 7, y \in Nat : r = x % 8 /\ y = x \div 8
  OBVIOUS
<1>2. x = 8 * y + r
  BY <1>1
<1>3. (96 + x) % 8 = r /\ (96 + x) \div 8 = 12 + y
  BY <1>2
<1>4. Padded(x) = x + ((8 - r) % 8)
  BY <1>1 DEF Padded
<1>5. SeekFile(96 + x) = IF r = 0 \/ 96 + x + r = (12 + y) * 8 + 8 THEN 96 + x + r ELSE -1
  BY <1>3 DEF SeekFile
<1>6. 96 + x + r = (12 + y) * 8 + 8 <=> r = 4
  BY <1>2
<1>7. r = 0 => (8 - r) % 8 = r
  OBVIOUS
<1>8. r = 4 => (8 - r) % 8 = r
  OBVIOUS
<1>9. x % 4 = 0 => r = 0 \/ r = 4
  BY <1>2
<1>. QED  BY <1>4, <1>5, <1>6, <1>7, <1>8, <1>9

\* seekFile finds the header behind the signatures, or gives up; it does not
\* give up when an int32 is the last of them (Write, seekFile).
THEOREM SeekCorrect == Spec => []SeekFinds
<1>1. ASSUME IInv, pc = "done"
      PROVE  /\ HeaderLen \in Nat
             /\ HeaderLen % 4 = Len(entryData) % 4
  <2>1. /\ image.count \in Nat /\ Len(entryData) \in Nat
        /\ Len(image.body) = Len(entryData) + 16
    BY <1>1, BodyIs
  <2>2. PICK c \in Nat, l \in Nat : c = image.count /\ l = Len(entryData)
    BY <2>1
  <2>3. HeaderLen = 16 + 16 * c + (l + 16)
    BY <2>1, <2>2 DEF HeaderLen
  <2>4. (16 + 16 * c + (l + 16)) % 4 = l % 4
    OBVIOUS
  <2>. QED  BY <2>2, <2>3, <2>4
<1>2. ASSUME IInv, pc = "done", NEW t \in DOMAIN entries, entries[t].rpmtype = "int32",
             \A u \in DOMAIN entries : u <= t
      PROVE  Len(entryData) % 4 = 0
  <2>1. Len(entryData) \in Nat /\ DOMAIN offsets = DOMAIN entries
    BY <1>2, BodyIs
  <2>2. \A u \in DOMAIN entries : /\ entries[u].data \in Seq(Byte) /\ offsets[u] \in Nat
                                  /\ u \in Int
    BY <1>2, <2>1, ValueIs, TagsAssumption DEF IInv, TypeOK, Shaped
  <2>3. PICK n \in Nat : n = entries[t].count /\ Len(entries[t].data) = 4 * n
    BY <1>2, ValueIs DEF IInv, TypeOK, Shaped
  <2>4. PICK v \in DOMAIN offsets : End(v) = Len(entryData)
    BY <1>2, <2>1 DEF IInv, TailInv
  <2>5. /\ offsets[t] % 4 = 0 /\ \A u \in DOMAIN offsets : u < t => End(u) <= offsets[t]
        /\ End(t) <= Len(entryData)
    BY <1>2, <2>1 DEF IInv, Layout, Boundary, StoreHolds
  <2>6. PICK o \in Nat : o = offsets[t]
    BY <2>2
  <2>7. End(t) = o + 4 * n
    BY <2>3, <2>6 DEF End
  <2>8. v = t \/ v < t
    BY <1>2, <2>1, <2>2, <2>4
  <2>9. Len(entryData) = o + 4 * n
    BY <2>1, <2>3, <2>4, <2>5, <2>6, <2>7, <2>8
  <2>10. (o + 4 * n) % 4 = 0
    BY <2>5, <2>6
  <2>. QED  BY <2>9, <2>10
<1>3. IInv => SeekFinds
  BY <1>1, <1>2, SeekIs DEF SeekFinds
<1>. QED  BY <1>3, InvCorrect, PTL
=============================================================================
