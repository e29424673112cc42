------------------------- MODULE ObjectBytesProofs -------------------------
(***************************************************************************)
(* Proofs about ObjectBytes and the modules it is made of: ChunkedUpload   *)
(* stores a whole body or nothing (UploadContract), a failed request       *)
(* leaves nothing behind that the code could have removed, and every GET,  *)
(* whatever the sizes of documents, windows and reads, serves the bytes    *)
(* that the client who stored the object meant.                            *)
(*                                                                         *)
(* The argument: the rows of an object, of a part and of an upload under   *)
(* way lay out a body without a gap (LaidOut), so the recursive reads of   *)
(* RangeRead return slices of it.  What they return is shown by induction  *)
(* on the bytes left, through the least counterexample (LeastNumber).      *)
(***************************************************************************)
EXTENDS ObjectBytes, SequenceLemmas, FiniteSetTheorems

----------------------------------------------------------------------------
(* The data                                                                *)

\* A byte; which numbers they are plays no part.
Byte == Nat

\* A row of a chunk map.
Chunks == [id : Nat, offset : Nat, size : Nat \ {0}]

----------------------------------------------------------------------------
(* The size of a chunk map                                                 *)

\* The sums of the first sizes.
IsSum(f, z, n) == f[0] = 0 /\ \A i \in 1..n : f[i] = f[i - 1] + z[i]

\* The sizes of rows.
SizesOf(rows) == [i \in 1..Len(rows) |-> rows[i].size]

\* Sizes have sums, which are numbers.
LEMMA Sums ==
  ASSUME NEW n \in Nat, NEW z \in [1..n -> Nat]
  PROVE  \E f \in [Nat -> Nat] : IsSum(f, z, n)
<1> DEFINE G == [i \in Nat |-> [x \in Nat |-> IF i \in 1..n THEN x + z[i] ELSE x]]
<1>1. G \in [Nat -> [Nat -> Nat]]
  OBVIOUS
<1>2. \A i \in 1..n, x \in Nat : G[i][x] = x + z[i]
  OBVIOUS
<1> HIDE DEF G
<1>3. PICK f \in [Nat -> Nat] : Solves(f, G, 0, n)
  BY <1>1, Recursion
<1>4. ASSUME NEW i \in 1..n
      PROVE  f[i] = f[i - 1] + z[i]
  <2>1. f[i] = G[i][f[i - 1]]
    BY <1>3, Zenon DEF Solves
  <2>2. i - 1 \in Nat /\ f[i - 1] \in Nat
    OBVIOUS
  <2> QED BY <1>2, <2>1, <2>2
<1> QED BY <1>3, <1>4 DEF IsSum, Solves

\* They are unique.
LEMMA SameSum ==
  ASSUME NEW n \in Nat, NEW z, NEW f, NEW g, IsSum(f, z, n), IsSum(g, z, n)
  PROVE  f[n] = g[n]
<1> DEFINE T == {k \in Nat : k <= n => f[k] = g[k]}
<1>1. 0 \in T
  BY DEF IsSum
<1>2. ASSUME NEW k \in Nat, k \in T
      PROVE  k + 1 \in T
  <2>1. ASSUME k + 1 <= n
        PROVE  f[k + 1] = g[k + 1]
    <3>1. k + 1 \in 1..n /\ k + 1 - 1 = k /\ f[k] = g[k]
      BY <1>2, <2>1
    <3>2. f[k + 1] = f[k + 1 - 1] + z[k + 1] /\ g[k + 1] = g[k + 1 - 1] + z[k + 1]
      BY <3>1 DEF IsSum
    <3> QED BY <3>1, <3>2
  <2> QED BY <2>1
<1> HIDE DEF T
<1>3. n \in T
  BY <1>1, <1>2, Inductive
<1> QED BY <1>3 DEF T

\* The sizes of a chunk map are numbers.
LEMMA SizesType ==
  ASSUME NEW rows \in Seq(Chunks)
  PROVE  /\ Len(rows) \in Nat
         /\ SizesOf(rows) \in [1..Len(rows) -> Nat]
         /\ \A i \in 1..Len(rows) : rows[i] \in Chunks /\ rows[i].size \in Nat \ {0}
<1> DEFINE n == Len(rows)
<1>1. n \in Nat /\ \A i \in 1..n : rows[i] \in Chunks
  BY ElementOfSeq, LenProperties
<1> HIDE DEF n
<1>2. \A c \in Chunks : c.size \in Nat \ {0}
  BY DEF Chunks
<1>3. \A i \in 1..n : rows[i].size \in Nat \ {0}
  BY <1>1, <1>2, Zenon
<1>4. \A k \in Nat \ {0} : k \in Nat
  OBVIOUS
<1>5. \A i \in 1..n : rows[i].size \in Nat
  BY <1>3, <1>4, Zenon
<1>6. [i \in 1..n |-> rows[i].size] \in [1..n -> Nat]
  BY <1>5, Zenon
<1> QED BY <1>1, <1>3, <1>6, Zenon DEF n, SizesOf

\* SizeOf is the last sum.
LEMMA SizeValue ==
  ASSUME NEW rows \in Seq(Chunks), NEW f \in [Nat -> Nat],
         IsSum(f, SizesOf(rows), Len(rows))
  PROVE  SizeOf(rows) = f[Len(rows)]
<1> DEFINE n == Len(rows)
           z == SizesOf(rows)
           g == CHOOSE h : h = [i \in 0..n |-> IF i = 0 THEN 0 ELSE h[i - 1] + rows[i].size]
<1>1. n \in Nat /\ \A i \in 1..n : z[i] = rows[i].size
  BY SizesType DEF SizesOf
<1>2. \E h : h = [i \in 0..n |-> IF i = 0 THEN 0 ELSE h[i - 1] + rows[i].size]
  <2> HIDE DEF n, z
  <2> DEFINE h == [i \in 0..n |-> f[i]]
  <2>1. ASSUME NEW i \in 0..n
        PROVE  f[i] = IF i = 0 THEN 0 ELSE h[i - 1] + rows[i].size
    <3>1. i # 0 => i - 1 \in 0..n /\ i \in 1..n
      BY <1>1
    <3>2. i # 0 => h[i - 1] = f[i - 1]
      BY <3>1
    <3> HIDE DEF h
    <3>3. i # 0 => z[i] = rows[i].size
      BY <1>1, <3>1
    <3>4. f[0] = 0 /\ (i # 0 => f[i] = f[i - 1] + z[i])
      BY <3>1 DEF IsSum, n, z
    <3> QED BY <3>2, <3>3, <3>4
  <2>2. h = [i \in 0..n |-> IF i = 0 THEN 0 ELSE h[i - 1] + rows[i].size]
    BY <2>1, Zenon
  <2> HIDE DEF h
  <2> QED BY <2>2
<1>3. g = [i \in 0..n |-> IF i = 0 THEN 0 ELSE g[i - 1] + rows[i].size]
  BY <1>2, Zenon
<1>4. SizeOf(rows) = g[n]
  BY DEF SizeOf
<1> HIDE DEF g, n, z
<1>5. 0 \in 0..n /\ \A i \in 1..n : i \in 0..n /\ i # 0
  BY <1>1
<1>6. g[0] = 0 /\ \A i \in 1..n : g[i] = g[i - 1] + rows[i].size
  BY <1>3, <1>5, Zenon
<1>7. IsSum(g, z, n)
  BY <1>1, <1>6, Zenon DEF IsSum
<1>8. IsSum(f, z, n)
  BY DEF n, z
<1>9. g[n] = f[n]
  BY <1>1, <1>7, <1>8, SameSum
<1> QED BY <1>4, <1>9 DEF n

\* Rows of the same sizes have the same size.
LEMMA SameSize ==
  ASSUME NEW rows \in Seq(Chunks), NEW rows2 \in Seq(Chunks),
         Len(rows) = Len(rows2), SizesOf(rows) = SizesOf(rows2)
  PROVE  SizeOf(rows) = SizeOf(rows2)
<1>1. PICK f \in [Nat -> Nat] : IsSum(f, SizesOf(rows), Len(rows))
  BY SizesType, Sums
<1> QED BY <1>1, SizeValue

\* The size of no row, and of one more.
LEMMA SizeAppend ==
  ASSUME NEW s \in Seq(Chunks), NEW r \in Chunks
  PROVE  /\ SizeOf(s) \in Nat
         /\ SizeOf(Append(s, r)) = SizeOf(s) + r.size
<1> DEFINE t == Append(s, r)
           n == Len(s)
           y == SizesOf(s)
           z == SizesOf(t)
<1>1. n \in Nat /\ y \in [1..n -> Nat]
  BY SizesType
<1>2. t \in Seq(Chunks) /\ Len(t) = n + 1 /\ (\A i \in 1..n : t[i] = s[i]) /\ t[n + 1] = r
  BY Appended
<1>3. z \in [1..n + 1 -> Nat]
  BY <1>2, SizesType
<1>4. z[n + 1] = r.size /\ \A i \in 1..n : z[i] = y[i]
  <2> HIDE DEF t
  <2>1. \A i \in 1..n + 1 : z[i] = t[i].size
    BY <1>2 DEF SizesOf
  <2>2. \A i \in 1..n : y[i] = s[i].size
    BY DEF SizesOf
  <2> HIDE DEF y, z, n
  <2>3. n + 1 \in 1..n + 1 /\ \A i \in 1..n : i \in 1..n + 1
    BY <1>1
  <2> QED BY <1>2, <2>1, <2>2, <2>3, Zenon
<1> HIDE DEF z, y
<1>5. PICK f \in [Nat -> Nat] : IsSum(f, y, n)
  BY <1>1, Sums
<1>6. n + 1 \in Nat
  BY <1>1
<1>7. PICK g \in [Nat -> Nat] : IsSum(g, z, n + 1)
  <2> DEFINE m == n + 1
  <2> HIDE DEF m
  <2>1. m \in Nat /\ z \in [1..m -> Nat]
    BY <1>3, <1>6 DEF m
  <2>2. \E g \in [Nat -> Nat] : IsSum(g, z, m)
    BY <2>1, Sums
  <2> QED BY <2>2 DEF m
<1>8. SizeOf(s) = f[n]
  BY <1>5, SizeValue DEF y
<1>9. SizeOf(t) = g[n + 1]
  <2> HIDE DEF t
  <2> QED BY <1>2, <1>7, SizeValue DEF z
<1> HIDE DEF t, n
<1>10. \A i \in 1..n + 1 : g[i] = g[i - 1] + z[i]
  BY <1>7 DEF IsSum
<1>11. g[n + 1] = g[n] + r.size
  <2>1. PICK m \in 1..n + 1 : m = n + 1 /\ m - 1 = n
    BY <1>1
  <2>2. g[m] = g[m - 1] + z[m]
    BY <1>10, Zenon
  <2> QED BY <1>4, <2>1, <2>2, Zenon
<1>12. IsSum(g, y, n)
  <2>1. \A i \in 1..n : i \in 1..n + 1
    BY <1>1
  <2>2. \A i \in 1..n : g[i] = g[i - 1] + y[i]
    BY <1>4, <1>10, <2>1, Zenon
  <2>3. g[0] = 0
    BY <1>7 DEF IsSum
  <2> QED BY <2>2, <2>3 DEF IsSum
<1>13. f[n] = g[n]
  BY <1>1, <1>5, <1>12, SameSum
<1>14. f[n] \in Nat
  BY <1>1
<1> QED BY <1>8, <1>9, <1>11, <1>13, <1>14 DEF t

\* It is a number.
LEMMA SizeType ==
  ASSUME NEW rows \in Seq(Chunks)
  PROVE  SizeOf(rows) \in Nat
<1>1. [id |-> 0, offset |-> 0, size |-> 1] \in Chunks
  BY DEF Chunks
<1> QED BY <1>1, SizeAppend

\* An empty chunk map has no size.
LEMMA SizeEmpty == SizeOf(<<>>) = 0
<1> DEFINE e == <<>>
           f == [i \in Nat |-> 0]
<1>1. e \in Seq(Chunks) /\ Len(e) = 0
  BY EmptySeq
<1>2. f \in [Nat -> Nat] /\ f[0] = 0 /\ \A z : IsSum(f, z, 0)
  BY DEF IsSum
<1> HIDE DEF e, f
<1>3. IsSum(f, SizesOf(e), Len(e))
  BY <1>1, <1>2
<1>4. SizeOf(e) = f[Len(e)]
  BY <1>1, <1>2, <1>3, SizeValue
<1> QED BY <1>1, <1>2, <1>4 DEF e

----------------------------------------------------------------------------
(* Parts of a sequence                                                     *)

\* The elements of s from offset a up to b.
Part(s, a, b) == SubSeq(s, a + 1, b)

\* The first n elements of p are those of s from offset a on.
Lies(p, s, a, n) == \A i \in 1..n : p[i] = s[a + i]

\* What they are.
LEMMA PartType ==
  ASSUME NEW S, NEW s \in Seq(S), NEW a \in Nat, NEW b \in Nat, a <= b, b <= Len(s)
  PROVE  /\ Part(s, a, b) \in Seq(S)
         /\ Len(Part(s, a, b)) = b - a
         /\ Lies(Part(s, a, b), s, a, b - a)
<1>1. \A i \in a + 1..b : s[i] \in S
  BY ElementOfSeq
<1>2. a + 1 \in Int /\ b \in Int
  OBVIOUS
<1>3. /\ SubSeq(s, a + 1, b) \in Seq(S)
      /\ Len(SubSeq(s, a + 1, b)) = IF a + 1 <= b THEN b - (a + 1) + 1 ELSE 0
      /\ \A i \in 1..b - (a + 1) + 1 : SubSeq(s, a + 1, b)[i] = s[a + 1 + i - 1]
  BY <1>1, <1>2, SubSeqProperties
<1>4. b - (a + 1) + 1 = b - a /\ (a + 1 <= b \/ b - a = 0) /\ \A i \in 1..b - a : a + 1 + i - 1 = a + i
  OBVIOUS
<1> QED BY <1>3, <1>4 DEF Part, Lies

\* A part is known by its length and elements.
LEMMA PartIs ==
  ASSUME NEW S, NEW s \in Seq(S), NEW a \in Nat, NEW b \in Nat, a <= b, b <= Len(s),
         NEW t \in Seq(S), Len(t) = b - a, Lies(t, s, a, b - a)
  PROVE  t = Part(s, a, b)
<1> DEFINE p == Part(s, a, b)
<1>1. p \in Seq(S) /\ Len(p) = b - a /\ Lies(p, s, a, b - a)
  BY PartType
<1> HIDE DEF p
<1>2. t = p
  BY <1>1, SeqEqual DEF Lies
<1> QED BY <1>2 DEF p

\* Nothing lies between an offset and an earlier one.
LEMMA PartEmpty ==
  ASSUME NEW s, NEW a \in Int, NEW b \in Int, b <= a
  PROVE  Part(s, a, b) = <<>>
BY SubSeqEmpty DEF Part

\* The whole.
LEMMA PartFull ==
  ASSUME NEW S, NEW s \in Seq(S)
  PROVE  Part(s, 0, Len(s)) = s
BY SubSeqFull DEF Part

\* Two parts that meet.
LEMMA PartJoin ==
  ASSUME NEW S, NEW s \in Seq(S), NEW a \in Nat, NEW b \in Nat, NEW c \in Nat,
         a <= b, b <= c, c <= Len(s)
  PROVE  Part(s, a, b) \o Part(s, b, c) = Part(s, a, c)
<1> DEFINE m == a + 1
<1>1. Len(s) \in Nat
  OBVIOUS
<1>2. m \in 1..Len(s) + 1 /\ b \in m - 1..Len(s) /\ c \in b..Len(s)
  BY <1>1
<1> HIDE DEF m
<1>3. SubSeq(s, m, b) \o SubSeq(s, b + 1, c) = SubSeq(s, m, c)
  BY <1>2, ConcatAdjacentSubSeq
<1> QED BY <1>3 DEF m, Part

\* A part of a part.
LEMMA PartPart ==
  ASSUME NEW S, NEW s \in Seq(S), NEW a \in Nat, NEW b \in Nat, a <= b, b <= Len(s),
         NEW x \in Nat, NEW y \in Nat, x <= y, y <= b - a
  PROVE  Part(Part(s, a, b), x, y) = Part(s, a + x, a + y)
<1> DEFINE p == Part(s, a, b)
           q == Part(p, x, y)
<1>1. p \in Seq(S) /\ Len(p) = b - a /\ Lies(p, s, a, b - a)
  BY PartType
<1> HIDE DEF p
<1>2. y <= Len(p)
  BY <1>1
<1>3. q \in Seq(S) /\ Len(q) = y - x /\ Lies(q, p, x, y - x)
  BY <1>1, <1>2, PartType
<1> HIDE DEF q
<1>4. \A i \in 1..y - x : x + i \in 1..b - a /\ a + (x + i) = a + x + i
  OBVIOUS
<1>5. Lies(q, s, a + x, y - x)
  BY <1>1, <1>3, <1>4 DEF Lies
<1> DEFINE c == a + x
           d == a + y
<1>6. c \in Nat /\ d \in Nat /\ c <= d /\ d <= Len(s) /\ d - c = y - x /\ Lies(q, s, c, y - x)
  BY <1>5
<1> HIDE DEF c, d
<1>7. q = Part(s, c, d)
  BY <1>3, <1>6, PartIs
<1> QED BY <1>7 DEF p, q, c, d

\* A part of the first of two sequences, and of the second.
LEMMA PartConcat ==
  ASSUME NEW S, NEW s \in Seq(S), NEW t \in Seq(S), NEW x \in Nat, NEW y \in Nat, x <= y
  PROVE  /\ y <= Len(s) => Part(s \o t, x, y) = Part(s, x, y)
         /\ y <= Len(t) => Part(s \o t, Len(s) + x, Len(s) + y) = Part(t, x, y)
<1> DEFINE u == s \o t
           m == Len(s)
           n == Len(t)
<1>1. /\ u \in Seq(S) /\ Len(u) = m + n
      /\ \A i \in 1..m + n : u[i] = IF i <= m THEN s[i] ELSE t[i - m]
  BY ConcatProperties
<1>2. m \in Nat /\ n \in Nat
  OBVIOUS
<1> HIDE DEF u
<1>3. ASSUME y <= m
      PROVE  Part(u, x, y) = Part(s, x, y)
  <2> DEFINE p == Part(u, x, y)
  <2>1. y <= Len(u)
    BY <1>1, <1>2, <1>3
  <2>2. p \in Seq(S) /\ Len(p) = y - x /\ Lies(p, u, x, y - x)
    BY <1>1, <2>1, PartType
  <2> HIDE DEF p
  <2>3. \A i \in 1..m : u[i] = s[i]
    <3> HIDE DEF m, n
    <3>1. \A i \in 1..m : i \in 1..m + n /\ i <= m
      BY <1>2
    <3> QED BY <1>1, <3>1
  <2>4. \A i \in 1..y - x : x + i \in 1..m
    BY <1>2, <1>3
  <2>5. Lies(p, s, x, y - x)
    <3> HIDE DEF m, n
    <3> QED BY <2>2, <2>3, <2>4, Zenon DEF Lies
  <2>6. p = Part(s, x, y)
    BY <1>3, <2>2, <2>5, PartIs
  <2> QED BY <2>6 DEF p
<1>4. ASSUME y <= n
      PROVE  Part(u, m + x, m + y) = Part(t, x, y)
  <2> DEFINE a == m + x
             b == m + y
             p == Part(u, a, b)
  <2>1. a \in Nat /\ b \in Nat /\ a <= b /\ b <= Len(u) /\ b - a = y - x
    BY <1>1, <1>2, <1>4
  <2> HIDE DEF a, b
  <2>2. p \in Seq(S) /\ Len(p) = y - x /\ Lies(p, u, a, y - x)
    BY <1>1, <2>1, PartType
  <2> HIDE DEF p
  <2>3. \A i \in 1..y - x : u[a + i] = t[x + i]
    <3> HIDE DEF m, n
    <3>1. \A i \in 1..y - x : a + i \in 1..m + n /\ ~(a + i <= m) /\ (a + i) - m = x + i
      BY <1>2, <1>4 DEF a
    <3> QED BY <1>1, <3>1, Zenon
  <2>4. Lies(p, t, x, y - x)
    <3> HIDE DEF m, n
    <3> QED BY <2>2, <2>3, Zenon DEF Lies
  <2>5. p = Part(t, x, y)
    BY <1>4, <2>2, <2>4, PartIs
  <2> QED BY <2>5 DEF p, a, b
<1> QED BY <1>3, <1>4 DEF u

\* The lesser and the greater of two numbers.
LEMMA MinMax ==
  ASSUME NEW a \in Int, NEW b \in Int
  PROVE  /\ Min({a, b}) = IF a <= b THEN a ELSE b
         /\ Max({a, b}) = IF a >= b THEN a ELSE b
<1>1. \A x \in {a, b} : (\A y \in {a, b} : x <= y) <=> x = IF a <= b THEN a ELSE b
  OBVIOUS
<1>2. \A x \in {a, b} : (\A y \in {a, b} : x >= y) <=> x = IF a >= b THEN a ELSE b
  OBVIOUS
<1>3. (IF a <= b THEN a ELSE b) \in {a, b} /\ (IF a >= b THEN a ELSE b) \in {a, b}
  OBVIOUS
<1> QED BY <1>1, <1>2, <1>3 DEF Min, Max

\* The slice of a sequence.
LEMMA SliceValue ==
  ASSUME NEW S, NEW s \in Seq(S), NEW lo \in Nat, NEW hi \in Int
  PROVE  /\ hi <= Len(s) => Slice(s, lo, hi) = Part(s, lo, hi)
         /\ hi >= Len(s) => Slice(s, lo, hi) = Part(s, lo, Len(s))
         /\ Slice(s, lo, hi) \in Seq(S)
<1>1. Len(s) \in Nat
  OBVIOUS
<1>2. Min({hi, Len(s)}) = IF hi <= Len(s) THEN hi ELSE Len(s)
  BY <1>1, MinMax
<1>3. ASSUME NEW h \in Int, h <= Len(s)
      PROVE  Part(s, lo, h) \in Seq(S)
  <2>1. CASE lo <= h
    BY <1>3, <2>1, PartType
  <2>2. CASE h < lo
    <3>1. <<>> \in Seq(S)
      BY EmptySeq
    <3>2. Part(s, lo, h) = <<>>
      BY <2>2, PartEmpty
    <3> QED BY <3>1, <3>2
  <2> QED BY <2>1, <2>2
<1> DEFINE k == Min({hi, Len(s)})
<1>4. Slice(s, lo, hi) = Part(s, lo, k)
  BY DEF Slice, Part
<1>5. k \in Int /\ k <= Len(s) /\ (hi <= Len(s) => k = hi) /\ (hi >= Len(s) => k = Len(s))
  BY <1>1, <1>2
<1> HIDE DEF k
<1> QED BY <1>3, <1>4, <1>5

----------------------------------------------------------------------------
(* Aligned Telegram reads                                                  *)

\* The beginning of the unit, or of the window, that holds an offset.
LEMMA Aligned ==
  ASSUME NEW a \in Nat, NEW b \in Nat \ {0}
  PROVE  a - (a % b) \in 0..a
<1>1. a = b * (a \div b) + (a % b) /\ a % b \in 0..b - 1 /\ a \div b \in Nat
  OBVIOUS
<1>2. b * (a \div b) >= 0
  <2> DEFINE q == a \div b
  <2>1. q \in Nat
    BY <1>1
  <2> HIDE DEF q
  <2>2. b * q \in Nat
    BY <2>1
  <2> QED BY <2>2 DEF q
<1> QED BY <1>1, <1>2

\* What pull makes of the units from cur on, given the ones after.
Pull(f, data, end, cur) ==
  IF cur >= end THEN <<>> ELSE AndOn(getFile(data, cur), f[cur + DownloadUnit])

\* pull has a value at every offset.
LEMMA Pulls ==
  ASSUME NEW data \in Seq(Byte), NEW end \in Nat, DownloadUnit \in Nat \ {0}
  PROVE  \E f : f = [cur \in Nat |-> Pull(f, data, end, cur)]
<1> DEFINE X == Seq(Byte)
           H == [c \in Nat |-> [x \in X |-> AndOn(getFile(data, c), x)]]
           N == [c \in Nat |-> c + DownloadUnit]
           b == <<>>
<1>1. ASSUME NEW c \in Nat, NEW x \in X
      PROVE  AndOn(getFile(data, c), x) \in X
  <2>1. c + DownloadUnit \in Int
    OBVIOUS
  <2>2. getFile(data, c) \in Seq(Byte)
    BY <2>1, SliceValue DEF getFile
  <2> HIDE DEF X
  <2>3. getFile(data, c) \o x \in X
    BY <2>2, ConcatProperties DEF X
  <2> QED BY <2>2, <2>3 DEF AndOn, X
<1> HIDE DEF X
<1>2. H \in [Nat -> [X -> X]]
  BY <1>1, Zenon
<1>3. N \in [Nat -> Nat] /\ \A c \in Nat : c < end => N[c] > c
  OBVIOUS
<1>4. b \in X
  BY EmptySeq DEF X
<1>5. /\ \A c \in Nat, x \in X : H[c][x] = AndOn(getFile(data, c), x)
      /\ \A c \in Nat : N[c] = c + DownloadUnit /\ N[c] \in Nat
  OBVIOUS
<1> HIDE DEF H, N, b
<1>6. PICK f \in [Nat -> X] : SolvesUp(f, H, N, b, end)
  BY <1>2, <1>3, <1>4, UpwardRecursion
<1>7. ASSUME NEW c \in Nat
      PROVE  f[c] = Pull(f, data, end, c)
  <2>1. f[c] = IF c >= end THEN b ELSE H[c][f[N[c]]]
    BY <1>6 DEF SolvesUp
  <2>2. N[c] = c + DownloadUnit /\ f[N[c]] \in X
    BY <1>5
  <2>3. H[c][f[N[c]]] = AndOn(getFile(data, c), f[c + DownloadUnit])
    BY <1>5, <2>2, Zenon
  <2> QED BY <2>1, <2>3, Zenon DEF Pull, b
<1>8. f = [c \in Nat |-> f[c]]
  OBVIOUS
<1>9. f = [c \in Nat |-> Pull(f, data, end, c)]
  BY <1>7, <1>8, Zenon
<1> QED BY <1>9

\* It joins units up to the end or to the last byte.
LEMMA Pulled ==
  ASSUME NEW data \in Seq(Byte), NEW end \in Nat, end <= Len(data), DownloadUnit \in Nat \ {0},
         NEW f, f = [cur \in Nat |-> Pull(f, data, end, cur)],
         NEW cur \in Nat, cur <= Len(data)
  PROVE  \E q \in Nat : q >= end /\ cur <= q /\ q <= Len(data) /\ f[cur] = Part(data, cur, q)
<1> DEFINE n == Len(data)
           Good(c) == \E q \in Nat : q >= end /\ c <= q /\ q <= n /\ f[c] = Part(data, c, q)
           T == {k \in Nat : \A c \in 0..n : c + k >= end => Good(c)}
<1>1. n \in Nat
  OBVIOUS
<1> HIDE DEF n
<1>2. \A c \in Nat : f[c] = Pull(f, data, end, c)
  BY Zenon
<1>3. ASSUME NEW c \in 0..n, c >= end
      PROVE  Good(c)
  <2>1. f[c] = <<>>
    BY <1>1, <1>2, <1>3 DEF Pull
  <2>2. Part(data, c, c) = <<>>
    BY <1>1, PartEmpty
  <2> QED BY <1>1, <1>3, <2>1, <2>2
<1>4. 0 \in T
  BY <1>1, <1>3
<1>5. ASSUME NEW k \in Nat, k \in T
      PROVE  k + 1 \in T
  <2>1. ASSUME NEW c \in 0..n, c + (k + 1) >= end
        PROVE  Good(c)
    <3>1. CASE c >= end
      BY <1>3, <3>1
    <3>2. CASE c < end
      <4> DEFINE d == c + DownloadUnit
                 got == getFile(data, c)
      <4>1. c \in Nat /\ d \in Nat /\ d > c /\ d + k >= end
        BY <1>1, <2>1
      <4> HIDE DEF d, got
      <4>2. f[c] = AndOn(got, f[d])
        <5>1. ~(c >= end)
          BY <1>1, <3>2
        <5> QED BY <1>2, <4>1, <5>1, Zenon DEF Pull, d, got
      <4>3. (d <= n => got = Part(data, c, d)) /\ (d >= n => got = Part(data, c, n))
        <5>1. d \in Int
          BY <4>1
        <5>2. got = Slice(data, c, d)
          BY DEF got, d, getFile
        <5> QED BY <4>1, <5>1, <5>2, SliceValue DEF n
      <4>4. CASE d <= n
        <5>1. got = Part(data, c, d) /\ Len(got) = d - c
          <6>1. c <= d /\ d <= Len(data)
            BY <1>1, <4>1, <4>4 DEF n
          <6>2. Len(Part(data, c, d)) = d - c
            BY <4>1, <6>1, PartType
          <6> QED BY <4>3, <4>4, <6>2
        <5>2. d - c = DownloadUnit
          BY <1>1, <4>1 DEF d
        <5>3. f[c] = got \o f[d]
          BY <1>1, <4>1, <4>2, <5>1, <5>2 DEF AndOn
        <5>4. PICK q \in Nat : q >= end /\ d <= q /\ q <= n /\ f[d] = Part(data, d, q)
          BY <1>1, <1>5, <4>1, <4>4
        <5>5. Part(data, c, d) \o Part(data, d, q) = Part(data, c, q)
          BY <4>1, <4>4, <5>4, PartJoin DEF n
        <5>6. f[c] = Part(data, c, q)
          BY <5>1, <5>3, <5>4, <5>5, Zenon
        <5>7. c <= q
          BY <1>1, <4>1, <5>4
        <5> QED BY <5>4, <5>6, <5>7
      <4>5. CASE d > n
        <5>1. got = Part(data, c, n) /\ Len(got) = n - c
          <6>1. n \in Nat /\ c <= n /\ n <= Len(data)
            BY <1>1 DEF n
          <6>2. Len(Part(data, c, n)) = n - c
            BY <4>1, <6>1, PartType
          <6> QED BY <1>1, <4>1, <4>3, <4>5, <6>2
        <5>2. Len(got) < DownloadUnit
          BY <1>1, <4>1, <4>5, <5>1 DEF d
        <5>3. f[c] = Part(data, c, n)
          BY <4>2, <5>1, <5>2 DEF AndOn
        <5>4. end <= n /\ c <= n
          BY <1>1 DEF n
        <5> QED BY <1>1, <5>3, <5>4
      <4> QED BY <1>1, <4>1, <4>4, <4>5
    <3> QED BY <1>1, <3>1, <3>2
  <2> HIDE DEF Good
  <2> QED BY <2>1
<1> HIDE DEF T
<1>6. end \in T
  BY <1>4, <1>5, Inductive
<1>7. cur \in 0..n /\ cur + end >= end
  BY <1>1 DEF n
<1>8. Good(cur)
  <2> HIDE DEF Good
  <2> QED BY <1>6, <1>7 DEF T
<1> QED BY <1>8 DEF n

\* fetchRange returns the bytes asked for.
LEMMA Fetched ==
  ASSUME NEW data \in Seq(Byte), NEW offset \in Nat, NEW end \in Nat,
         offset <= end, end <= Len(data), DownloadUnit \in Nat \ {0}
  PROVE  fetchRange(data, offset, end) = Part(data, offset, end)
<1> DEFINE a == offset - (offset % DownloadUnit)
           f == CHOOSE g : g = [cur \in Nat |-> Pull(g, data, end, cur)]
<1>1. f = [cur \in Nat |-> Pull(f, data, end, cur)]
  BY Pulls, Zenon
<1>2. fetchRange(data, offset, end) = Slice(f[a], offset - a, end - a)
  BY DEF fetchRange, Pull
<1>3. a \in 0..offset
  BY Aligned
<1> HIDE DEF f, a
<1>4. a \in Nat /\ a <= Len(data) /\ Len(data) \in Nat
  BY <1>3
<1> DEFINE w == f[a]
<1>5. PICK q \in Nat : q >= end /\ a <= q /\ q <= Len(data) /\ w = Part(data, a, q)
  BY <1>1, <1>4, Pulled
<1> DEFINE x == offset - a
           y == end - a
<1>6. x \in Nat /\ y \in Nat /\ x <= y /\ y <= q - a /\ a + x = offset /\ a + y = end
  BY <1>3, <1>4, <1>5
<1> HIDE DEF w, x, y
<1>7. w \in Seq(Byte) /\ Len(w) = q - a
  <2>1. Part(data, a, q) \in Seq(Byte) /\ Len(Part(data, a, q)) = q - a
    BY <1>4, <1>5, PartType
  <2> QED BY <1>5, <2>1
<1>8. Part(w, x, y) = Part(data, offset, end)
  <2>1. Part(Part(data, a, q), x, y) = Part(data, a + x, a + y)
    BY <1>4, <1>5, <1>6, PartPart
  <2> QED BY <1>5, <1>6, <2>1
<1>9. Slice(w, x, y) = Part(w, x, y)
  <2>1. y \in Int /\ y <= Len(w)
    BY <1>6, <1>7
  <2> QED BY <1>6, <1>7, <2>1, SliceValue
<1> QED BY <1>2, <1>8, <1>9 DEF w, x, y

----------------------------------------------------------------------------
(* Reading a chunk map                                                     *)

\* Rows that hold the bytes of body without a gap.
IsMap(rows, body) ==
  /\ body \in Seq(Byte)
  /\ Len(rows) \in Nat
  /\ DOMAIN rows = 1..Len(rows)
  /\ \A i \in 1..Len(rows) :
       /\ rows[i].offset \in Nat
       /\ rows[i].size \in Nat \ {0}
       /\ rows[i].offset + rows[i].size <= Len(body)
       /\ rows[i].data = Part(body, rows[i].offset, rows[i].offset + rows[i].size)
  /\ \A i, j \in 1..Len(rows) : i < j => rows[i].offset + rows[i].size <= rows[j].offset
  /\ \A cur \in 0..Len(body) - 1 : \E i \in 1..Len(rows) :
       rows[i].offset <= cur /\ cur < rows[i].offset + rows[i].size

\* locate finds the row of every byte.
LEMMA Located ==
  ASSUME NEW rows, NEW body, IsMap(rows, body), NEW cur \in 0..Len(body) - 1
  PROVE  /\ locate(rows, cur) \in 1..Len(rows)
         /\ rows[locate(rows, cur)].offset <= cur
         /\ cur < rows[locate(rows, cur)].offset + rows[locate(rows, cur)].size
<1>1. PICK i \in 1..Len(rows) : rows[i].offset <= cur /\ cur < rows[i].offset + rows[i].size
  BY DEF IsMap
<1> DEFINE before == {j \in DOMAIN rows : rows[j].offset <= cur}
<1>2. i \in before
  BY <1>1 DEF IsMap
<1>3. ASSUME NEW j \in before
      PROVE  j <= i
  <2>1. j \in 1..Len(rows) /\ rows[j].offset <= cur
    BY <1>3 DEF IsMap
  <2>2. ~(j <= i) => i < j
    BY <2>1 DEF IsMap
  <2>3. i < j => rows[i].offset + rows[i].size <= rows[j].offset
    BY <2>1 DEF IsMap
  <2>4. rows[i].offset \in Nat /\ rows[i].size \in Nat /\ rows[j].offset \in Nat /\ cur \in Nat
    BY <2>1 DEF IsMap
  <2> DEFINE x == rows[i].offset
             y == rows[i].size
             z == rows[j].offset
  <2>5. x <= cur /\ cur < x + y /\ z <= cur /\ (i < j => x + y <= z) /\ x \in Nat /\ y \in Nat /\ z \in Nat
    BY <1>1, <2>1, <2>3, <2>4
  <2> HIDE DEF x, y, z
  <2>6. ~(i < j)
    BY <2>4, <2>5
  <2> QED BY <2>2, <2>6
<1> HIDE DEF before
<1>4. i \in Nat /\ i # 0 /\ \A j \in before : j \in Nat
  BY DEF before, IsMap
<1>5. Max(before) = i
  <2>1. \A j \in before : i >= j
    BY <1>3, <1>4
  <2>2. \A k \in before : (\A j \in before : k >= j) => k = i
    BY <1>2, <1>3, <1>4
  <2> QED BY <1>2, <2>1, <2>2 DEF Max
<1>6. before # {}
  BY <1>2
<1>7. locate(rows, cur) = IF Max(before) # 0 /\ cur < rows[Max(before)].offset + rows[Max(before)].size
                            THEN Max(before) ELSE 0
  BY <1>6 DEF locate, before
<1>8. locate(rows, cur) = i
  BY <1>1, <1>4, <1>5, <1>7
<1> QED BY <1>1, <1>8

\* What read makes of the bytes from cur on, given the ones of the rows after.
ReadOn(rows, end, f, cur) ==
  IF cur >= end THEN Read(<<>>)
  ELSE LET i == locate(rows, cur) IN
    IF i = 0 THEN Failed
    ELSE LET stop == Min({rows[i].offset + rows[i].size, end})
         IN  Stitch(fetchRange(rows[i].data, cur - rows[i].offset, stop - rows[i].offset),
                    stop - cur, f[stop])

\* Beyond cur, f gives the rest of the bytes.
Beyond(f, body, end, cur) ==
  \A c \in Nat : cur < c /\ c <= end => f[c] = Read(Part(body, c, end))

\* Replacing the bytes of a read.
LEMMA ReadExcept ==
  ASSUME NEW a, NEW b
  PROVE  [Read(a) EXCEPT !.bytes = b] = Read(b)
<1>1. \A e, p : [[err |-> e, primed |-> p, bytes |-> a] EXCEPT !.bytes = b]
                  = [err |-> e, primed |-> p, bytes |-> b]
  OBVIOUS
<1> QED BY <1>1, Zenon DEF Read

\* Bytes got in full, and what follows them.
LEMMA Stitched ==
  ASSUME NEW got, NEW want, NEW rest, ~(Len(got) < want)
  PROVE  Stitch(got, want, Read(rest)) = Read(got \o rest)
<1> DEFINE both == got \o rest
<1>1. Stitch(got, want, Read(rest)) = [Read(rest) EXCEPT !.bytes = both]
  BY DEF Stitch, Read
<1> HIDE DEF both
<1>2. [Read(rest) EXCEPT !.bytes = both] = Read(both)
  BY ReadExcept
<1> QED BY <1>1, <1>2 DEF both

\* A window, and what follows it.
LEMMA JoinedReads ==
  ASSUME NEW got, NEW rest
  PROVE  Joined(Read(got), Read(rest)) = Read(got \o rest)
<1> DEFINE both == got \o rest
<1>1. ~Read(got).err /\ Read(got).bytes = got /\ Read(rest).bytes = rest
  BY DEF Read
<1>2. Joined(Read(got), Read(rest)) = [[Read(rest) EXCEPT !.primed = TRUE] EXCEPT !.bytes = both]
  BY <1>1 DEF Joined
<1> HIDE DEF both
<1>3. \A e, p : [[err |-> e, primed |-> p, bytes |-> rest] EXCEPT !.primed = p]
                  = [err |-> e, primed |-> p, bytes |-> rest]
  OBVIOUS
<1>4. [Read(rest) EXCEPT !.primed = TRUE] = Read(rest)
  BY <1>3, Zenon DEF Read
<1>5. [Read(rest) EXCEPT !.bytes = both] = Read(both)
  BY ReadExcept
<1> QED BY <1>2, <1>4, <1>5 DEF both

\* Row by row it is the rest of the bytes.
LEMMA ReadRow ==
  ASSUME NEW rows, NEW body, IsMap(rows, body), DownloadUnit \in Nat \ {0},
         NEW end \in Nat, end <= Len(body), NEW cur \in Nat, cur < end,
         NEW f, Beyond(f, body, end, cur)
  PROVE  ReadOn(rows, end, f, cur) = Read(Part(body, cur, end))
<1> DEFINE i == locate(rows, cur)
           o == rows[i].offset
           z == rows[i].size
           m == o + z
           stop == Min({m, end})
           got == fetchRange(rows[i].data, cur - o, stop - o)
<1>1. Len(body) \in Nat /\ body \in Seq(Byte)
  BY DEF IsMap
<1>2. i \in 1..Len(rows) /\ o <= cur /\ cur < m
  BY <1>1, Located
<1>3. i # 0 /\ i \in Nat
  BY <1>2 DEF IsMap
<1>4. ReadOn(rows, end, f, cur) = Stitch(got, stop - cur, f[stop])
  BY <1>3 DEF ReadOn
<1>5. o \in Nat /\ z \in Nat \ {0} /\ m <= Len(body) /\ rows[i].data = Part(body, o, m)
  <2> HIDE DEF i
  <2> QED BY <1>2 DEF IsMap
<1> HIDE DEF o, z, got
<1>6. m \in Nat /\ m - o = z
  BY <1>5
<1>7. stop = IF m <= end THEN m ELSE end
  <2> HIDE DEF m
  <2> QED BY <1>6, MinMax
<1> HIDE DEF m, stop
<1>8. stop \in Nat /\ cur < stop /\ stop <= end /\ stop <= m
  BY <1>2, <1>6, <1>7
<1> DEFINE x == cur - o
           y == stop - o
<1>9. x \in Nat /\ y \in Nat /\ x <= y /\ y <= m - o /\ o + x = cur /\ o + y = stop /\ o <= m
  BY <1>2, <1>5, <1>6, <1>8
<1>10. got = fetchRange(Part(body, o, m), x, y)
  BY <1>5 DEF got
<1> HIDE DEF x, y
<1>11. Part(body, o, m) \in Seq(Byte) /\ Len(Part(body, o, m)) = m - o
  <2>1. o \in Nat /\ o <= m /\ m <= Len(body)
    BY <1>5, <1>9
  <2> QED BY <1>1, <1>6, <2>1, PartType
<1>12. fetchRange(Part(body, o, m), x, y) = Part(Part(body, o, m), x, y)
  <2> DEFINE data == Part(body, o, m)
  <2>1. data \in Seq(Byte) /\ y <= Len(data)
    BY <1>9, <1>11
  <2> HIDE DEF data
  <2>2. fetchRange(data, x, y) = Part(data, x, y)
    BY <1>9, <2>1, Fetched
  <2> QED BY <2>2 DEF data
<1>13. Part(Part(body, o, m), x, y) = Part(body, o + x, o + y)
  BY <1>1, <1>5, <1>6, <1>9, PartPart
<1>14. got = Part(body, cur, stop)
  BY <1>9, <1>10, <1>12, <1>13
<1>15. Len(Part(body, cur, stop)) = stop - cur
  <2>1. cur <= stop /\ stop <= Len(body)
    BY <1>1, <1>5, <1>6, <1>8
  <2> QED BY <1>1, <1>8, <2>1, PartType
<1>16. ~(Len(got) < stop - cur)
  BY <1>8, <1>14, <1>15
<1>17. f[stop] = Read(Part(body, stop, end))
  BY <1>8 DEF Beyond
<1>18. Stitch(got, stop - cur, f[stop]) = Read(got \o Part(body, stop, end))
  BY <1>16, <1>17, Stitched
<1>19. Part(body, cur, stop) \o Part(body, stop, end) = Part(body, cur, end)
  <2>1. cur <= stop
    BY <1>8
  <2> QED BY <1>1, <1>8, <2>1, PartJoin
<1> QED BY <1>4, <1>14, <1>18, <1>19

\* BotSource.Chunk returns the bytes of its window.
LEMMA ChunkRead ==
  ASSUME NEW obj, NEW body, IsMap(obj.rows, body), obj.size = Len(body),
         DownloadUnit \in Nat \ {0},
         NEW offset \in Nat, NEW limit \in Nat, NEW end \in Nat,
         end = Min({offset + limit, Len(body)}), offset <= end
  PROVE  Chunk(obj, offset, limit) = Read(Part(body, offset, end))
<1> DEFINE rows == obj.rows
           whole == [cur \in Nat |-> IF cur >= end THEN Read(<<>>) ELSE Read(Part(body, cur, end))]
           f == CHOOSE g : g = [cur \in Nat |-> ReadOn(rows, end, g, cur)]
           P == {c \in Nat : f[c] = whole[c]}
<1>1. Len(body) \in Nat /\ end <= Len(body)
  <2>1. Len(body) \in Nat
    BY DEF IsMap
  <2> QED BY <2>1, MinMax
<1>2. ASSUME NEW c \in Nat
      PROVE  /\ c >= end => whole[c] = Read(<<>>)
             /\ c <= end => whole[c] = Read(Part(body, c, end))
  <2>1. c = end => Part(body, c, end) = <<>>
    BY PartEmpty
  <2> QED BY <2>1
<1>3. Chunk(obj, offset, limit) = f[offset]
  BY DEF Chunk, ReadOn
<1> HIDE DEF f, whole, rows
<1>4. ASSUME NEW g, NEW c \in Nat, \A d \in Nat : c < d => g[d] = whole[d]
      PROVE  ReadOn(rows, end, g, c) = whole[c]
  <2>1. CASE c >= end
    BY <1>2, <2>1 DEF ReadOn
  <2>2. CASE c < end
    <3>1. Beyond(g, body, end, c)
      BY <1>2, <1>4 DEF Beyond
    <3>2. ReadOn(rows, end, g, c) = Read(Part(body, c, end))
      BY <1>1, <2>2, <3>1, ReadRow DEF rows
    <3>3. c <= end
      BY <2>2
    <3> QED BY <1>2, <3>2, <3>3
  <2> QED BY <2>1, <2>2
<1>5. \E g : g = [cur \in Nat |-> ReadOn(rows, end, g, cur)]
  <2>1. whole = [cur \in Nat |-> whole[cur]]
    BY DEF whole
  <2>2. \A c \in Nat : ReadOn(rows, end, whole, c) = whole[c]
    BY <1>4
  <2>3. whole = [cur \in Nat |-> ReadOn(rows, end, whole, cur)]
    BY <2>1, <2>2, Zenon
  <2> QED BY <2>3
<1>6. f = [cur \in Nat |-> ReadOn(rows, end, f, cur)]
  BY <1>5, Zenon DEF f
<1>7. \A c \in Nat : f[c] = ReadOn(rows, end, f, c)
  BY <1>6, Zenon
<1>8. \A c \in Nat : c >= end => c \in P
  BY <1>2, <1>7 DEF ReadOn
<1>9. \A c \in Nat : c < end /\ (\A d \in Nat : c < d => d \in P) => c \in P
  BY <1>4, <1>7
<1> HIDE DEF P
<1>10. \A c \in Nat : c \in P
  BY <1>8, <1>9, Downwards
<1>11. f[offset] = whole[offset]
  BY <1>10 DEF P
<1> QED BY <1>2, <1>3, <1>11

----------------------------------------------------------------------------
(* The windows of the prefetch reader                                      *)

\* The window a window of cs bytes is halved to.
Halve(f, span, cs) == IF cs > WindowFloor /\ cs > 2 * span THEN f[cs \div 2] ELSE cs

\* Halving ends for every window.
LEMMA Halvings ==
  ASSUME NEW span \in Nat, NEW n \in Nat, WindowFloor \in Nat
  PROVE  \E f : f = [cs \in 0..n |-> Halve(f, span, cs)]
<1> DEFINE T == {k \in Nat : \E f \in [Nat -> Nat] : \A c \in 0..k : f[c] = Halve(f, span, c)}
<1>1. \A c \in Nat : c \div 2 \in Nat /\ (c > 0 => c \div 2 < c)
  OBVIOUS
<1>2. 0 \in T
  <2> DEFINE f == [c \in Nat |-> 0]
  <2>1. f \in [Nat -> Nat] /\ f[0] = 0
    OBVIOUS
  <2> HIDE DEF f
  <2>2. \A c \in 0..0 : f[c] = Halve(f, span, c)
    BY <2>1 DEF Halve
  <2> QED BY <2>1, <2>2
<1>3. ASSUME NEW k \in Nat, k \in T
      PROVE  k + 1 \in T
  <2>1. PICK f \in [Nat -> Nat] : \A c \in 0..k : f[c] = Halve(f, span, c)
    BY <1>3
  <2> DEFINE v == Halve(f, span, k + 1)
             g == [f EXCEPT ![k + 1] = v]
  <2>2. v \in Nat
    <3>1. (k + 1) \div 2 \in Nat /\ f[(k + 1) \div 2] \in Nat
      BY <1>1
    <3> QED BY <3>1 DEF Halve
  <2> HIDE DEF v
  <2>3. g \in [Nat -> Nat] /\ g[k + 1] = v /\ \A c \in 0..k : g[c] = f[c]
    BY <2>2
  <2> HIDE DEF g
  <2>4. ASSUME NEW c \in 0..k + 1
        PROVE  g[c] = Halve(g, span, c)
    <3>1. c > WindowFloor => c \div 2 \in 0..k
      BY <1>1
    <3>2. c > WindowFloor => g[c \div 2] = f[c \div 2]
      BY <2>3, <3>1
    <3>3. Halve(g, span, c) = Halve(f, span, c)
      BY <3>2 DEF Halve
    <3>4. CASE c = k + 1
      BY <2>3, <3>3, <3>4 DEF v
    <3>5. CASE c # k + 1
      <4>1. c \in 0..k
        BY <3>5
      <4> QED BY <2>1, <2>3, <3>3, <4>1
    <3> QED BY <3>4, <3>5
  <2> QED BY <2>3, <2>4
<1> HIDE DEF T
<1>4. n \in T
  BY <1>2, <1>3, Inductive
<1>5. PICK f \in [Nat -> Nat] : \A c \in 0..n : f[c] = Halve(f, span, c)
  BY <1>4 DEF T
<1> DEFINE g == [c \in 0..n |-> f[c]]
<1>6. ASSUME NEW c \in 0..n
      PROVE  f[c] = Halve(g, span, c)
  <2>1. c \in Nat /\ c \div 2 \in 0..n
    BY <1>1
  <2>2. g[c \div 2] = f[c \div 2]
    BY <2>1
  <2> HIDE DEF g
  <2> QED BY <1>5, <2>2 DEF Halve
<1>7. g = [c \in 0..n |-> Halve(g, span, c)]
  BY <1>6, Zenon
<1> HIDE DEF g
<1> QED BY <1>7

\* A window holds at least a byte.
LEMMA WindowType ==
  ASSUME NEW start \in Nat, NEW end \in Nat, start <= end,
         StreamChunkSize \in Nat \ {0}, WindowFloor \in Nat \ {0}
  PROVE  ChunkSize(start, end) \in Nat \ {0}
<1> DEFINE n == StreamChunkSize
           span == end - start
           f == CHOOSE g : g = [cs \in 0..n |-> Halve(g, span, cs)]
           T == {k \in Nat : \A c \in 1..k : c <= n => f[c] \in Nat \ {0}}
<1>1. span \in Nat /\ n \in Nat \ {0}
  OBVIOUS
<1>2. ChunkSize(start, end) = f[n]
  BY DEF ChunkSize, Halve
<1> HIDE DEF n, span
<1>3. \E g : g = [cs \in 0..n |-> Halve(g, span, cs)]
  BY <1>1, Halvings
<1>4. f = [cs \in 0..n |-> Halve(f, span, cs)]
  BY <1>3, Zenon
<1> HIDE DEF f
<1>5. \A c \in 0..n : f[c] = Halve(f, span, c)
  BY <1>4, Zenon
<1>6. 0 \in T
  OBVIOUS
<1>7. ASSUME NEW k \in Nat, k \in T
      PROVE  k + 1 \in T
  <2>1. ASSUME NEW c \in 1..k + 1, c <= n
        PROVE  f[c] \in Nat \ {0}
    <3>1. f[c] = Halve(f, span, c)
      BY <1>1, <1>5, <2>1
    <3>2. CASE c > WindowFloor /\ c > 2 * span
      <4>1. c \div 2 \in 1..k /\ c \div 2 <= n
        BY <1>1, <2>1, <3>2
      <4>2. f[c \div 2] \in Nat \ {0}
        BY <1>7, <4>1
      <4> QED BY <3>1, <3>2, <4>2 DEF Halve
    <3>3. CASE ~(c > WindowFloor /\ c > 2 * span)
      <4>1. f[c] = c
        BY <3>1, <3>3 DEF Halve
      <4> QED BY <4>1
    <3> QED BY <3>2, <3>3
  <2> QED BY <2>1
<1> HIDE DEF T
<1>8. n \in T
  BY <1>1, <1>6, <1>7, Inductive
<1>9. f[n] \in Nat \ {0}
  BY <1>1, <1>8 DEF T
<1> QED BY <1>2, <1>9

\* What drain makes of the windows from off on, given the ones after.
Drain(obj, start, end, cs, f, off) ==
  IF off >= end THEN Read(<<>>)
  ELSE Joined([Chunk(obj, off, cs) EXCEPT !.bytes = Slice(@, Max({start - off, 0}), end - off)],
              f[off + cs])

\* Where the bytes of the windows from off on begin.
First(start, off) == IF start <= off THEN off ELSE start

\* What f gives for the windows from m on.
Follows(f, body, start, end, m) ==
  f[m] = IF m >= end THEN Read(<<>>) ELSE Read(Part(body, First(start, m), end))

\* Window by window it is the rest of the range.
LEMMA DrainWindow ==
  ASSUME NEW obj, NEW body, IsMap(obj.rows, body), obj.size = Len(body),
         DownloadUnit \in Nat \ {0},
         NEW start \in Nat, NEW end \in Nat, start < end, end <= Len(body),
         NEW cs \in Nat \ {0}, NEW off \in Nat, off < end,
         NEW f, Follows(f, body, start, end, off + cs)
  PROVE  Drain(obj, start, end, cs, f, off) = Read(Part(body, First(start, off), end))
<1> DEFINE m == off + cs
           top == Min({m, Len(body)})
           w == Part(body, off, top)
           x == Max({start - off, 0})
           y == end - off
           b == First(start, off)
           got == Slice(w, x, y)
           n == First(start, m)
           rest == IF m < end THEN Part(body, n, end) ELSE <<>>
<1>1. Len(body) \in Nat /\ body \in Seq(Byte)
  BY DEF IsMap
<1>2. m \in Nat /\ off < m
  OBVIOUS
<1> HIDE DEF m
<1>3. top = IF m <= Len(body) THEN m ELSE Len(body)
  BY <1>1, <1>2, MinMax
<1> HIDE DEF top
<1>4. top \in Nat /\ off <= top /\ top <= Len(body) /\ (m < end => top = m) /\ (m >= end => top >= end)
  BY <1>1, <1>2, <1>3
<1>5. Chunk(obj, off, cs) = Read(w)
  <2>1. top = Min({off + cs, Len(body)})
    BY DEF top, m
  <2> QED BY <1>4, <2>1, ChunkRead
<1>6. x \in Nat /\ off + x = b
  <2> DEFINE d == start - off
  <2>1. d \in Int /\ 0 \in Int
    OBVIOUS
  <2> HIDE DEF d
  <2>2. Max({d, 0}) = IF d >= 0 THEN d ELSE 0
    BY <2>1, MinMax
  <2> QED BY <2>2 DEF First, d
<1> HIDE DEF x
<1>7. y \in Nat /\ off + y = end
  OBVIOUS
<1> HIDE DEF y
<1>8. b \in Nat /\ off <= b /\ b < end /\ start <= b
  BY DEF First
<1>9. n \in Nat /\ (n = IF b <= m THEN m ELSE b)
  BY <1>2 DEF First
<1> HIDE DEF b, n
<1>10. w \in Seq(Byte) /\ Len(w) = top - off
  <2>1. top \in Nat /\ off <= top /\ top <= Len(body)
    BY <1>4
  <2> QED BY ONLY <1>1, <2>1, off \in Nat, PartType
<1>11. got \o rest = Part(body, b, end)
  <2>1. CASE m < end /\ b <= m
    <3>1. got = Part(w, x, top - off)
      <4> HIDE DEF w
      <4>1. y \in Int /\ y >= Len(w)
        BY <1>4, <1>7, <1>10, <2>1
      <4> QED BY <1>6, <1>10, <4>1, SliceValue
    <3>2. Part(w, x, top - off) = Part(body, b, m)
      <4>1. x <= top - off /\ top - off \in Nat /\ top - off <= top - off /\ off + (top - off) = m
        BY <1>4, <1>6, <1>8, <2>1
      <4> DEFINE z == top - off
      <4> HIDE DEF z
      <4>2. Part(Part(body, off, top), x, z) = Part(body, off + x, off + z)
        BY <1>1, <1>4, <1>6, <4>1, PartPart DEF z
      <4> QED BY <1>6, <4>1, <4>2 DEF z
    <3>3. rest = Part(body, m, end)
      BY <1>9, <2>1
    <3>4. Part(body, b, m) \o Part(body, m, end) = Part(body, b, end)
      <4>1. b <= m /\ m <= end
        BY <1>2, <2>1
      <4> QED BY <1>1, <1>2, <1>8, <4>1, PartJoin
    <3> HIDE DEF got, rest
    <3> QED BY <3>1, <3>2, <3>3, <3>4
  <2>2. CASE m < end /\ ~(b <= m)
    <3>1. got = <<>>
      <4> HIDE DEF w
      <4>1. y \in Int /\ y >= Len(w)
        BY <1>4, <1>7, <1>10, <2>2
      <4>2. got = Part(w, x, Len(w))
        BY <1>6, <1>10, <4>1, SliceValue
      <4>3. Len(w) <= x /\ Len(w) \in Int
        BY <1>2, <1>4, <1>6, <1>8, <1>10, <2>2
      <4>4. Part(w, x, Len(w)) = <<>>
        BY <1>6, <4>3, PartEmpty
      <4> QED BY <4>2, <4>4
    <3>2. rest = Part(body, b, end)
      BY <1>9, <2>2
    <3>3. Part(body, b, end) \in Seq(Byte)
      <4>1. b <= end
        BY <1>8
      <4> QED BY <1>1, <1>8, <4>1, PartType
    <3>4. <<>> \o Part(body, b, end) = Part(body, b, end)
      BY <3>3, ConcatEmptySeq
    <3> HIDE DEF got, rest
    <3> QED BY <3>1, <3>2, <3>4
  <2>3. CASE m >= end
    <3>1. got = Part(w, x, y)
      <4> HIDE DEF w
      <4>1. y \in Int /\ y <= Len(w)
        BY <1>4, <1>7, <1>10, <2>3
      <4> QED BY <1>6, <1>10, <4>1, SliceValue
    <3>2. Part(w, x, y) = Part(body, b, end)
      <4>1. x <= y /\ y <= top - off
        BY <1>4, <1>6, <1>7, <1>8, <2>3
      <4>2. Part(Part(body, off, top), x, y) = Part(body, off + x, off + y)
        BY <1>1, <1>4, <1>6, <1>7, <4>1, PartPart
      <4> QED BY <1>6, <1>7, <4>2
    <3>3. rest = <<>>
      BY <1>2, <2>3
    <3>4. Part(body, b, end) \in Seq(Byte)
      <4>1. b <= end
        BY <1>8
      <4> QED BY <1>1, <1>8, <4>1, PartType
    <3>5. Part(body, b, end) \o <<>> = Part(body, b, end)
      BY <3>4, ConcatEmptySeq
    <3> HIDE DEF got, rest
    <3> QED BY <3>1, <3>2, <3>3, <3>5
  <2> QED BY <1>2, <2>1, <2>2, <2>3
<1>12. f[m] = Read(rest)
  BY <1>2 DEF m, n, Follows
<1>13. Drain(obj, start, end, cs, f, off) = Joined([Read(w) EXCEPT !.bytes = Slice(@, x, y)], f[m])
  BY <1>5 DEF Drain, x, y, m
<1>14. [Read(w) EXCEPT !.bytes = Slice(@, x, y)] = Read(got)
  <2> HIDE DEF w
  <2>1. Read(w).bytes = w
    BY DEF Read
  <2>2. [Read(w) EXCEPT !.bytes = Slice(@, x, y)] = [Read(w) EXCEPT !.bytes = got]
    BY <2>1
  <2> HIDE DEF got
  <2> QED BY <2>2, ReadExcept
<1>15. Joined(Read(got), Read(rest)) = Read(got \o rest)
  BY JoinedReads
<1> HIDE DEF w, got, rest
<1> QED BY <1>11, <1>12, <1>13, <1>14, <1>15 DEF b

\* The stream of a range is its bytes.
LEMMA StreamRead ==
  ASSUME NEW obj, NEW body, IsMap(obj.rows, body), obj.size = Len(body),
         RangeAssumption,
         NEW start \in Nat, NEW end \in Nat, start <= end, end <= Len(body)
  PROVE  Stream(obj, start, end) = Read(Part(body, start, end))
<1> DEFINE cs == ChunkSize(start, end)
           a == start - (start % cs)
           whole == [off \in Nat |-> IF off >= end THEN Read(<<>>)
                                     ELSE Read(Part(body, First(start, off), end))]
           f == CHOOSE g : g = [off \in Nat |-> Drain(obj, start, end, cs, g, off)]
           P == {c \in Nat : f[c] = whole[c]}
<1>1. CASE start = end
  <2>1. Stream(obj, start, end) = Read(<<>>)
    BY <1>1 DEF Stream
  <2>2. Part(body, start, end) = <<>>
    BY <1>1, PartEmpty
  <2> QED BY <2>1, <2>2
<1>2. CASE start < end
  <2>1. cs \in Nat \ {0} /\ DownloadUnit \in Nat \ {0}
    BY WindowType DEF RangeAssumption
  <2>2. Stream(obj, start, end) = f[a]
    <3>1. ~(start >= end)
      BY <1>2
    <3> QED BY <3>1 DEF Stream, Drain
  <2> HIDE DEF cs
  <2>3. a \in 0..start
    BY <2>1, Aligned
  <2>4. \A c \in Nat : whole[c] = IF c >= end THEN Read(<<>>) ELSE Read(Part(body, First(start, c), end))
    OBVIOUS
  <2> HIDE DEF f, a
  <2>5. ASSUME NEW g, NEW c \in Nat, \A d \in Nat : c < d => g[d] = whole[d]
        PROVE  Drain(obj, start, end, cs, g, c) = whole[c]
    <3> HIDE DEF whole
    <3>1. CASE c >= end
      BY <2>4, <3>1 DEF Drain
    <3>2. CASE c < end
      <4> DEFINE d == c + cs
      <4>1. d \in Nat /\ c < d
        BY <2>1
      <4>2. g[d] = whole[d]
        BY <2>5, <4>1
      <4>3. Follows(g, body, start, end, d)
        <5> HIDE DEF d
        <5> QED BY <2>4, <4>1, <4>2 DEF Follows
      <4>5. Drain(obj, start, end, cs, g, c) = Read(Part(body, First(start, c), end))
        BY <1>2, <2>1, <3>2, <4>3, DrainWindow
      <4>6. ~(c >= end)
        BY <3>2
      <4> QED BY <2>4, <4>5, <4>6
    <3> QED BY <3>1, <3>2
  <2>6. \E g : g = [off \in Nat |-> Drain(obj, start, end, cs, g, off)]
    <3>1. whole = [off \in Nat |-> whole[off]]
      OBVIOUS
    <3> HIDE DEF whole
    <3>2. \A c \in Nat : Drain(obj, start, end, cs, whole, c) = whole[c]
      BY <2>5
    <3>3. whole = [off \in Nat |-> Drain(obj, start, end, cs, whole, off)]
      BY <3>1, <3>2, Zenon
    <3> QED BY <3>3
  <2>7. f = [off \in Nat |-> Drain(obj, start, end, cs, f, off)]
    BY <2>6, Zenon DEF f
  <2>8. \A c \in Nat : f[c] = Drain(obj, start, end, cs, f, c)
    BY <2>7, Zenon
  <2> HIDE DEF whole
  <2>9. \A c \in Nat : c >= end => c \in P
    BY <2>4, <2>8 DEF Drain
  <2>10. \A c \in Nat : c < end /\ (\A d \in Nat : c < d => d \in P) => c \in P
    BY <2>5, <2>8
  <2> HIDE DEF P
  <2>11. \A c \in Nat : c \in P
    BY <2>9, <2>10, Downwards
  <2>12. a \in Nat /\ ~(a >= end)
    BY <1>2, <2>3
  <2>13. f[a] = whole[a]
    BY <2>11, <2>12 DEF P
  <2>14. First(start, a) = start
    BY <2>3 DEF First
  <2> QED BY <2>2, <2>4, <2>12, <2>13, <2>14
<1> QED BY <1>1, <1>2

----------------------------------------------------------------------------
(* Chunk maps                                                              *)

\* The size of the rows before row i.
Before(rows, i) == SizeOf(SubSeq(rows, 1, i - 1))

\* What is before row k + 1 are the first k rows.
LEMMA BeforeIs ==
  ASSUME NEW rows, NEW k \in Int
  PROVE  Before(rows, k + 1) = SizeOf(SubSeq(rows, 1, k))
<1> DEFINE j == (k + 1) - 1
<1>1. j = k
  OBVIOUS
<1> HIDE DEF j
<1>2. SizeOf(SubSeq(rows, 1, j)) = SizeOf(SubSeq(rows, 1, k))
  BY <1>1
<1> QED BY <1>2 DEF Before, j

\* From row to row it grows by the row's size.
LEMMA BeforeSteps ==
  ASSUME NEW rows \in Seq(Chunks)
  PROVE  /\ Before(rows, 1) = 0
         /\ Before(rows, Len(rows) + 1) = SizeOf(rows)
         /\ \A i \in 1..Len(rows) + 1 : Before(rows, i) \in Nat
         /\ \A i \in 1..Len(rows) : Before(rows, i + 1) = Before(rows, i) + rows[i].size
<1> DEFINE n == Len(rows)
<1>1. n \in Nat
  OBVIOUS
<1> HIDE DEF n
<1>2. Before(rows, 1) = 0
  <2>1. SubSeq(rows, 1, 0) = <<>>
    BY EmptySeq
  <2>2. Before(rows, 0 + 1) = SizeOf(SubSeq(rows, 1, 0)) /\ 0 + 1 = 1
    BY BeforeIs
  <2> QED BY <2>1, <2>2, SizeEmpty
<1>3. Before(rows, n + 1) = SizeOf(rows)
  <2>1. Before(rows, n + 1) = SizeOf(SubSeq(rows, 1, n))
    BY <1>1, BeforeIs
  <2>2. SubSeq(rows, 1, n) = rows
    BY <1>1, Beginning DEF n
  <2> QED BY <2>1, <2>2
<1>4. ASSUME NEW i \in 1..n + 1
      PROVE  Before(rows, i) \in Nat
  <2> DEFINE k == i - 1
  <2>1. k \in 0..n
    BY <1>1
  <2> HIDE DEF k
  <2>2. SubSeq(rows, 1, k) \in Seq(Chunks)
    BY <2>1, Beginning DEF n
  <2>3. SizeOf(SubSeq(rows, 1, k)) \in Nat
    BY <2>2, SizeType
  <2> QED BY <2>3 DEF Before, k
<1>5. ASSUME NEW i \in 1..n
      PROVE  Before(rows, i + 1) = Before(rows, i) + rows[i].size
  <2>1. i - 1 \in 0..n
    BY <1>1
  <2>5. Before(rows, i + 1) = SizeOf(SubSeq(rows, 1, i))
    BY BeforeIs
  <2>2. SubSeq(rows, 1, i) = Append(SubSeq(rows, 1, i - 1), rows[i])
    BY NextBeginning DEF n
  <2>3. SubSeq(rows, 1, i - 1) \in Seq(Chunks) /\ rows[i] \in Chunks
    <3> DEFINE k == i - 1
    <3>1. k \in 0..n
      BY <2>1
    <3> HIDE DEF k
    <3>2. SubSeq(rows, 1, k) \in Seq(Chunks)
      BY <3>1, Beginning DEF n
    <3>3. rows[i] \in Chunks
      BY SizesType DEF n
    <3> QED BY <3>2, <3>3 DEF k
  <2>4. SizeOf(Append(SubSeq(rows, 1, i - 1), rows[i])) = SizeOf(SubSeq(rows, 1, i - 1)) + rows[i].size
    BY <2>3, SizeAppend
  <2> QED BY <2>2, <2>4, <2>5, Zenon DEF Before
<1> QED BY <1>2, <1>3, <1>4, <1>5 DEF n

\* It never shrinks.
LEMMA BeforeGrows ==
  ASSUME NEW rows \in Seq(Chunks), NEW i \in 1..Len(rows) + 1, NEW j \in 1..Len(rows) + 1, i <= j
  PROVE  Before(rows, i) <= Before(rows, j)
<1> DEFINE n == Len(rows)
           T == {k \in Nat : i + k <= n + 1 => Before(rows, i) <= Before(rows, i + k)}
<1>1. n \in Nat
  OBVIOUS
<1>2. \A k \in 1..n + 1 : Before(rows, k) \in Nat
  BY BeforeSteps
<1>3. \A k \in 1..n : Before(rows, k + 1) = Before(rows, k) + rows[k].size
  BY BeforeSteps
<1>4. \A k \in 1..n : rows[k].size \in Nat
  BY SizesType
<1> HIDE DEF n
<1>5. 0 \in T
  <2>1. i + 0 = i
    BY <1>1
  <2>2. Before(rows, i) <= Before(rows, i)
    BY <1>2 DEF n
  <2> QED BY <2>1, <2>2
<1>6. ASSUME NEW k \in Nat, k \in T
      PROVE  k + 1 \in T
  <2> SUFFICES ASSUME i + (k + 1) <= n + 1
               PROVE  Before(rows, i) <= Before(rows, i + (k + 1))
    BY DEF T
  <2> DEFINE m == i + k
  <2>1. m \in 1..n /\ i \in 1..n + 1 /\ i + (k + 1) = m + 1 /\ i + k <= n + 1
    BY <1>1 DEF n
  <2>2. Before(rows, i) <= Before(rows, m)
    BY <1>6, <2>1
  <2> HIDE DEF m
  <2>3. Before(rows, m + 1) = Before(rows, m) + rows[m].size
    BY <1>3, <2>1
  <2> DEFINE x == Before(rows, i)
             y == Before(rows, m)
             z == rows[m].size
  <2>4. x \in Nat /\ y \in Nat /\ z \in Nat
    <3>1. m \in 1..n + 1
      BY <1>1, <2>1
    <3> QED BY <1>2, <1>4, <2>1, <3>1
  <2>5. x <= y
    BY <2>2
  <2> HIDE DEF x, y, z
  <2>6. x <= y + z
    BY <2>4, <2>5
  <2> QED BY <2>1, <2>3, <2>6 DEF x, y, z
<1> HIDE DEF T
<1>7. \A k \in Nat : k \in T
  BY <1>5, <1>6, Inductive
<1>8. j - i \in Nat /\ i + (j - i) = j /\ i + (j - i) <= n + 1
  BY <1>1 DEF n
<1>9. j - i \in T
  BY <1>7, <1>8
<1> QED BY <1>8, <1>9 DEF T

\* One more row is after all others.
LEMMA BeforeAppend ==
  ASSUME NEW rows \in Seq(Chunks), NEW r \in Chunks
  PROVE  \A i \in 1..Len(rows) + 1 : Before(Append(rows, r), i) = Before(rows, i)
<1> TAKE i \in 1..Len(rows) + 1
<1> DEFINE k == i - 1
<1>1. k \in 0..Len(rows)
  OBVIOUS
<1> HIDE DEF k
<1>2. SubSeq(Append(rows, r), 1, k) = SubSeq(rows, 1, k)
  BY <1>1, SameBeginning
<1> QED BY <1>2 DEF Before, k

\* The messages of rows hold the bytes of body, one after the other.
Holds(m, rows, body) ==
  /\ rows \in Seq(Chunks)
  /\ body \in Seq(Byte)
  /\ SizeOf(rows) = Len(body)
  /\ \A i \in 1..Len(rows) :
       /\ rows[i].id \in DOMAIN m
       /\ m[rows[i].id] = Part(body, Before(rows, i), Before(rows, i) + rows[i].size)

\* Every row has the offset that its size so far gives it.
InOrder(rows) == \A i \in 1..Len(rows) : rows[i].offset = Before(rows, i)

\* A chunk map that lays out body.
LaidOut(m, rows, body) == Holds(m, rows, body) /\ InOrder(rows)

\* No row holds nothing.
LEMMA HoldsNothing ==
  ASSUME NEW m
  PROVE  LaidOut(m, <<>>, <<>>)
<1>1. <<>> \in Seq(Chunks) /\ <<>> \in Seq(Byte)
  BY EmptySeq
<1>2. Len(<<>>) = 0
  BY EmptySeq
<1>3. 1..0 = {}
  OBVIOUS
<1> QED BY <1>1, <1>2, <1>3, SizeEmpty DEF LaidOut, Holds, InOrder

\* Where the bytes of a row are.
LEMMA RowPlace ==
  ASSUME NEW rows \in Seq(Chunks), NEW i \in 1..Len(rows)
  PROVE  /\ Before(rows, i) \in Nat
         /\ rows[i].size \in Nat \ {0}
         /\ Before(rows, i) + rows[i].size \in Nat
         /\ Before(rows, i) <= Before(rows, i) + rows[i].size
         /\ Before(rows, i) + rows[i].size <= SizeOf(rows)
<1> DEFINE n == Len(rows)
           a == Before(rows, i)
           z == rows[i].size
<1>1. n \in Nat /\ i \in 1..n /\ i \in 1..n + 1 /\ i + 1 \in 1..n + 1 /\ n + 1 \in 1..n + 1 /\ i + 1 <= n + 1
  OBVIOUS
<1>2. a \in Nat
  BY <1>1, BeforeSteps
<1>3. z \in Nat \ {0}
  BY SizesType
<1>4. Before(rows, i + 1) = a + z
  BY BeforeSteps
<1>5. Before(rows, i + 1) <= Before(rows, n + 1)
  BY <1>1, BeforeGrows
<1>6. Before(rows, n + 1) = SizeOf(rows)
  BY BeforeSteps
<1>7. a + z <= SizeOf(rows)
  BY <1>4, <1>5, <1>6
<1> HIDE DEF a, z
<1>8. a + z \in Nat /\ a <= a + z
  BY <1>2, <1>3
<1> QED BY <1>2, <1>3, <1>7, <1>8 DEF a, z

\* Two sequences, one after the other.
LEMMA Concat ==
  ASSUME NEW S, NEW s \in Seq(S), NEW t \in Seq(S)
  PROVE  s \o t \in Seq(S) /\ Len(s \o t) = Len(s) + Len(t) /\ Len(s) \in Nat /\ Len(t) \in Nat
OBVIOUS

\* One more row, with what its message holds.
LEMMA HoldsMore ==
  ASSUME NEW m, NEW rows, NEW body, Holds(m, rows, body),
         NEW r \in Chunks, r.id \in DOMAIN m, NEW piece \in Seq(Byte), m[r.id] = piece,
         Len(piece) = r.size
  PROVE  Holds(m, Append(rows, r), body \o piece)
<1> DEFINE n == Len(rows)
           t == Append(rows, r)
           b == body \o piece
           l == Len(body)
<1>1. rows \in Seq(Chunks) /\ body \in Seq(Byte) /\ SizeOf(rows) = l /\ n \in Nat
  BY DEF Holds
<1>2. l \in Nat /\ b \in Seq(Byte) /\ Len(b) = l + Len(piece)
  BY <1>1, Concat
<1>3. t \in Seq(Chunks) /\ Len(t) = n + 1 /\ (\A i \in 1..n : t[i] = rows[i]) /\ t[n + 1] = r
  BY <1>1, Appended
<1>4. SizeOf(t) = SizeOf(rows) + r.size
  BY <1>1, SizeAppend
<1>5. SizeOf(t) = Len(b)
  BY <1>1, <1>2, <1>4
<1>6. \A i \in 1..n + 1 : Before(t, i) = Before(rows, i)
  BY <1>1, BeforeAppend
<1>7. Before(rows, n + 1) = l
  BY <1>1, BeforeSteps
<1>8. Len(piece) \in Nat
  OBVIOUS
<1> HIDE DEF t, b, n, l
<1>9. ASSUME NEW i \in 1..n
      PROVE  t[i].id \in DOMAIN m /\ m[t[i].id] = Part(b, Before(t, i), Before(t, i) + t[i].size)
  <2> DEFINE x == Before(rows, i)
             z == rows[i].size
             y == x + z
  <2>1. t[i] = rows[i]
    BY <1>3
  <2>2. rows[i].id \in DOMAIN m /\ m[rows[i].id] = Part(body, x, y)
    BY DEF Holds, n
  <2>3. x \in Nat /\ y \in Nat /\ x <= y /\ y <= l
    BY <1>1, RowPlace DEF n
  <2>4. i \in 1..n + 1
    BY <1>1
  <2>5. Before(t, i) = x
    BY <1>6, <2>4
  <2> HIDE DEF y
  <2>6. Part(body \o piece, x, y) = Part(body, x, y)
    BY <1>1, <2>3, PartConcat DEF l
  <2> HIDE DEF x, z
  <2>7. Part(b, x, y) = Part(body, x, y)
    BY <2>6, Zenon DEF b
  <2>8. Before(t, i) + t[i].size = y
    BY <2>1, <2>5 DEF y, z
  <2> QED BY <2>1, <2>2, <2>5, <2>7, <2>8, Zenon
<1>10. t[n + 1].id \in DOMAIN m /\ m[t[n + 1].id] = Part(b, Before(t, n + 1), Before(t, n + 1) + t[n + 1].size)
  <2> DEFINE z == Len(piece)
  <2>1. n + 1 \in 1..n + 1
    BY <1>1
  <2>2. Before(t, n + 1) = l
    BY <1>6, <1>7, <2>1, Zenon
  <2>3. t[n + 1].size = z
    BY <1>3
  <2> HIDE DEF z
  <2>7. 0 \in Nat /\ z \in Nat /\ 0 <= z /\ z <= Len(piece)
    BY <1>8 DEF z
  <2>8. Part(body \o piece, Len(body) + 0, Len(body) + z) = Part(piece, 0, z)
    BY ONLY <1>1, <2>7, piece \in Seq(Byte), PartConcat
  <2>4. Part(body \o piece, l + 0, l + z) = Part(piece, 0, z)
    BY <2>8 DEF l
  <2>5. Part(piece, 0, z) = piece
    BY PartFull DEF z
  <2>6. Part(b, l, l + z) = piece
    <3>1. l + 0 = l
      BY <1>2
    <3> QED BY <2>4, <2>5, <3>1 DEF b
  <2> QED BY <1>3, <2>2, <2>3, <2>6, Zenon
<1>11. ASSUME NEW i \in 1..Len(t)
       PROVE  t[i].id \in DOMAIN m /\ m[t[i].id] = Part(b, Before(t, i), Before(t, i) + t[i].size)
  <2>1. i \in 1..n \/ i = n + 1
    BY <1>1, <1>3
  <2> QED BY <1>9, <1>10, <2>1, Zenon
<1>12. Holds(m, t, b)
  BY <1>2, <1>3, <1>5, <1>11 DEF Holds
<1> QED BY <1>12 DEF t, b

\* One more row in its place.
LEMMA InOrderMore ==
  ASSUME NEW rows \in Seq(Chunks), InOrder(rows), NEW r \in Chunks, r.offset = SizeOf(rows)
  PROVE  InOrder(Append(rows, r))
<1> DEFINE n == Len(rows)
           t == Append(rows, r)
<1>1. n \in Nat
  OBVIOUS
<1>2. t \in Seq(Chunks) /\ Len(t) = n + 1 /\ (\A i \in 1..n : t[i] = rows[i]) /\ t[n + 1] = r
  BY Appended
<1>3. \A i \in 1..n + 1 : Before(t, i) = Before(rows, i)
  BY BeforeAppend
<1>4. Before(rows, n + 1) = SizeOf(rows)
  BY BeforeSteps
<1>5. \A i \in 1..n : rows[i].offset = Before(rows, i)
  BY DEF InOrder
<1> HIDE DEF t, n
<1>6. ASSUME NEW i \in 1..Len(t)
      PROVE  t[i].offset = Before(t, i)
  <2>1. i \in 1..n + 1 /\ (i \in 1..n \/ i = n + 1)
    BY <1>1, <1>2
  <2>2. CASE i \in 1..n
    BY <1>2, <1>3, <1>5, <2>1, <2>2, Zenon
  <2>3. CASE i = n + 1
    BY <1>2, <1>3, <1>4, <2>1, <2>3, Zenon
  <2> QED BY <2>1, <2>2, <2>3
<1>7. InOrder(t)
  BY <1>6 DEF InOrder
<1> QED BY <1>7 DEF t

\* m2 has the messages ids of m, unchanged.
Preserves(m, m2, ids) == \A i \in ids : i \in DOMAIN m => i \in DOMAIN m2 /\ m2[i] = m[i]

\* Other messages do not matter.
LEMMA HoldsElsewhere ==
  ASSUME NEW m, NEW m2, NEW rows, NEW body, LaidOut(m, rows, body), Preserves(m, m2, IdsOf(rows))
  PROVE  LaidOut(m2, rows, body)
<1>1. DOMAIN rows = 1..Len(rows)
  BY DEF LaidOut, Holds
<1>2. \A i \in 1..Len(rows) : rows[i].id \in IdsOf(rows)
  BY <1>1 DEF IdsOf
<1> QED BY <1>2, Zenon DEF LaidOut, Holds, Preserves

\* An element after two sequences is one after the second.
Shifts(s, t, e) == Append(s \o t, e) = s \o Append(t, e)

\* It always is.
LEMMA AppendConcat ==
  ASSUME NEW S, NEW s \in Seq(S), NEW t \in Seq(S), NEW e \in S
  PROVE  Shifts(s, t, e)
<1>1. s \o t \in Seq(S) /\ <<e>> \in Seq(S)
  OBVIOUS
<1>2. Append(s \o t, e) = (s \o t) \o <<e>> /\ Append(t, e) = t \o <<e>>
  BY <1>1, AppendIsConcat
<1>3. (s \o t) \o <<e>> = s \o (t \o <<e>>)
  BY <1>1, ConcatAssociative
<1> QED BY <1>2, <1>3, Zenon DEF Shifts

\* Two chunk maps, one after the other.
LEMMA HoldsBoth ==
  ASSUME NEW m, NEW r1, NEW b1, Holds(m, r1, b1), NEW r2, NEW b2, Holds(m, r2, b2)
  PROVE  Holds(m, r1 \o r2, b1 \o b2)
<1> DEFINE n == Len(r2)
           R(k) == r1 \o SubSeq(r2, 1, k)
           B(k) == b1 \o Part(b2, 0, Before(r2, k + 1))
           T == {k \in Nat : k <= n => Holds(m, R(k), B(k))}
<1>1. r1 \in Seq(Chunks) /\ b1 \in Seq(Byte) /\ r2 \in Seq(Chunks) /\ b2 \in Seq(Byte)
  BY DEF Holds
<1>2. SizeOf(r2) = Len(b2)
  BY DEF Holds
<1>3. n \in Nat /\ Len(b2) \in Nat
  BY <1>1
<1>4. Holds(m, R(0), B(0))
  <2>1. SubSeq(r2, 1, 0) = <<>>
    BY EmptySeq
  <2>2. r1 \o <<>> = r1 /\ b1 \o <<>> = b1
    BY <1>1
  <2>3. 0 + 1 = 1
    OBVIOUS
  <2>4. Before(r2, 1) = 0
    BY <1>1, BeforeSteps
  <2>5. Part(b2, 0, 0) = <<>>
    BY PartEmpty
  <2>6. R(0) = r1
    BY <2>1, <2>2
  <2>7. B(0) = b1
    BY <2>2, <2>3, <2>4, <2>5
  <2> HIDE DEF R, B
  <2> QED BY <2>6, <2>7
<1>5. ASSUME NEW k \in Nat, k + 1 <= n, Holds(m, R(k), B(k))
      PROVE  Holds(m, R(k + 1), B(k + 1))
  <2> DEFINE j == k + 1
             r == r2[j]
             x == Before(r2, j)
             y == x + r.size
             piece == m[r.id]
  <2>1. j \in 1..n /\ j - 1 = k
    BY <1>3, <1>5
  <2>2. r \in Chunks
    BY <1>1, <2>1, SizesType
  <2>3. r.id \in DOMAIN m /\ piece = Part(b2, x, y)
    BY <2>1 DEF Holds
  <2>4. x \in Nat /\ y \in Nat /\ x <= y /\ y <= Len(b2) /\ r.size \in Nat
    BY <1>1, <1>2, <2>1, RowPlace
  <2>5. Before(r2, j + 1) = y
    BY <1>1, <2>1, BeforeSteps
  <2>6. SubSeq(r2, 1, j) = Append(SubSeq(r2, 1, k), r)
    <3>1. SubSeq(r2, 1, j) = Append(SubSeq(r2, 1, j - 1), r2[j])
      BY <1>1, <2>1, NextBeginning
    <3> HIDE DEF j
    <3> QED BY <2>1, <3>1
  <2> HIDE DEF j, x, y, piece, r
  <2>7. piece \in Seq(Byte) /\ Len(piece) = r.size
    <3>1. Part(b2, x, y) \in Seq(Byte) /\ Len(Part(b2, x, y)) = y - x
      BY ONLY <1>1, <2>4, PartType
    <3>2. y - x = r.size
      BY <2>4 DEF y
    <3> QED BY <2>3, <3>1, <3>2
  <2>8. Holds(m, Append(R(k), r), B(k) \o piece)
    <3> HIDE DEF R, B
    <3> QED BY <1>5, <2>2, <2>3, <2>7, HoldsMore DEF piece
  <2>9. Append(R(k), r) = R(j)
    <3>1. SubSeq(r2, 1, k) \in Seq(Chunks)
      BY <1>1, <1>3, <2>1, Beginning DEF j
    <3> DEFINE p == SubSeq(r2, 1, k)
    <3>3. p \in Seq(Chunks)
      BY <3>1
    <3> HIDE DEF p
    <3>2. Append(r1 \o p, r) = r1 \o Append(p, r)
      <4>1. Shifts(r1, p, r)
        BY ONLY <1>1, <3>3, <2>2, AppendConcat
      <4> QED BY <4>1, Zenon DEF Shifts
    <3> QED BY <2>6, <3>2 DEF p
  <2>10. B(k) \o piece = B(j)
    <3> DEFINE p == Part(b2, 0, x)
    <3>1. 0 \in Nat /\ 0 <= x
      BY <2>4
    <3>2. p \in Seq(Byte)
      BY <1>1, <2>4, <3>1, PartType
    <3>3. Part(b2, 0, x) \o Part(b2, x, y) = Part(b2, 0, y)
      BY ONLY <1>1, <2>4, <3>1, PartJoin
    <3>4. (b1 \o p) \o piece = b1 \o (p \o piece)
      <4> HIDE DEF p
      <4>1. piece \in Seq(Byte) /\ b1 \in Seq(Byte)
        BY <1>1, <2>7
      <4> QED BY ONLY <4>1, <3>2, ConcatAssociative
    <3>5. p \o piece = Part(b2, 0, y)
      BY <2>3, <3>3
    <3>6. B(k) = b1 \o p
      BY DEF j, x
    <3>7. B(j) = b1 \o Part(b2, 0, y)
      BY <2>5
    <3> HIDE DEF B, p
    <3> QED BY <3>4, <3>5, <3>6, <3>7
  <2> HIDE DEF R, B
  <2>11. Holds(m, R(j), B(j))
    BY <2>8, <2>9, <2>10
  <2> QED BY <2>11 DEF j
<1> HIDE DEF R, B
<1>6. 0 \in T
  BY <1>3, <1>4
<1>7. \A k \in Nat : k \in T => k + 1 \in T
  <2> TAKE k \in Nat
  <2> HAVE k \in T
  <2> SUFFICES ASSUME k + 1 <= n
               PROVE  Holds(m, R(k + 1), B(k + 1))
    OBVIOUS
  <2>1. k <= n
    BY <1>3
  <2>2. Holds(m, R(k), B(k))
    BY <2>1
  <2> QED BY <1>5, <2>2
<1> HIDE DEF T
<1>8. n \in T
  <2>1. \A k \in Nat : k \in T
    BY <1>6, <1>7, Inductive
  <2> QED BY <1>3, <2>1
<1>9. Holds(m, R(n), B(n))
  <2>1. n <= n
    BY <1>3
  <2> QED BY <1>8, <2>1 DEF T
<1>10. SubSeq(r2, 1, n) = r2
  BY <1>1, <1>3, Beginning
<1>11. Part(b2, 0, Before(r2, n + 1)) = b2
  <2>1. Before(r2, n + 1) = Len(b2)
    BY <1>1, <1>2, BeforeSteps
  <2> QED BY <1>1, <2>1, PartFull
<1> QED BY <1>9, <1>10, <1>11 DEF R, B

\* Rows with the bytes of their messages.
DataOf(m, rows) ==
  [i \in DOMAIN rows |-> [offset |-> rows[i].offset, size |-> rows[i].size, data |-> m[rows[i].id]]]

\* The row of a byte.
LEMMA RowOf ==
  ASSUME NEW rows \in Seq(Chunks), NEW cur \in Nat, cur < SizeOf(rows)
  PROVE  \E i \in 1..Len(rows) : Before(rows, i) <= cur /\ cur < Before(rows, i + 1)
<1> DEFINE n == Len(rows)
           T == {i \in Nat : i \in 1..n + 1 /\ cur < Before(rows, i)}
<1>1. n \in Nat
  OBVIOUS
<1>2. \A i \in 1..n + 1 : Before(rows, i) \in Nat
  BY BeforeSteps
<1>3. Before(rows, 1) = 0 /\ Before(rows, n + 1) = SizeOf(rows)
  BY BeforeSteps
<1> HIDE DEF n
<1>4. n + 1 \in T
  BY <1>1, <1>3
<1>5. PICK j \in T : \A k \in T : j <= k
  <2>1. T \in SUBSET Nat /\ T # {}
    BY <1>4
  <2> HIDE DEF T
  <2> QED BY <2>1, LeastNumber
<1>6. j \in 1..n + 1 /\ cur < Before(rows, j)
  OBVIOUS
<1>7. j # 1
  <2>1. ~(cur < 0)
    OBVIOUS
  <2> QED BY <1>3, <1>6, <2>1
<1>8. j - 1 \in 1..n /\ j - 1 \in 1..n + 1 /\ (j - 1) + 1 = j /\ ~(j <= j - 1) /\ j - 1 \in Nat
  BY <1>1, <1>6, <1>7
<1>9. ~(cur < Before(rows, j - 1))
  BY <1>5, <1>8
<1> DEFINE i == j - 1
<1>10. Before(rows, i) \in Nat
  BY <1>2, <1>8
<1>11. Before(rows, i) <= cur
  <2> DEFINE x == Before(rows, i)
  <2> HIDE DEF x
  <2> QED BY <1>9, <1>10 DEF x
<1>12. cur < Before(rows, i + 1)
  BY <1>6, <1>8
<1>13. i \in 1..n
  BY <1>8
<1> QED BY <1>11, <1>12, <1>13 DEF n

\* A GET reads the body that is laid out.
LEMMA DataMap ==
  ASSUME NEW m, NEW rows, NEW body, LaidOut(m, rows, body)
  PROVE  IsMap(DataOf(m, rows), body)
<1> DEFINE d == DataOf(m, rows)
           n == Len(rows)
<1>1. rows \in Seq(Chunks) /\ body \in Seq(Byte) /\ n \in Nat /\ DOMAIN rows = 1..n
  BY DEF LaidOut, Holds
<1>2. DOMAIN d = 1..n /\ Len(d) = n
  BY <1>1 DEF DataOf
<1>3. \A i \in 1..n : d[i].offset = rows[i].offset /\ d[i].size = rows[i].size /\ d[i].data = m[rows[i].id]
  BY <1>1 DEF DataOf
<1>4. \A i \in 1..n : rows[i].offset = Before(rows, i)
  BY DEF LaidOut, InOrder
<1>5. \A i \in 1..n : m[rows[i].id] = Part(body, Before(rows, i), Before(rows, i) + rows[i].size)
  BY DEF LaidOut, Holds
<1>6. SizeOf(rows) = Len(body)
  BY DEF LaidOut, Holds
<1> HIDE DEF d, n
<1>7. ASSUME NEW i \in 1..n
      PROVE  /\ d[i].offset = Before(rows, i)
             /\ d[i].offset + d[i].size = Before(rows, i + 1)
  <2>1. Before(rows, i + 1) = Before(rows, i) + rows[i].size
    BY <1>1, BeforeSteps DEF n
  <2>2. d[i].offset = Before(rows, i) /\ d[i].size = rows[i].size
    BY <1>3, <1>4, Zenon
  <2> QED BY <2>1, <2>2, Zenon
<1>8. ASSUME NEW i \in 1..n
      PROVE  /\ d[i].offset \in Nat
             /\ d[i].size \in Nat \ {0}
             /\ d[i].offset + d[i].size <= Len(body)
             /\ d[i].data = Part(body, d[i].offset, d[i].offset + d[i].size)
  <2>1. /\ Before(rows, i) \in Nat
        /\ rows[i].size \in Nat \ {0}
        /\ Before(rows, i) + rows[i].size <= SizeOf(rows)
    BY <1>1, RowPlace DEF n
  <2>2. d[i].offset = Before(rows, i) /\ d[i].size = rows[i].size
    BY <1>3, <1>4, Zenon
  <2> QED BY <1>3, <1>5, <1>6, <2>1, <2>2, Zenon
<1>9. ASSUME NEW i \in 1..n, NEW j \in 1..n, i < j
      PROVE  d[i].offset + d[i].size <= d[j].offset
  <2>1. i + 1 \in 1..n + 1 /\ j \in 1..n + 1 /\ i + 1 <= j
    BY <1>1, <1>9
  <2>2. Before(rows, i + 1) <= Before(rows, j)
    BY <1>1, <2>1, BeforeGrows DEF n
  <2> QED BY <1>7, <2>2, Zenon
<1>10. ASSUME NEW cur \in 0..Len(body) - 1
       PROVE  \E i \in 1..n : d[i].offset <= cur /\ cur < d[i].offset + d[i].size
  <2>1. cur \in Nat /\ cur < SizeOf(rows)
    BY <1>1, <1>6
  <2>2. PICK i \in 1..n : Before(rows, i) <= cur /\ cur < Before(rows, i + 1)
    BY <1>1, <2>1, RowOf DEF n
  <2> QED BY <1>7, <2>2, Zenon
<1>11. IsMap(d, body)
  <2>1. Len(d) \in Nat /\ DOMAIN d = 1..Len(d) /\ Len(d) = n
    BY <1>1, <1>2
  <2> QED BY <1>1, <1>8, <1>9, <1>10, <2>1, Zenon DEF IsMap
<1> QED BY <1>11 DEF d

\* The ids of one more row and of two chunk maps.
LEMMA IdsMore ==
  ASSUME NEW rows \in Seq(Chunks), NEW r \in Chunks
  PROVE  IdsOf(Append(rows, r)) = IdsOf(rows) \cup {r.id}
<1> DEFINE n == Len(rows)
           t == Append(rows, r)
<1>1. t \in Seq(Chunks) /\ Len(t) = n + 1 /\ (\A i \in 1..n : t[i] = rows[i]) /\ t[n + 1] = r
  BY Appended
<1>2. n \in Nat /\ DOMAIN rows = 1..n /\ DOMAIN t = 1..n + 1
  BY <1>1
<1> HIDE DEF n, t
<1>3. ASSUME NEW x \in IdsOf(t)
      PROVE  x \in IdsOf(rows) \cup {r.id}
  <2>1. PICK i \in 1..n + 1 : x = t[i].id
    BY <1>2 DEF IdsOf
  <2>2. i \in 1..n \/ i = n + 1
    BY <1>2
  <2>3. CASE i \in 1..n
    BY <1>1, <1>2, <2>1, <2>3 DEF IdsOf
  <2>4. CASE i = n + 1
    BY <1>1, <2>1, <2>4
  <2> QED BY <2>2, <2>3, <2>4
<1>4. ASSUME NEW x \in IdsOf(rows)
      PROVE  x \in IdsOf(t)
  <2>1. PICK i \in 1..n : x = rows[i].id
    BY <1>2 DEF IdsOf
  <2>2. i \in 1..n + 1 /\ t[i] = rows[i]
    BY <1>1, <1>2
  <2> QED BY <1>2, <2>1, <2>2 DEF IdsOf
<1>5. r.id \in IdsOf(t)
  <2>1. n + 1 \in 1..n + 1
    BY <1>2
  <2> QED BY <1>1, <1>2, <2>1 DEF IdsOf
<1>6. IdsOf(t) = IdsOf(rows) \cup {r.id}
  BY <1>3, <1>4, <1>5
<1> QED BY <1>6 DEF t

\* ... and of two chunk maps.
LEMMA IdsBoth ==
  ASSUME NEW r1 \in Seq(Chunks), NEW r2 \in Seq(Chunks)
  PROVE  IdsOf(r1 \o r2) = IdsOf(r1) \cup IdsOf(r2)
<1> DEFINE a == Len(r1)
           b == Len(r2)
           t == r1 \o r2
<1>1. a \in Nat /\ b \in Nat /\ t \in Seq(Chunks) /\ Len(t) = a + b
  BY Concat
<1>2. /\ \A i \in 1..a : t[i] = r1[i]
      /\ \A i \in 1..b : t[a + i] = r2[i]
  BY ConcatProperties
<1>3. DOMAIN r1 = 1..a /\ DOMAIN r2 = 1..b /\ DOMAIN t = 1..a + b
  BY <1>1
<1> HIDE DEF a, b, t
<1>4. ASSUME NEW x \in IdsOf(t)
      PROVE  x \in IdsOf(r1) \cup IdsOf(r2)
  <2>1. PICK i \in 1..a + b : x = t[i].id
    BY <1>3 DEF IdsOf
  <2>2. CASE i \in 1..a
    BY <1>2, <1>3, <2>1, <2>2 DEF IdsOf
  <2>3. CASE ~(i \in 1..a)
    <3> DEFINE j == i - a
    <3>1. j \in 1..b /\ a + j = i
      BY <1>1, <2>3
    <3> HIDE DEF j
    <3> QED BY <1>2, <1>3, <2>1, <3>1 DEF IdsOf
  <2> QED BY <2>2, <2>3
<1>5. ASSUME NEW x \in IdsOf(r1)
      PROVE  x \in IdsOf(t)
  <2>1. PICK i \in 1..a : x = r1[i].id
    BY <1>3 DEF IdsOf
  <2>2. i \in 1..a + b /\ t[i] = r1[i]
    BY <1>1, <1>2
  <2> QED BY <1>3, <2>1, <2>2 DEF IdsOf
<1>6. ASSUME NEW x \in IdsOf(r2)
      PROVE  x \in IdsOf(t)
  <2>1. PICK i \in 1..b : x = r2[i].id
    BY <1>3 DEF IdsOf
  <2>2. a + i \in 1..a + b /\ t[a + i] = r2[i]
    BY <1>1, <1>2
  <2> QED BY <1>3, <2>1, <2>2 DEF IdsOf
<1>7. IdsOf(t) = IdsOf(r1) \cup IdsOf(r2)
  BY <1>4, <1>5, <1>6
<1> QED BY <1>7 DEF t

\* Rows moved to where the sizes before them put them.
Placed(rows) == [i \in DOMAIN rows |-> [rows[i] EXCEPT !.offset = SizeOf(SubSeq(rows, 1, i - 1))]]

\* Each keeps its message and its size.
LEMMA PlacedRows ==
  ASSUME NEW rows \in Seq(Chunks)
  PROVE  /\ Placed(rows) \in Seq(Chunks)
         /\ Len(Placed(rows)) = Len(rows)
         /\ \A i \in 1..Len(rows) :
              /\ Placed(rows)[i].id = rows[i].id
              /\ Placed(rows)[i].size = rows[i].size
              /\ Placed(rows)[i].offset = Before(rows, i)
<1> DEFINE n == Len(rows)
           t == Placed(rows)
<1>1. n \in Nat /\ DOMAIN rows = 1..n
  OBVIOUS
<1>2. t = [i \in 1..n |-> [rows[i] EXCEPT !.offset = Before(rows, i)]]
  BY <1>1 DEF Placed, Before
<1> HIDE DEF t
<1>3. ASSUME NEW i \in 1..n
      PROVE  /\ t[i] \in Chunks
             /\ t[i].id = rows[i].id
             /\ t[i].size = rows[i].size
             /\ t[i].offset = Before(rows, i)
  <2>1. rows[i] \in Chunks
    BY SizesType
  <2>2. Before(rows, i) \in Nat
    BY RowPlace
  <2> DEFINE r == rows[i]
             o == Before(rows, i)
  <2>3. t[i] = [r EXCEPT !.offset = o]
    BY <1>2
  <2>9. r \in Chunks
    BY <2>1
  <2> HIDE DEF r, o
  <2>4. [r EXCEPT !.offset = o] = [id |-> r.id, offset |-> o, size |-> r.size]
    <3> DEFINE a == r.id
               b == r.offset
               c == r.size
    <3>1. r = [id |-> a, offset |-> b, size |-> c]
      BY <2>9 DEF Chunks
    <3>2. [[id |-> a, offset |-> b, size |-> c] EXCEPT !.offset = o] = [id |-> a, offset |-> o, size |-> c]
      OBVIOUS
    <3> HIDE DEF a, b, c
    <3> QED BY <3>1, <3>2, Zenon DEF a, c
  <2>5. r.id \in Nat /\ r.size \in Nat \ {0} /\ o \in Nat
    BY <2>1, <2>2 DEF Chunks, r, o
  <2>6. t[i].id = r.id /\ t[i].size = r.size /\ t[i].offset = o
    BY <2>3, <2>4
  <2>7. [id |-> r.id, offset |-> o, size |-> r.size] \in Chunks
    BY <2>5 DEF Chunks
  <2>8. t[i] \in Chunks
    BY <2>3, <2>4, <2>7
  <2> QED BY <2>6, <2>8 DEF r, o
<1>4. t \in Seq(Chunks) /\ Len(t) = n
  <2>1. t \in [1..n -> Chunks]
    <3> HIDE DEF n
    <3> QED BY <1>2, <1>3
  <2> HIDE DEF n
  <2> QED BY <1>1, <2>1
<1> QED BY <1>3, <1>4, Zenon DEF n, t

\* So they lie in order and hold the same.
LEMMA PlacedHolds ==
  ASSUME NEW m, NEW rows, NEW body, Holds(m, rows, body)
  PROVE  /\ LaidOut(m, Placed(rows), body)
         /\ IdsOf(Placed(rows)) = IdsOf(rows)
         /\ SizeOf(Placed(rows)) = Len(body)
<1> DEFINE n == Len(rows)
           t == Placed(rows)
<1>1. rows \in Seq(Chunks) /\ body \in Seq(Byte) /\ SizeOf(rows) = Len(body) /\ n \in Nat /\ DOMAIN rows = 1..n
  BY DEF Holds
<1>2. /\ t \in Seq(Chunks)
      /\ Len(t) = n
      /\ \A i \in 1..n : t[i].id = rows[i].id /\ t[i].size = rows[i].size /\ t[i].offset = Before(rows, i)
  BY <1>1, PlacedRows
<1> HIDE DEF t
<1>3. ASSUME NEW k \in 0..n
      PROVE  SizeOf(SubSeq(t, 1, k)) = SizeOf(SubSeq(rows, 1, k))
  <2> DEFINE p == SubSeq(t, 1, k)
             q == SubSeq(rows, 1, k)
  <2>1. k \in Nat /\ \A i \in 1..k : i \in 1..n
    BY <1>1
  <2>2. p \in Seq(Chunks) /\ Len(p) = k /\ \A i \in 1..k : p[i] = t[i]
    BY <1>2, Beginning
  <2>3. q \in Seq(Chunks) /\ Len(q) = k /\ \A i \in 1..k : q[i] = rows[i]
    BY <1>1, Beginning
  <2> HIDE DEF n, p, q
  <2>4. \A i \in 1..k : p[i].size = q[i].size
    BY <1>2, <2>1, <2>2, <2>3, Zenon
  <2>5. SizesOf(p) = SizesOf(q)
    BY <2>2, <2>3, <2>4 DEF SizesOf
  <2>6. SizeOf(p) = SizeOf(q)
    BY <2>2, <2>3, <2>5, SameSize
  <2> QED BY <2>6 DEF p, q
<1>4. ASSUME NEW i \in 1..n
      PROVE  Before(t, i) = Before(rows, i)
  <2> DEFINE k == i - 1
  <2>1. k \in 0..n
    BY <1>1
  <2> HIDE DEF k
  <2>2. SizeOf(SubSeq(t, 1, k)) = SizeOf(SubSeq(rows, 1, k))
    BY <1>3, <2>1
  <2> QED BY <2>2 DEF Before, k
<1>5. SizeOf(t) = Len(body)
  <2>1. n \in 0..n
    BY <1>1
  <2>2. SizeOf(SubSeq(t, 1, n)) = SizeOf(SubSeq(rows, 1, n))
    BY <1>3, <2>1
  <2>3. SubSeq(t, 1, n) = t
    BY <1>2, <2>1, Beginning
  <2>4. SubSeq(rows, 1, n) = rows
    BY <1>1, <2>1, Beginning
  <2> QED BY <1>1, <2>2, <2>3, <2>4
<1>6. \A i \in 1..n : rows[i].id \in DOMAIN m /\ m[rows[i].id] = Part(body, Before(rows, i), Before(rows, i) + rows[i].size)
  BY DEF Holds
<1> HIDE DEF n
<1>7. \A i \in 1..Len(t) : t[i].id \in DOMAIN m /\ m[t[i].id] = Part(body, Before(t, i), Before(t, i) + t[i].size)
  BY <1>2, <1>4, <1>6, Zenon
<1>8. Holds(m, t, body)
  BY <1>1, <1>2, <1>5, <1>7 DEF Holds
<1>9. InOrder(t)
  BY <1>2, <1>4, Zenon DEF InOrder
<1>10. IdsOf(t) = IdsOf(rows)
  <2>1. DOMAIN t = 1..n
    BY <1>2
  <2> QED BY <1>1, <1>2, <2>1 DEF IdsOf
<1> QED BY <1>5, <1>8, <1>9, <1>10, Zenon DEF LaidOut, t

\* A prefix of a list, joined, and the next one.
LEMMA FlattenNext ==
  ASSUME NEW S, NEW s \in Seq(Seq(S)), NEW k \in 1..Len(s)
  PROVE  /\ FlattenSeq(SubSeq(s, 1, k)) = FlattenSeq(SubSeq(s, 1, k - 1)) \o s[k]
         /\ FlattenSeq(SubSeq(s, 1, k - 1)) \in Seq(S)
         /\ s[k] \in Seq(S)
<1> DEFINE j == k - 1
<1>1. j \in 0..Len(s)
  OBVIOUS
<1>2. SubSeq(s, 1, k) = Append(SubSeq(s, 1, j), s[k])
  BY NextBeginning
<1> HIDE DEF j
<1>3. SubSeq(s, 1, j) \in Seq(Seq(S))
  BY <1>1, Beginning
<1>4. s[k] \in Seq(S)
  OBVIOUS
<1>5. FlattenSeq(Append(SubSeq(s, 1, j), s[k])) = FlattenSeq(SubSeq(s, 1, j)) \o s[k]
  BY <1>3, <1>4, FlattenAppend
<1>6. FlattenSeq(SubSeq(s, 1, j)) \in Seq(S)
  BY <1>3, <1>4, FlattenAppend
<1> QED BY <1>2, <1>4, <1>5, <1>6, Zenon DEF j

\* None, joined, and all of a list.
LEMMA FlattenEnds ==
  ASSUME NEW S, NEW s \in Seq(Seq(S))
  PROVE  /\ FlattenSeq(SubSeq(s, 1, 0)) = <<>>
         /\ FlattenSeq(SubSeq(s, 1, Len(s))) = FlattenSeq(s)
         /\ FlattenSeq(s) \in Seq(S)
<1>1. SubSeq(s, 1, 0) = <<>>
  BY EmptySeq
<1>2. <<>> \in Seq(S)
  BY EmptySeq
<1>3. FlattenSeq(<<>>) = <<>> /\ FlattenSeq(s) \in Seq(S)
  BY <1>2, FlattenAppend
<1>4. Len(s) \in 0..Len(s)
  OBVIOUS
<1>5. SubSeq(s, 1, Len(s)) = s
  BY <1>4, Beginning
<1> QED BY <1>1, <1>3, <1>5, Zenon

\* Where frame k of a body ends in its bytes.
FrameEnd(frames, k) == Len(FlattenSeq(SubSeq(frames, 1, k)))

\* A frame ends as many bytes after the one before it as it has.
LEMMA FrameEnds ==
  ASSUME NEW s \in Seq(Seq(Byte))
  PROVE  /\ FrameEnd(s, 0) = 0
         /\ FrameEnd(s, Len(s)) = Len(FlattenSeq(s))
         /\ \A k \in 0..Len(s) : FrameEnd(s, k) \in Nat
         /\ \A k \in 1..Len(s) : Len(s[k]) \in Nat /\ FrameEnd(s, k) = FrameEnd(s, k - 1) + Len(s[k])
<1> DEFINE n == Len(s)
<1>1. FrameEnd(s, 0) = 0
  <2>1. FlattenSeq(SubSeq(s, 1, 0)) = <<>>
    BY FlattenEnds
  <2> QED BY <2>1, EmptySeq DEF FrameEnd
<1>2. FrameEnd(s, n) = Len(FlattenSeq(s))
  BY FlattenEnds, Zenon DEF FrameEnd
<1>3. ASSUME NEW k \in 0..n
      PROVE  FrameEnd(s, k) \in Nat
  <2>1. SubSeq(s, 1, k) \in Seq(Seq(Byte))
    BY Beginning
  <2> DEFINE p == SubSeq(s, 1, k)
  <2> HIDE DEF p
  <2>2. FlattenSeq(p) \in Seq(Byte)
    BY <2>1, FlattenEnds DEF p
  <2>3. Len(FlattenSeq(p)) \in Nat
    BY <2>2
  <2> QED BY <2>3 DEF FrameEnd, p
<1>4. ASSUME NEW k \in 1..n
      PROVE  Len(s[k]) \in Nat /\ FrameEnd(s, k) = FrameEnd(s, k - 1) + Len(s[k])
  <2> DEFINE a == FlattenSeq(SubSeq(s, 1, k - 1))
             b == s[k]
             c == FlattenSeq(SubSeq(s, 1, k))
  <2>1. c = a \o b /\ a \in Seq(Byte) /\ b \in Seq(Byte)
    BY FlattenNext
  <2> HIDE DEF a, b, c
  <2>2. Len(c) = Len(a) + Len(b) /\ Len(b) \in Nat
    BY <2>1, Concat
  <2> QED BY <2>2 DEF FrameEnd, a, b, c
<1> QED BY <1>1, <1>2, <1>3, <1>4

\* No frame ends behind the last.
LEMMA FrameWithin ==
  ASSUME NEW s \in Seq(Seq(Byte)), NEW k \in 0..Len(s)
  PROVE  FrameEnd(s, k) <= Len(FlattenSeq(s))
<1> DEFINE n == Len(s)
           T == {d \in Nat : k + d <= n => FrameEnd(s, k) <= FrameEnd(s, k + d)}
<1>1. n \in Nat
  OBVIOUS
<1>2. \A i \in 0..n : FrameEnd(s, i) \in Nat
  BY FrameEnds
<1>3. \A i \in 1..n : Len(s[i]) \in Nat /\ FrameEnd(s, i) = FrameEnd(s, i - 1) + Len(s[i])
  BY FrameEnds
<1>4. FrameEnd(s, n) = Len(FlattenSeq(s))
  BY FrameEnds
<1> HIDE DEF n
<1>5. 0 \in T
  <2>1. k + 0 = k /\ k \in 0..n
    BY <1>1 DEF n
  <2>2. FrameEnd(s, k) <= FrameEnd(s, k)
    BY <1>2, <2>1
  <2> QED BY <2>1, <2>2
<1>6. ASSUME NEW d \in Nat, d \in T
      PROVE  d + 1 \in T
  <2> SUFFICES ASSUME k + (d + 1) <= n
               PROVE  FrameEnd(s, k) <= FrameEnd(s, k + (d + 1))
    OBVIOUS
  <2> DEFINE i == k + (d + 1)
  <2>1. i \in 1..n /\ i - 1 = k + d /\ k + d <= n /\ k \in 0..n /\ k + d \in 0..n
    BY <1>1 DEF n
  <2>2. FrameEnd(s, k) <= FrameEnd(s, k + d)
    BY <1>6, <2>1
  <2> HIDE DEF i
  <2> DEFINE x == FrameEnd(s, k)
             y == FrameEnd(s, k + d)
             z == Len(s[i])
  <2>3. FrameEnd(s, i) = y + z /\ z \in Nat
    BY <1>3, <2>1
  <2>4. x \in Nat /\ y \in Nat
    BY <1>2, <2>1
  <2>5. x <= y
    BY <2>2
  <2> HIDE DEF x, y, z
  <2>6. x <= y + z
    BY <2>3, <2>4, <2>5
  <2> QED BY <2>3, <2>6 DEF x, i
<1> HIDE DEF T
<1>7. \A d \in Nat : d \in T
  BY <1>5, <1>6, Inductive
<1>8. n - k \in Nat /\ k + (n - k) = n /\ k + (n - k) <= n
  BY <1>1 DEF n
<1>9. n - k \in T
  BY <1>7, <1>8
<1>10. FrameEnd(s, k) <= FrameEnd(s, k + (n - k))
  BY <1>8, <1>9 DEF T
<1> QED BY <1>4, <1>8, <1>10

\* Each chunk map of a list holds its body.
HoldEach(m, rs, bs) == \A i \in 1..Len(rs) : Holds(m, rs[i], bs[i])

\* So they do together.
LEMMA HoldsList ==
  ASSUME NEW m, NEW rs \in Seq(Seq(Chunks)), NEW bs \in Seq(Seq(Byte)), Len(bs) = Len(rs),
         HoldEach(m, rs, bs)
  PROVE  Holds(m, FlattenSeq(rs), FlattenSeq(bs))
<1> DEFINE n == Len(rs)
           R(k) == FlattenSeq(SubSeq(rs, 1, k))
           B(k) == FlattenSeq(SubSeq(bs, 1, k))
           T == {k \in Nat : k <= n => Holds(m, R(k), B(k))}
<1>1. n \in Nat
  OBVIOUS
<1>2. Holds(m, R(0), B(0))
  <2>1. R(0) = <<>> /\ B(0) = <<>>
    BY FlattenEnds
  <2> HIDE DEF R, B
  <2> QED BY <2>1, HoldsNothing DEF LaidOut
<1>3. ASSUME NEW k \in Nat, k + 1 <= n, Holds(m, R(k), B(k))
      PROVE  Holds(m, R(k + 1), B(k + 1))
  <2> DEFINE j == k + 1
  <2>1. j \in 1..n /\ j - 1 = k
    BY <1>1, <1>3
  <2> HIDE DEF j
  <2>2. R(j) = R(j - 1) \o rs[j]
    BY <2>1, FlattenNext
  <2>3. B(j) = B(j - 1) \o bs[j]
    BY <2>1, FlattenNext
  <2>4. Holds(m, rs[j], bs[j])
    BY <2>1 DEF HoldEach
  <2> HIDE DEF R, B
  <2>5. Holds(m, R(k) \o rs[j], B(k) \o bs[j])
    BY <1>3, <2>4, HoldsBoth
  <2>6. Holds(m, R(j), B(j))
    BY <2>1, <2>2, <2>3, <2>5
  <2> QED BY <2>6 DEF j
<1>4. R(n) = FlattenSeq(rs) /\ B(n) = FlattenSeq(bs)
  BY FlattenEnds
<1> HIDE DEF R, B
<1>5. 0 \in T
  BY <1>2
<1>6. ASSUME NEW k \in Nat, k \in T
      PROVE  k + 1 \in T
  <2> SUFFICES ASSUME k + 1 <= n
               PROVE  Holds(m, R(k + 1), B(k + 1))
    OBVIOUS
  <2>1. k <= n
    BY <1>1
  <2>2. Holds(m, R(k), B(k))
    BY <1>6, <2>1
  <2> QED BY <1>3, <2>2
<1> HIDE DEF T
<1>7. \A k \in Nat : k \in T
  BY <1>5, <1>6, Inductive
<1>8. n \in T
  BY <1>1, <1>7
<1>9. n <= n
  BY <1>1
<1> QED BY <1>4, <1>8, <1>9 DEF T

\* The ids of the rows of a list.
LEMMA IdsList ==
  ASSUME NEW rs \in Seq(Seq(Chunks))
  PROVE  IdsOf(FlattenSeq(rs)) = UNION {IdsOf(rs[i]) : i \in 1..Len(rs)}
<1> DEFINE n == Len(rs)
           R(k) == FlattenSeq(SubSeq(rs, 1, k))
           U(k) == UNION {IdsOf(rs[i]) : i \in 1..k}
           T == {k \in Nat : k <= n => IdsOf(R(k)) = U(k)}
<1>1. n \in Nat
  OBVIOUS
<1>2. IdsOf(R(0)) = U(0)
  <2>1. R(0) = <<>>
    BY FlattenEnds
  <2>2. IdsOf(<<>>) = {}
    BY DEF IdsOf
  <2>3. U(0) = {}
    OBVIOUS
  <2> HIDE DEF R, U
  <2> QED BY <2>1, <2>2, <2>3
<1>3. ASSUME NEW k \in Nat, k + 1 <= n, IdsOf(R(k)) = U(k)
      PROVE  IdsOf(R(k + 1)) = U(k + 1)
  <2> DEFINE j == k + 1
  <2>1. j \in 1..n /\ j - 1 = k /\ \A i \in 1..j : i \in 1..k \/ i = j
    BY <1>1, <1>3
  <2>7. \A i \in 1..k : i \in 1..j
    BY <1>1
  <2>8. j \in 1..j
    OBVIOUS
  <2> HIDE DEF j
  <2>2. R(j) = R(j - 1) \o rs[j] /\ R(j - 1) \in Seq(Chunks) /\ rs[j] \in Seq(Chunks)
    BY <2>1, FlattenNext
  <2> HIDE DEF R
  <2>3. IdsOf(R(k) \o rs[j]) = IdsOf(R(k)) \cup IdsOf(rs[j])
    BY <2>1, <2>2, IdsBoth
  <2>4. U(j) = U(k) \cup IdsOf(rs[j])
    BY <2>1, <2>7, <2>8, Zenon
  <2> HIDE DEF U
  <2>5. IdsOf(R(j)) = U(j)
    BY <1>3, <2>1, <2>2, <2>3, <2>4
  <2> QED BY <2>5 DEF j
<1>4. R(n) = FlattenSeq(rs)
  BY FlattenEnds
<1> HIDE DEF R, U
<1>5. 0 \in T
  BY <1>2
<1>6. ASSUME NEW k \in Nat, k \in T
      PROVE  k + 1 \in T
  <2> SUFFICES ASSUME k + 1 <= n
               PROVE  IdsOf(R(k + 1)) = U(k + 1)
    OBVIOUS
  <2>1. k <= n
    BY <1>1
  <2>2. IdsOf(R(k)) = U(k)
    BY <1>6, <2>1
  <2> QED BY <1>3, <2>2
<1> HIDE DEF T
<1>7. \A k \in Nat : k \in T
  BY <1>5, <1>6, Inductive
<1>8. n \in T
  BY <1>1, <1>7
<1>9. n <= n
  BY <1>1
<1>10. IdsOf(R(n)) = U(n)
  BY <1>8, <1>9 DEF T
<1> QED BY <1>4, <1>10 DEF U

----------------------------------------------------------------------------
(* The answers of a GET                                                    *)

\* What is served of a stream that is read to its end.
LEMMA SentBytes ==
  ASSUME NEW obj, NEW body, IsMap(obj.rows, body), obj.size = Len(body), RangeAssumption,
         NEW start \in Nat, NEW end \in Nat, start <= end, end <= Len(body), NEW st
  PROVE  Sent(st, start, end, Stream(obj, start, end))
           = [status |-> st, start |-> start, length |-> end - start, bytes |-> Part(body, start, end)]
<1>1. Stream(obj, start, end) = Read(Part(body, start, end))
  BY StreamRead
<1> DEFINE p == Part(body, start, end)
<1> HIDE DEF p
<1>2. Sent(st, start, end, Read(p)) = [status |-> st, start |-> start, length |-> end - start, bytes |-> p]
  BY DEF Sent, Read
<1> QED BY <1>1, <1>2, Zenon DEF p

\* The n elements of s from offset a on.
Elements(s, a, n) == [i \in 1..n |-> s[a + i]]

\* A part, element by element.
LEMMA PartFunction ==
  ASSUME NEW S, NEW s \in Seq(S), NEW a \in Nat, NEW b \in Nat, a <= b, b <= Len(s)
  PROVE  Part(s, a, b) = Elements(s, a, b - a)
<1> DEFINE p == Part(s, a, b)
           n == b - a
<1>1. p \in Seq(S) /\ Len(p) = n /\ Lies(p, s, a, n)
  BY PartType
<1> HIDE DEF p
<1>2. p = [i \in 1..n |-> p[i]]
  BY <1>1
<1>3. \A i \in 1..n : p[i] = s[a + i]
  BY <1>1 DEF Lies
<1>4. p = [i \in 1..n |-> s[a + i]]
  <2> HIDE DEF n
  <2> QED BY <1>2, <1>3, Zenon
<1> QED BY <1>4 DEF p, Elements

\* The least and the number of the offsets of an interval.
LEMMA IntervalBounds ==
  ASSUME NEW lo \in Nat, NEW hi \in Nat, lo < hi
  PROVE  Min(lo..hi - 1) = lo /\ Cardinality(lo..hi - 1) = hi - lo
<1> DEFINE Off == lo..hi - 1
<1>1. lo \in Off /\ \A y \in Off : lo <= y
  OBVIOUS
<1>2. \A x \in Off : (\A y \in Off : x <= y) => x = lo
  OBVIOUS
<1>3. Min(Off) = lo
  <2> HIDE DEF Off
  <2> QED BY <1>1, <1>2 DEF Min
<1>4. Cardinality(lo..hi - 1) = IF lo > hi - 1 THEN 0 ELSE hi - 1 - lo + 1
  <2> DEFINE k == hi - 1
  <2>1. k \in Int /\ lo \in Int
    OBVIOUS
  <2> HIDE DEF k
  <2>2. Cardinality(lo..k) = IF lo > k THEN 0 ELSE k - lo + 1
    BY <2>1, FS_Interval
  <2> QED BY <2>2 DEF k
<1>5. Cardinality(lo..hi - 1) = hi - lo
  <2>1. ~(lo > hi - 1) /\ hi - 1 - lo + 1 = hi - lo
    OBVIOUS
  <2> QED BY <1>4, <2>1
<1> QED BY <1>3, <1>5

\* The offsets of b that header h asks for.
Wanted(b, h) ==
  {i \in 0..Len(b) - 1 :
     CASE h.kind = "from" -> i >= h.first
       [] h.kind = "between" -> i >= h.first /\ i <= h.last
       [] h.kind = "suffix" -> i >= Len(b) - h.n}

\* A header that is ignored.
Unheeded(h) ==
  \/ h.kind = "other"
  \/ h.kind = "suffix" /\ h.n = 0
  \/ h.kind = "between" /\ h.last < h.first

\* The offsets and what parseByteRange makes of them.
Understood(b, h, r) ==
  \/ Unheeded(h) /\ r = NoRange
  \/ ~Unheeded(h) /\ Wanted(b, h) = {} /\ r = Unsatisfiable
  \/ /\ ~Unheeded(h)
     /\ \E lo, hi \in Nat : /\ lo < hi
                            /\ hi <= Len(b)
                            /\ Wanted(b, h) = lo..hi - 1
                            /\ r = Satisfiable(lo, hi - 1)

\* parseByteRange finds the interval of the offsets that a header asks for.
LEMMA Parsed ==
  ASSUME NEW b \in Seq(Byte), NEW h, IsHeader(h)
  PROVE  Understood(b, h, parseByteRange(h, Len(b)))
<1> DEFINE n == Len(b)
           r == parseByteRange(h, n)
           x == h.first
           y == h.last
           z == h.n
<1>1. n \in Nat /\ x \in Nat /\ y \in Nat /\ z \in Nat
  BY DEF IsHeader
<1>2. h.kind \in {"from", "between", "suffix", "other"}
  BY DEF IsHeader
<1>3. ASSUME NEW lo \in Nat, NEW hi \in Nat, lo < hi, hi <= n, Wanted(b, h) = lo..hi - 1,
             r = Satisfiable(lo, hi - 1), ~Unheeded(h)
      PROVE  Understood(b, h, r)
  <2> HIDE DEF r
  <2> QED BY <1>3 DEF Understood
<1>4. CASE h.kind = "other"
  <2>1. r = NoRange
    BY <1>4 DEF parseByteRange
  <2>2. Unheeded(h)
    BY <1>4 DEF Unheeded
  <2> HIDE DEF r
  <2>3. Understood(b, h, r)
    BY <2>1, <2>2 DEF Understood
  <2> QED BY <2>3 DEF r
<1>5. CASE h.kind = "from"
  <2>1. Wanted(b, h) = {i \in 0..n - 1 : i >= x}
    BY <1>5 DEF Wanted
  <2>2. r = IF x >= n THEN Unsatisfiable ELSE Satisfiable(x, n - 1)
    BY <1>5 DEF parseByteRange
  <2>3. ~Unheeded(h)
    BY <1>5 DEF Unheeded
  <2> HIDE DEF x, y, z, n
  <2>4. CASE x >= n
    <3>1. {i \in 0..n - 1 : i >= x} = {}
      BY <1>1, <2>4
    <3> HIDE DEF r
    <3>2. Understood(b, h, r)
      BY <2>1, <2>2, <2>3, <2>4, <3>1 DEF Understood
    <3> QED BY <3>2 DEF r, n
  <2>5. CASE ~(x >= n)
    <3>1. {i \in 0..n - 1 : i >= x} = x..n - 1
      BY <1>1, <2>5
    <3>2. x < n /\ n <= n
      BY <1>1, <2>5
    <3> HIDE DEF r
    <3>3. Understood(b, h, r)
      BY <1>1, <1>3, <2>1, <2>2, <2>3, <2>5, <3>1, <3>2
    <3> QED BY <3>3 DEF r, n
  <2> QED BY <2>4, <2>5
<1>6. CASE h.kind = "suffix"
  <2>1. Wanted(b, h) = {i \in 0..n - 1 : i >= n - z}
    BY <1>6 DEF Wanted
  <2>2. r = IF z = 0 THEN NoRange
            ELSE IF n = 0 THEN Unsatisfiable
            ELSE Satisfiable(n - Min({z, n}), n - 1)
    BY <1>6 DEF parseByteRange
  <2>3. Unheeded(h) <=> z = 0
    BY <1>6 DEF Unheeded
  <2> HIDE DEF x, y, z, n
  <2>4. CASE z = 0
    <3> HIDE DEF r
    <3>2. Understood(b, h, r)
      BY <2>2, <2>3, <2>4 DEF Understood
    <3> QED BY <3>2 DEF r, n
  <2>5. CASE z # 0 /\ n = 0
    <3>1. {i \in 0..n - 1 : i >= n - z} = {}
      BY <1>1, <2>5
    <3> HIDE DEF r
    <3>2. Understood(b, h, r)
      BY <2>1, <2>2, <2>3, <2>5, <3>1 DEF Understood
    <3> QED BY <3>2 DEF r, n
  <2>6. CASE z # 0 /\ n # 0
    <3> DEFINE lo == n - Min({z, n})
    <3>1. Min({z, n}) = IF z <= n THEN z ELSE n
      BY <1>1, MinMax
    <3>2. lo \in Nat /\ lo < n /\ n <= n
      BY <1>1, <2>6, <3>1
    <3>3. {i \in 0..n - 1 : i >= n - z} = lo..n - 1
      BY <1>1, <2>6, <3>1
    <3>4. r = Satisfiable(lo, n - 1)
      BY <2>2, <2>6
    <3> HIDE DEF r, lo
    <3>5. Understood(b, h, r)
      BY <1>1, <1>3, <2>1, <2>3, <2>6, <3>2, <3>3, <3>4
    <3> QED BY <3>5 DEF r, n
  <2> QED BY <2>4, <2>5, <2>6
<1>7. CASE h.kind = "between"
  <2>1. Wanted(b, h) = {i \in 0..n - 1 : i >= x /\ i <= y}
    BY <1>7 DEF Wanted
  <2>2. r = IF y < x THEN NoRange
            ELSE IF x >= n THEN Unsatisfiable
            ELSE Satisfiable(x, Min({y, n - 1}))
    BY <1>7 DEF parseByteRange
  <2>3. Unheeded(h) <=> y < x
    BY <1>7 DEF Unheeded
  <2> HIDE DEF x, y, z, n
  <2>4. CASE y < x
    <3> HIDE DEF r
    <3>2. Understood(b, h, r)
      BY <2>2, <2>3, <2>4 DEF Understood
    <3> QED BY <3>2 DEF r, n
  <2>5. CASE ~(y < x) /\ x >= n
    <3>1. {i \in 0..n - 1 : i >= x /\ i <= y} = {}
      BY <1>1, <2>5
    <3> HIDE DEF r
    <3>2. Understood(b, h, r)
      BY <2>1, <2>2, <2>3, <2>5, <3>1 DEF Understood
    <3> QED BY <3>2 DEF r, n
  <2>6. CASE ~(y < x) /\ ~(x >= n)
    <3> DEFINE e == Min({y, n - 1})
               hi == e + 1
    <3>1. e = IF y <= n - 1 THEN y ELSE n - 1
      <4> DEFINE d == n - 1
      <4>1. d \in Int /\ y \in Int
        BY <1>1
      <4> HIDE DEF d
      <4>2. Min({y, d}) = IF y <= d THEN y ELSE d
        BY <4>1, MinMax
      <4> QED BY <4>2 DEF d
    <3> HIDE DEF e
    <3>2. hi \in Nat /\ x < hi /\ hi <= n /\ hi - 1 = e
      BY <1>1, <2>6, <3>1
    <3>3. {i \in 0..n - 1 : i >= x /\ i <= y} = x..hi - 1
      BY <1>1, <2>6, <3>1
    <3>4. r = Satisfiable(x, e)
      BY <2>2, <2>6 DEF e
    <3> HIDE DEF r, hi
    <3>5. Understood(b, h, r)
      BY <1>1, <1>3, <2>1, <2>3, <2>6, <3>2, <3>3, <3>4
    <3> QED BY <3>5 DEF r, n
  <2> QED BY <2>4, <2>5, <2>6
<1>8. Understood(b, h, r)
  BY <1>2, <1>4, <1>5, <1>6, <1>7
<1> QED BY <1>8

\* A stored version as a GET finds it.
Readable(obj, body) == IsMap(obj.rows, body) /\ obj.size = Len(body)

\* A GET without conditions and without If-Range is served the range.
LEMMA PlainAnswer ==
  ASSUME NEW obj, NEW h
  PROVE  Answer(obj, [PlainGet EXCEPT !.range = h]) = Serve(obj, 0, parseByteRange(h, obj.size))
<1> DEFINE q == [cond |-> NoConditions, ifRange |-> NoIfRange, range |-> h]
<1>1. [PlainGet EXCEPT !.range = h] = q
  BY DEF PlainGet
<1>2. q.cond = NoConditions /\ q.ifRange = NoIfRange /\ q.range = h
  OBVIOUS
<1>3. /\ NoConditions.ifMatch = {}
      /\ NoConditions.unmodifiedSince = 0
      /\ NoConditions.ifNoneMatch = {}
      /\ NoConditions.modifiedSince = 0
  BY DEF NoConditions
<1>4. conditionalStatus(NoConditions, obj) = 0
  BY <1>3 DEF conditionalStatus
<1>5. ifRangeAllows(NoIfRange, obj)
  BY DEF ifRangeAllows, NoIfRange
<1> HIDE DEF q
<1>6. Answer(obj, q) = Serve(obj, 0, parseByteRange(h, obj.size))
  BY <1>2, <1>4, <1>5, Zenon DEF Answer
<1> QED BY <1>1, <1>6, Zenon

\* What Serve answers to the outcomes of parseByteRange.
LEMMA ServeBytes ==
  ASSUME NEW obj, NEW body, Readable(obj, body), RangeAssumption
  PROVE  /\ Serve(obj, 0, NoRange)
              = [status |-> 200, start |-> 0, length |-> Len(body), bytes |-> body]
         /\ Serve(obj, 0, Unsatisfiable) = Refused(416)
         /\ \A lo, hi \in Nat : lo < hi /\ hi <= Len(body) =>
              Serve(obj, 0, Satisfiable(lo, hi - 1))
                = [status |-> 206, start |-> lo, length |-> hi - lo, bytes |-> Part(body, lo, hi)]
<1>1. IsMap(obj.rows, body) /\ obj.size = Len(body) /\ body \in Seq(Byte) /\ Len(body) \in Nat
  BY DEF Readable, IsMap
<1>2. Serve(obj, 0, NoRange) = [status |-> 200, start |-> 0, length |-> Len(body), bytes |-> body]
  <2>1. Serve(obj, 0, NoRange) = Sent(200, 0, obj.size, Stream(obj, 0, obj.size))
    BY DEF Serve, NoRange
  <2> DEFINE n == Len(body)
  <2>2. n \in Nat /\ 0 \in Nat /\ 0 <= n /\ n <= Len(body) /\ n - 0 = n
    BY <1>1
  <2>3. Part(body, 0, n) = body
    BY <1>1, PartFull
  <2> HIDE DEF n
  <2>4. Sent(200, 0, n, Stream(obj, 0, n)) = [status |-> 200, start |-> 0, length |-> n - 0, bytes |-> Part(body, 0, n)]
    BY <1>1, <2>2, SentBytes
  <2> QED BY <1>1, <2>1, <2>2, <2>3, <2>4 DEF n
<1>3. Serve(obj, 0, Unsatisfiable) = Refused(416)
  BY DEF Serve, Unsatisfiable, NoRange
<1>4. ASSUME NEW lo \in Nat, NEW hi \in Nat, lo < hi, hi <= Len(body)
      PROVE  Serve(obj, 0, Satisfiable(lo, hi - 1))
               = [status |-> 206, start |-> lo, length |-> hi - lo, bytes |-> Part(body, lo, hi)]
  <2> DEFINE e == hi - 1
             r == Satisfiable(lo, e)
  <2>1. r.isRange /\ r.satisfiable /\ r.start = lo /\ r.end = e
    BY DEF Satisfiable
  <2>2. e + 1 = hi /\ lo <= hi
    BY <1>4
  <2> HIDE DEF r, e
  <2>3. Serve(obj, 0, r) = Sent(206, lo, e + 1, Stream(obj, lo, e + 1))
    BY <2>1 DEF Serve
  <2>4. Sent(206, lo, hi, Stream(obj, lo, hi)) = [status |-> 206, start |-> lo, length |-> hi - lo, bytes |-> Part(body, lo, hi)]
    BY <1>1, <1>4, <2>2, SentBytes
  <2> QED BY <2>2, <2>3, <2>4 DEF r, e
<1> QED BY <1>2, <1>3, <1>4

\* Expected, of an interval of offsets.
LEMMA ExpectedValue ==
  ASSUME NEW b \in Seq(Byte), NEW h
  PROVE  /\ Unheeded(h) =>
              Expected(b, h) = [status |-> 200, start |-> 0, length |-> Len(b), bytes |-> b]
         /\ ~Unheeded(h) /\ Wanted(b, h) = {} => Expected(b, h) = Refused(416)
         /\ \A lo, hi \in Nat : ~Unheeded(h) /\ lo < hi /\ hi <= Len(b) /\ Wanted(b, h) = lo..hi - 1 =>
              Expected(b, h) = [status |-> 206, start |-> lo, length |-> hi - lo, bytes |-> Part(b, lo, hi)]
<1> DEFINE Off == Wanted(b, h)
<1>1. Expected(b, h) =
        IF Unheeded(h) THEN [status |-> 200, start |-> 0, length |-> Len(b), bytes |-> b]
        ELSE IF Off = {} THEN [status |-> 416, start |-> 0, length |-> 0, bytes |-> <<>>]
        ELSE [status |-> 206, start |-> Min(Off), length |-> Cardinality(Off),
              bytes |-> [i \in 1..Cardinality(Off) |-> b[Min(Off) + i]]]
  BY DEF Expected, Unheeded, Wanted
<1> HIDE DEF Off
<1>2. ASSUME NEW lo \in Nat, NEW hi \in Nat, ~Unheeded(h), lo < hi, hi <= Len(b), Off = lo..hi - 1
      PROVE  Expected(b, h) = [status |-> 206, start |-> lo, length |-> hi - lo, bytes |-> Part(b, lo, hi)]
  <2>1. Min(lo..hi - 1) = lo /\ Cardinality(lo..hi - 1) = hi - lo
    BY <1>2, IntervalBounds
  <2>2. lo <= hi
    BY <1>2
  <2>3. Part(b, lo, hi) = Elements(b, lo, hi - lo)
    BY <1>2, <2>2, PartFunction
  <2>4. lo \in Off
    BY <1>2
  <2> DEFINE n == hi - lo
             p == Part(b, lo, hi)
  <2> HIDE DEF n, p
  <2>5. Min(Off) = lo /\ Cardinality(Off) = n
    BY <1>2, <2>1, Zenon DEF n
  <2>6. p = [i \in 1..n |-> b[lo + i]]
    BY <2>3 DEF n, p, Elements
  <2>7. Off # {}
    BY <2>4
  <2>8. Expected(b, h) = [status |-> 206, start |-> Min(Off), length |-> Cardinality(Off),
                          bytes |-> [i \in 1..Cardinality(Off) |-> b[Min(Off) + i]]]
    BY <1>1, <1>2, <2>7, Zenon
  <2>9. Expected(b, h) = [status |-> 206, start |-> lo, length |-> n, bytes |-> [i \in 1..n |-> b[lo + i]]]
    BY <2>5, <2>8, Zenon
  <2>10. Expected(b, h) = [status |-> 206, start |-> lo, length |-> n, bytes |-> p]
    BY <2>6, <2>9, Zenon
  <2> QED BY <2>10 DEF n, p
<1>3. Unheeded(h) => Expected(b, h) = [status |-> 200, start |-> 0, length |-> Len(b), bytes |-> b]
  BY <1>1, Zenon
<1>4. ~Unheeded(h) /\ Off = {} => Expected(b, h) = Refused(416)
  BY <1>1, Zenon DEF Refused
<1>5. \A lo, hi \in Nat : ~Unheeded(h) /\ lo < hi /\ hi <= Len(b) /\ Off = lo..hi - 1 =>
        Expected(b, h) = [status |-> 206, start |-> lo, length |-> hi - lo, bytes |-> Part(b, lo, hi)]
  BY <1>2, Zenon
<1> QED BY <1>3, <1>4, <1>5, Zenon DEF Off

\* A GET of a range answers with what the header names of the body.
LEMMA AnswerExpected ==
  ASSUME NEW obj, NEW body, Readable(obj, body), RangeAssumption, NEW h, IsHeader(h)
  PROVE  Answer(obj, [PlainGet EXCEPT !.range = h]) = Expected(body, h)
<1> DEFINE r == parseByteRange(h, Len(body))
<1>1. body \in Seq(Byte) /\ obj.size = Len(body)
  BY DEF Readable, IsMap
<1>2. Answer(obj, [PlainGet EXCEPT !.range = h]) = Serve(obj, 0, r)
  BY <1>1, PlainAnswer
<1>3. Understood(body, h, r)
  BY <1>1, Parsed
<1> HIDE DEF r
<1>4. CASE Unheeded(h) /\ r = NoRange
  BY <1>1, <1>2, <1>4, ServeBytes, ExpectedValue
<1>5. CASE ~Unheeded(h) /\ Wanted(body, h) = {} /\ r = Unsatisfiable
  BY <1>1, <1>2, <1>5, ServeBytes, ExpectedValue
<1>6. CASE ~Unheeded(h) /\ \E lo, hi \in Nat : /\ lo < hi
                                               /\ hi <= Len(body)
                                               /\ Wanted(body, h) = lo..hi - 1
                                               /\ r = Satisfiable(lo, hi - 1)
  <2>1. PICK lo, hi \in Nat : lo < hi /\ hi <= Len(body) /\ Wanted(body, h) = lo..hi - 1
                                /\ r = Satisfiable(lo, hi - 1)
    BY <1>6
  <2>2. Serve(obj, 0, Satisfiable(lo, hi - 1))
          = [status |-> 206, start |-> lo, length |-> hi - lo, bytes |-> Part(body, lo, hi)]
    BY <2>1, ServeBytes
  <2>3. Expected(body, h) = [status |-> 206, start |-> lo, length |-> hi - lo, bytes |-> Part(body, lo, hi)]
    BY <1>1, <1>6, <2>1, ExpectedValue
  <2> QED BY <1>2, <2>1, <2>2, <2>3, Zenon
<1> QED BY <1>3, <1>4, <1>5, <1>6 DEF Understood

----------------------------------------------------------------------------
(* The inductive invariant                                                 *)

\* The positions at which an upload answers for the messages it has sent.
Live == {"read", "send", "verify", "cleanup", "validate", "commit", "discard", "stored"}

Ups ==
  [pc : Live \cup {"idle", "failed"}, kind : {"plain", "chunked", "copy"}, frames : Seq(Seq(Byte)),
   declared : Int, data : Seq(Byte), frame : Nat, rem : Nat, pos : Nat, buf : Seq(Byte),
   rerr : BOOLEAN, chunks : Seq(Chunks)]

\* Messages with their bytes.
AllBytes(m) == \A i \in DOMAIN m : m[i] \in Seq(Byte)

\* The rows of an upload, of messages up to n.
Rows(n) == [id : 1..n, offset : Nat, size : 1..UploadChunkSize]

Types ==
  /\ up \in Ups
  /\ cancelled \in BOOLEAN
  /\ sent \in Nat
  /\ AllBytes(messages)
  /\ up.chunks \in Seq(Rows(sent))

\* The request body, and how far the decoder has come in it: a frame under way
\* ends where the frames up to it end.
Decoding(u) ==
  /\ u.kind # "chunked" => Len(u.frames) = 1
  /\ u.kind = "chunked" => <<>> \notin Range(u.frames)
  /\ u.data = FlattenSeq(u.frames)
  /\ u.frame \in 1..Len(u.frames) + 1
  /\ u.pos + u.rem = IF u.kind = "chunked" THEN FrameEnd(u.frames, u.frame - 1) ELSE Len(u.data)
  /\ u.pos + u.rem <= Len(u.data)
  /\ Len(u.buf) <= u.pos
  /\ Len(u.buf) <= UploadChunkSize
  /\ u.buf = Part(u.data, u.pos - Len(u.buf), u.pos)

\* The body has been read, or its stream has ended early with the request.
Ended(u, c) == u.pos = Len(u.data) \/ (u.kind = "copy" /\ c)

\* The bytes in recorded chunks.
Recorded(u) == u.pos - Len(u.buf)

\* What Upload knows at its positions.
Progress(u, c) ==
  /\ u.pc = "read" => Len(u.buf) < UploadChunkSize /\ ~u.rerr
  /\ u.pc \in {"send", "verify"} => u.buf # <<>> /\ (~u.rerr /\ Len(u.buf) < UploadChunkSize => Ended(u, c))
  /\ u.pc \in {"validate", "commit"} => Ended(u, c) /\ u.buf = <<>>
  /\ u.pc = "stored" => u.pos = Len(u.data) /\ u.buf = <<>>
  /\ u.pc \in {"read", "send", "verify"} => Recorded(u) = Len(u.chunks) * UploadChunkSize

\* Documents of the chunk size at its multiples, and at most one that is not full.
Regular(chunks) ==
  \A i \in 1..Len(chunks) :
    /\ chunks[i].offset = (i - 1) * UploadChunkSize
    /\ chunks[i].size <= UploadChunkSize
    /\ i < Len(chunks) => chunks[i].size = UploadChunkSize

\* The chunks recorded are the bytes read but the last Len(buf).
Recording(m, u) ==
  u.pc \in Live => /\ LaidOut(m, u.chunks, Part(u.data, 0, Recorded(u)))
                   /\ Regular(u.chunks)

\* The document that was just sent is the beginning of buf.
Verifying(m, u, s) ==
  u.pc = "verify" => /\ s \in DOMAIN m
                     /\ s \notin IdsOf(u.chunks)
                     /\ \E n \in 0..Len(u.buf) : m[s] = SubSeq(u.buf, 1, n)

\* Nothing of an upload is left between uploads.
Uploading ==
  /\ up.pc = "idle" => up = NoUpload
  /\ up.pc # "idle" => Decoding(up)
  /\ Progress(up, cancelled)
  /\ Recording(messages, up)
  /\ Verifying(messages, up, sent)

\* The messages of the upload under way.
Own(u, s) ==
  IF u.pc \in Live THEN IdsOf(u.chunks) \cup (IF u.pc = "verify" THEN {s} ELSE {}) ELSE {}

\* The object and the parts share no message.
Apart ==
  /\ \A p \in DOMAIN parts : IdsOf(object.chunks) \cap IdsOf(parts[p].chunks) = {}
  /\ \A p, q \in DOMAIN parts : p # q => IdsOf(parts[p].chunks) \cap IdsOf(parts[q].chunks) = {}

\* Every message is the object's, a part's, the upload's or lost, and of no two
\* of them.
Ownership ==
  /\ DOMAIN messages \subseteq 1..sent
  /\ DOMAIN messages = Referenced \cup lost \cup Own(up, sent)
  /\ Referenced \cap lost = {}
  /\ Own(up, sent) \cap (Referenced \cup lost) = {}
  /\ Apart

ETags == [parts : Nat, md5 : Seq(Seq(Byte))]

\* The body an ETag stands for.
Names(etag, body) ==
  /\ etag \in ETags
  /\ body \in Seq(Byte)
  /\ IF etag.parts = 0 THEN etag = MD5(body) ELSE body = FlattenSeq(etag.md5)

Versions == [chunks : Seq(Chunks), size : Nat, etag : ETags, updated : Nat, body : Seq(Byte)]

\* A stored version: its rows, size and ETag are those of its body.
Stands(m, v) ==
  /\ v \in Versions
  /\ LaidOut(m, v.chunks, v.body)
  /\ v.size = Len(v.body)
  /\ Names(v.etag, v.body)

\* A stored part.
PartStands(m, v) == Stands(m, v) /\ v.etag = MD5(v.body)

\* What is stored.
Stock ==
  /\ Stands(messages, object)
  /\ DOMAIN parts \subseteq PartNumbers
  /\ \A p \in DOMAIN parts : PartStands(messages, parts[p])

\* What is on its way there.
Purpose ==
  /\ purpose \in [part : PartNumbers \cup {0}, body : Seq(Byte)]
  /\ up.pc # "idle" => purpose.body = up.data

\* What the downloading client holds is the beginning of the body its ETag
\* stands for, and of what the server last said is current.
Held ==
  /\ held \in [bytes : Seq(Byte), etag : ETags, updated : Nat, body : Seq(Byte), current : Seq(Byte)]
  /\ Names(held.etag, held.body)
  /\ IsPrefix(held.bytes, held.body)
  /\ IsPrefix(held.bytes, held.current)

Inv == Types /\ Uploading /\ Ownership /\ Stock /\ Purpose /\ Held

----------------------------------------------------------------------------
(* The steps of an upload                                                  *)

\* A step that sends, deletes and records nothing.
Quiet ==
  /\ UNCHANGED <<messages, sent, lost, object, parts, purpose, held>>
  /\ up' \in Ups
  /\ cancelled' \in BOOLEAN
  /\ up'.chunks = up.chunks
  /\ up'.data = up.data
  /\ Recorded(up') = Recorded(up)
  /\ up.pc \in Live
  /\ up'.pc \in Live
  /\ up.pc = "verify" \/ up'.pc = "verify" => up' = up

\* Only the decoder and the position have to be looked at after it.
LEMMA QuietStep ==
  ASSUME Inv, Quiet, Decoding(up'), Progress(up', cancelled')
  PROVE  Inv'
<1>1. Types'
  BY DEF Inv, Types, Quiet
<1>2. up'.pc # "idle" /\ up.pc # "idle"
  BY DEF Quiet, Live
<1>3. Uploading'
  <2>1. Recording(messages, up)'
    BY DEF Inv, Uploading, Recording, Quiet
  <2>2. Verifying(messages, up, sent)'
    BY DEF Inv, Uploading, Verifying, Quiet
  <2> QED BY <1>2, <2>1, <2>2 DEF Uploading
<1>4. Ownership'
  <2>1. Own(up', sent') = Own(up, sent)
    <3>1. CASE up.pc = "verify" \/ up'.pc = "verify"
      BY <3>1 DEF Quiet
    <3>2. CASE ~(up.pc = "verify" \/ up'.pc = "verify")
      BY <3>2 DEF Own, Quiet
    <3> QED BY <3>1, <3>2
  <2>2. Referenced' = Referenced
    BY DEF Referenced, Quiet
  <2>3. Ownership
    BY DEF Inv
  <2>4. messages' = messages /\ sent' = sent /\ lost' = lost /\ object' = object /\ parts' = parts
    BY DEF Quiet
  <2> QED BY <2>1, <2>2, <2>3, <2>4 DEF Ownership, Apart
<1>5. Stock'
  <2>1. messages' = messages /\ object' = object /\ parts' = parts
    BY DEF Quiet
  <2> QED BY <2>1 DEF Inv, Stock
<1>6. Purpose'
  <2>1. purpose' = purpose /\ up'.data = up.data
    BY DEF Quiet
  <2> QED BY <1>2, <2>1 DEF Inv, Purpose
<1>7. Held'
  <2>1. held' = held
    BY DEF Quiet
  <2> QED BY <2>1 DEF Inv, Held
<1> QED BY <1>1, <1>3, <1>4, <1>5, <1>6, <1>7 DEF Inv

\* The types of an upload's fields.
LEMMA UpTypes ==
  ASSUME NEW u \in Ups
  PROVE  /\ u.pc \in Live \cup {"idle", "failed"}
         /\ u.kind \in {"plain", "chunked", "copy"}
         /\ u.frames \in Seq(Seq(Byte))
         /\ u.declared \in Int
         /\ u.data \in Seq(Byte)
         /\ u.frame \in Nat
         /\ u.rem \in Nat
         /\ u.pos \in Nat
         /\ u.buf \in Seq(Byte)
         /\ u.rerr \in BOOLEAN
         /\ u.chunks \in Seq(Chunks)
BY DEF Ups

\* readChunkSize begins the next frame.
LEMMA readChunkSizeStep ==
  ASSUME Inv, readChunkSize, UNCHANGED bytesVars
  PROVE  Inv'
<1>1. up \in Ups /\ cancelled \in BOOLEAN /\ Decoding(up) /\ Progress(up, cancelled)
  BY DEF Inv, Types, Uploading, readChunkSize
<1>2. /\ up.pc = "read" /\ up.kind = "chunked" /\ up.rem = 0 /\ up.frame <= Len(up.frames)
      /\ up' = [up EXCEPT !.rem = Len(up.frames[up.frame]), !.frame = @ + 1]
      /\ UNCHANGED <<cancelled, messages, sent, lost, object, parts, purpose, held>>
  BY DEF readChunkSize, bytesVars
<1> DEFINE k == up.frame
           l == Len(up.frames[k])
<1>3. up.frames \in Seq(Seq(Byte)) /\ k \in 1..Len(up.frames) /\ up.pos \in Nat
  BY <1>1, <1>2, UpTypes DEF Decoding
<1>4. l \in Nat /\ FrameEnd(up.frames, k) = FrameEnd(up.frames, k - 1) + l
  BY <1>3, FrameEnds
<1>5. FrameEnd(up.frames, k) <= Len(up.data)
  <2>1. k \in 0..Len(up.frames)
    BY <1>3
  <2>2. FrameEnd(up.frames, k) <= Len(FlattenSeq(up.frames))
    BY <1>3, <2>1, FrameWithin
  <2> QED BY <1>1, <2>2 DEF Decoding
<1> HIDE DEF l
<1>6. /\ up'.pc = up.pc /\ up'.kind = up.kind /\ up'.frames = up.frames /\ up'.declared = up.declared
      /\ up'.data = up.data /\ up'.frame = k + 1 /\ up'.rem = l /\ up'.pos = up.pos /\ up'.buf = up.buf
      /\ up'.rerr = up.rerr /\ up'.chunks = up.chunks
  BY <1>1, <1>2 DEF Ups, l
<1>7. up' \in Ups
  <2>1. up' = [up EXCEPT !.rem = l, !.frame = k + 1] /\ k + 1 \in Nat /\ l \in Nat
    BY <1>2, <1>3, <1>4 DEF l
  <2>2. up \in Ups
    BY <1>1
  <2> QED BY ONLY <2>1, <2>2 DEF Ups
<1>8. Quiet
  BY <1>1, <1>2, <1>6, <1>7 DEF Quiet, Recorded, Live
<1>9. Decoding(up')
  <2>1. up.pos = FrameEnd(up.frames, k - 1)
    <3>1. up.pos + up.rem = FrameEnd(up.frames, k - 1)
      BY <1>1, <1>2 DEF Decoding
    <3>2. up.rem = 0
      BY <1>2
    <3> QED BY <1>3, <3>1, <3>2
  <2>2. up.pos + l = FrameEnd(up.frames, k)
    BY <1>4, <2>1
  <2>3. k + 1 \in 1..Len(up.frames) + 1 /\ k + 1 - 1 = k
    BY <1>3
  <2>4. up'.pos + up'.rem = IF up'.kind = "chunked" THEN FrameEnd(up'.frames, up'.frame - 1) ELSE Len(up'.data)
    <3>1. up'.frame - 1 = k
      BY <1>3, <1>6
    <3>2. up'.pos + up'.rem = up.pos + l /\ up'.frames = up.frames
      BY <1>6
    <3>3. up'.kind = "chunked"
      BY <1>2, <1>6
    <3> QED BY <2>2, <3>1, <3>2, <3>3, Zenon
  <2>5. up'.pos + up'.rem <= Len(up'.data)
    BY <1>5, <1>6, <2>2
  <2> QED BY <1>1, <1>6, <2>3, <2>4, <2>5 DEF Decoding
<1>10. Progress(up', cancelled')
  BY <1>1, <1>2, <1>6 DEF Progress, Recorded
<1> QED BY <1>8, <1>9, <1>10, QuietStep

\* A part and the next element.
LEMMA PartNext ==
  ASSUME NEW S, NEW s \in Seq(S), NEW a \in Nat, NEW b \in Nat, a <= b, b + 1 <= Len(s)
  PROVE  Append(Part(s, a, b), s[b + 1]) = Part(s, a, b + 1)
<1> DEFINE p == Part(s, a, b)
           c == b + 1
           t == Append(p, s[c])
           n == b - a
<1>1. c \in Nat /\ c \in 1..Len(s) /\ b <= Len(s) /\ n \in Nat /\ a <= c /\ c <= Len(s)
  OBVIOUS
<1>2. p \in Seq(S) /\ Len(p) = n /\ Lies(p, s, a, n)
  BY <1>1, PartType
<1>3. s[c] \in S
  BY <1>1
<1> HIDE DEF p, c, n
<1>4. t \in Seq(S) /\ Len(t) = n + 1 /\ (\A i \in 1..n : t[i] = p[i]) /\ t[n + 1] = s[c]
  BY <1>2, <1>3, Appended
<1> HIDE DEF t
<1>5. n + 1 = c - a /\ a + (n + 1) = c
  BY DEF n, c
<1>6. Lies(t, s, a, c - a)
  <2>1. ASSUME NEW i \in 1..n + 1
        PROVE  t[i] = s[a + i]
    <3>1. i \in 1..n \/ i = n + 1
      BY <1>1
    <3>2. CASE i \in 1..n
      BY <1>2, <1>4, <3>2 DEF Lies
    <3>3. CASE i = n + 1
      BY <1>4, <1>5, <3>3
    <3> QED BY <3>1, <3>2, <3>3
  <2>2. \A i \in 1..c - a : t[i] = s[a + i]
    BY <1>5, <2>1
  <2> QED BY <2>2 DEF Lies
<1>7. Len(t) = c - a
  BY <1>4, <1>5
<1>8. t = Part(s, a, c)
  BY <1>1, <1>4, <1>6, <1>7, PartIs
<1> QED BY <1>8 DEF t, p, c

\* readByte takes one more byte into the buffer.
LEMMA readByteStep ==
  ASSUME Inv, UploadAssumption, readByte, UNCHANGED bytesVars
  PROVE  Inv'
<1>1. up \in Ups /\ cancelled \in BOOLEAN /\ Decoding(up) /\ Progress(up, cancelled)
  BY DEF Inv, Types, Uploading, readByte
<1> DEFINE b == Append(up.buf, up.data[up.pos + 1])
<1>2. PICK bad \in BOOLEAN :
        up' = [up EXCEPT !.pc = IF bad \/ Len(b) = UploadChunkSize THEN "send" ELSE "read",
                         !.rem = @ - 1, !.pos = @ + 1, !.buf = b, !.rerr = bad]
  BY Zenon DEF readByte
<1>3. /\ up.pc = "read" /\ up.rem > 0
      /\ UNCHANGED <<cancelled, messages, sent, lost, object, parts, purpose, held>>
  BY DEF readByte, bytesVars
<1> DEFINE n == Len(up.buf)
           pc == IF bad \/ Len(b) = UploadChunkSize THEN "send" ELSE "read"
           x == up.rem
           y == up.pos
           l == Len(up.data)
           z == y + 1
           a == y - n
<1>4. /\ up.buf \in Seq(Byte) /\ up.data \in Seq(Byte) /\ n \in Nat /\ x \in Nat /\ y \in Nat /\ l \in Nat
      /\ UploadChunkSize \in Nat \ {0}
  BY <1>1, UpTypes DEF UploadAssumption
<1>5. y + x <= l /\ n <= y /\ x > 0
  BY <1>1, <1>3 DEF Decoding
<1>21. up.buf = Part(up.data, a, y)
  BY <1>1 DEF Decoding
<1>6. n < UploadChunkSize
  BY <1>1, <1>3 DEF Progress
<1>7. z \in 1..l
  BY <1>4, <1>5
<1>8. b \in Seq(Byte) /\ Len(b) = n + 1
  <2>1. up.data[z] \in Byte
    BY <1>4, <1>7
  <2> HIDE DEF z
  <2>2. Append(up.buf, up.data[z]) \in Seq(Byte) /\ Len(Append(up.buf, up.data[z])) = Len(up.buf) + 1
    BY <1>4, <2>1, Appended
  <2> QED BY <2>2 DEF z
<1>9. b = Part(up.data, a, z)
  <2>1. a \in Nat /\ a <= y /\ y + 1 <= l
    <3> HIDE DEF x, y, n, l
    <3> QED BY <1>4, <1>5
  <2>2. Append(Part(up.data, a, y), up.data[y + 1]) = Part(up.data, a, y + 1)
    <3> HIDE DEF a, y
    <3> QED BY <1>4, <2>1, PartNext
  <2> QED BY <1>21, <2>2
<1>10. pc \in Live
  BY DEF Live
<1>11. up' = [up EXCEPT !.pc = pc, !.rem = x - 1, !.pos = z, !.buf = b, !.rerr = bad]
  BY <1>2
<1>12. x - 1 \in Nat /\ z \in Nat /\ z - (n + 1) = a /\ z + (x - 1) = y + x /\ n + 1 <= z /\ n + 1 <= UploadChunkSize
  <2> HIDE DEF x, y, n, l
  <2> QED BY <1>4, <1>5, <1>6
<1>13. pc \in {"read", "send"} /\ (pc = "read" => ~bad /\ Len(b) # UploadChunkSize)
         /\ (pc = "send" => bad \/ Len(b) = UploadChunkSize)
  OBVIOUS
<1>14. y = up.pos /\ x = up.rem /\ n = Len(up.buf) /\ l = Len(up.data)
  OBVIOUS
<1> HIDE DEF b, pc, x, y, z, a, n, l
<1>15. /\ up'.pc = pc /\ up'.kind = up.kind /\ up'.frames = up.frames /\ up'.declared = up.declared
       /\ up'.data = up.data /\ up'.frame = up.frame /\ up'.rem = x - 1 /\ up'.pos = z /\ up'.buf = b
       /\ up'.rerr = bad /\ up'.chunks = up.chunks
  BY <1>1, <1>11 DEF Ups
<1>16. up' \in Ups
  <2>1. up \in Ups
    BY <1>1
  <2> QED BY ONLY <1>8, <1>10, <1>11, <1>12, bad \in BOOLEAN, <2>1 DEF Ups
<1>17. Recorded(up') = a /\ Recorded(up) = a
  <2>1. Recorded(up') = z - (n + 1)
    BY <1>8, <1>15, Zenon DEF Recorded
  <2>2. Recorded(up) = y - n
    BY <1>14, Zenon DEF Recorded
  <2> QED BY <1>12, <2>1, <2>2 DEF a
<1>18. Quiet
  <2>1. up.pc \in Live /\ up.pc # "verify" /\ up'.pc # "verify" /\ up'.pc \in Live
    BY <1>3, <1>13, <1>15 DEF Live
  <2> QED BY <1>1, <1>3, <1>15, <1>16, <1>17, <2>1 DEF Quiet
<1>19. Decoding(up')
  <2>1. up'.pos + up'.rem = up.pos + up.rem
    BY <1>12, <1>14, <1>15
  <2>2. Len(up'.buf) <= up'.pos /\ Len(up'.buf) <= UploadChunkSize
    BY <1>8, <1>12, <1>15
  <2>3. up'.buf = Part(up'.data, up'.pos - Len(up'.buf), up'.pos)
    BY <1>8, <1>9, <1>12, <1>15, Zenon
  <2> QED BY <1>1, <1>15, <2>1, <2>2, <2>3, Zenon DEF Decoding
<1>20. Progress(up', cancelled')
  <2>1. up'.pc = "read" => Len(up'.buf) < UploadChunkSize /\ ~up'.rerr
    <3>1. n + 1 # UploadChunkSize => n + 1 < UploadChunkSize
      BY <1>4, <1>6
    <3> QED BY <1>8, <1>13, <1>15, <3>1
  <2>2. up'.pc = "send" => up'.buf # <<>> /\ (~up'.rerr => ~(Len(up'.buf) < UploadChunkSize))
    <3>1. b # <<>>
      <4>1. n + 1 # 0
        BY <1>4
      <4> QED BY <1>8, <4>1, EmptySeq
    <3>2. ~(UploadChunkSize < UploadChunkSize)
      BY <1>4
    <3> QED BY <1>8, <1>13, <1>15, <3>1, <3>2
  <2>3. Recorded(up') = Len(up'.chunks) * UploadChunkSize
    <3>1. Recorded(up) = Len(up.chunks) * UploadChunkSize
      BY <1>1, <1>3 DEF Progress
    <3> QED BY <1>15, <1>17, <3>1, Zenon
  <2>4. up'.pc \in {"read", "send"}
    BY <1>13, <1>15
  <2> QED BY <2>1, <2>2, <2>3, <2>4 DEF Progress
<1> QED BY <1>18, <1>19, <1>20, QuietStep

\* u and v differ in their position and their pending error at most.
Alike(u, v) ==
  /\ v.kind = u.kind /\ v.frames = u.frames /\ v.declared = u.declared /\ v.data = u.data
  /\ v.frame = u.frame /\ v.rem = u.rem /\ v.pos = u.pos /\ v.buf = u.buf /\ v.chunks = u.chunks

\* v is u gone on to position p, with e pending.
Moves(u, v, p, e) ==
  v = [u EXCEPT !.pc = p, !.rerr = e] \/ (v = [u EXCEPT !.pc = p] /\ u.rerr = e)

\* Nothing else changes.
LEMMA PositionOnly ==
  ASSUME NEW u \in Ups, NEW p \in Live \cup {"idle", "failed"}, NEW e \in BOOLEAN,
         NEW v, Moves(u, v, p, e)
  PROVE  /\ v \in Ups
         /\ v.pc = p
         /\ v.rerr = e
         /\ Alike(u, v)
         /\ Recorded(v) = Recorded(u)
         /\ Decoding(u) => Decoding(v)
<1>1. v \in Ups /\ v.pc = p /\ v.rerr = e
  BY DEF Ups, Moves
<1>2. Alike(u, v)
  BY DEF Ups, Alike, Moves
<1>3. Recorded(v) = Recorded(u)
  BY <1>2 DEF Alike, Recorded
<1>4. Decoding(u) => Decoding(v)
  BY <1>2 DEF Alike, Decoding
<1> QED BY <1>1, <1>2, <1>3, <1>4

\* The steps of an upload that only change the position.
LEMMA PositionStep ==
  ASSUME Inv, NEW p \in Live, NEW e \in BOOLEAN, p # "verify", up.pc \in Live, up.pc # "verify",
         Moves(up, up', p, e), Progress(up', cancelled),
         UNCHANGED <<cancelled, messages, sent, lost, object, parts, purpose, held>>
  PROVE  Inv'
<1>1. up \in Ups /\ Decoding(up) /\ cancelled \in BOOLEAN
  BY DEF Inv, Types, Uploading, Live
<1>2. /\ up' \in Ups
      /\ up'.pc = p
      /\ up'.rerr = e
      /\ Alike(up, up')
      /\ Recorded(up') = Recorded(up)
      /\ Decoding(up')
  BY <1>1, PositionOnly
<1>3. Quiet
  BY <1>1, <1>2 DEF Quiet, Alike
<1> QED BY <1>2, <1>3, QuietStep

\* readEOF: the body, or what there is of it, has been read.
LEMMA readEOFStep ==
  ASSUME Inv, readEOF, UNCHANGED bytesVars
  PROVE  Inv'
<1>1. up \in Ups /\ cancelled \in BOOLEAN /\ Decoding(up) /\ Progress(up, cancelled)
  BY DEF Inv, Types, Uploading, readEOF
<1> DEFINE p == IF up.buf = <<>> THEN "validate" ELSE "send"
<1>2. /\ up.pc = "read"
      /\ up' = [up EXCEPT !.pc = p]
      /\ UNCHANGED <<cancelled, messages, sent, lost, object, parts, purpose, held>>
  BY DEF readEOF, bytesVars
<1>3. Ended(up, cancelled)
  <2>1. CASE up.kind = "copy" /\ cancelled
    BY <2>1 DEF Ended
  <2>2. CASE up.rem = 0 /\ up.kind # "chunked"
    <3>1. up.pos + up.rem = Len(up.data)
      BY <1>1, <2>2 DEF Decoding
    <3>2. up.pos \in Nat
      BY <1>1, UpTypes
    <3> QED BY <2>2, <3>1, <3>2 DEF Ended
  <2>3. CASE up.rem = 0 /\ up.kind = "chunked" /\ up.frame > Len(up.frames)
    <3>1. up.frames \in Seq(Seq(Byte)) /\ up.frame \in Nat /\ Len(up.frames) \in Nat /\ up.pos \in Nat
      BY <1>1, UpTypes
    <3>2. up.frame - 1 = Len(up.frames)
      BY <1>1, <2>3, <3>1 DEF Decoding
    <3>3. up.pos + up.rem = FrameEnd(up.frames, up.frame - 1)
      BY <1>1, <2>3 DEF Decoding
    <3>4. FrameEnd(up.frames, Len(up.frames)) = Len(FlattenSeq(up.frames))
      BY <3>1, FrameEnds
    <3>5. up.data = FlattenSeq(up.frames)
      BY <1>1 DEF Decoding
    <3>6. up.pos + up.rem = Len(up.data)
      BY <3>2, <3>3, <3>4, <3>5, Zenon
    <3> QED BY <2>3, <3>1, <3>6 DEF Ended
  <2> QED BY <2>1, <2>2, <2>3 DEF readEOF
<1>4. p \in Live /\ p # "verify" /\ p \in {"validate", "send"}
  BY DEF Live
<1>5. ~up.rerr /\ Len(up.buf) < UploadChunkSize /\ Recorded(up) = Len(up.chunks) * UploadChunkSize
  BY <1>1, <1>2 DEF Progress
<1>6. up.rerr \in BOOLEAN
  BY <1>1, UpTypes
<1>7. (p = "validate" => up.buf = <<>>) /\ (p = "send" => up.buf # <<>>)
  OBVIOUS
<1> HIDE DEF p
<1>10. Moves(up, up', p, up.rerr)
  BY <1>2 DEF Moves
<1>11. Alike(up, up') /\ up'.pc = p /\ up'.rerr = up.rerr
  BY <1>1, <1>4, <1>6, <1>10, PositionOnly
<1>8. Progress(up', cancelled)
  <2>1. Ended(up', cancelled)
    BY <1>3, <1>11 DEF Alike, Ended
  <2>2. Recorded(up') = Len(up'.chunks) * UploadChunkSize
    BY <1>5, <1>11 DEF Alike, Recorded
  <2>3. (p = "validate" => up'.buf = <<>>) /\ (p = "send" => up'.buf # <<>>)
    BY <1>7, <1>11 DEF Alike
  <2> QED BY <1>4, <1>11, <2>1, <2>2, <2>3 DEF Progress
<1>9. up.pc \in Live /\ up.pc # "verify"
  BY <1>2 DEF Live
<1> QED BY <1>2, <1>4, <1>6, <1>8, <1>9, <1>10, PositionStep

\* readError: what has been read is sent before the upload fails.
LEMMA readErrorStep ==
  ASSUME Inv, readError, UNCHANGED bytesVars
  PROVE  Inv'
<1>1. up \in Ups /\ cancelled \in BOOLEAN /\ Decoding(up) /\ Progress(up, cancelled)
  BY DEF Inv, Types, Uploading, readError
<1> DEFINE p == IF up.buf = <<>> THEN "cleanup" ELSE "send"
<1>2. /\ up.pc = "read"
      /\ up' = [up EXCEPT !.pc = p, !.rerr = TRUE]
      /\ UNCHANGED <<cancelled, messages, sent, lost, object, parts, purpose, held>>
  BY DEF readError, bytesVars
<1>4. p \in Live /\ p # "verify" /\ p \in {"cleanup", "send"}
  BY DEF Live
<1>5. Recorded(up) = Len(up.chunks) * UploadChunkSize
  BY <1>1, <1>2 DEF Progress
<1>7. p = "send" => up.buf # <<>>
  OBVIOUS
<1> HIDE DEF p
<1>10. Moves(up, up', p, TRUE)
  BY <1>2 DEF Moves
<1>11. Alike(up, up') /\ up'.pc = p /\ up'.rerr = TRUE
  BY <1>1, <1>4, <1>10, PositionOnly
<1>8. Progress(up', cancelled)
  <2>2. Recorded(up') = Len(up'.chunks) * UploadChunkSize
    BY <1>5, <1>11 DEF Alike, Recorded
  <2>3. p = "send" => up'.buf # <<>>
    BY <1>7, <1>11 DEF Alike
  <2> QED BY <1>4, <1>11, <2>2, <2>3 DEF Progress
<1>9. up.pc \in Live /\ up.pc # "verify"
  BY <1>2 DEF Live
<1> QED BY <1>2, <1>4, <1>8, <1>9, <1>10, PositionStep

\* validateDecodedSize accepts or rejects the body.
LEMMA validateStep ==
  ASSUME Inv, validateDecodedSize, UNCHANGED bytesVars
  PROVE  Inv'
<1>1. up \in Ups /\ Progress(up, cancelled)
  BY DEF Inv, Types, Uploading
<1> DEFINE p == IF up.kind # "copy" /\ up.declared # -1 /\ up.declared # up.pos THEN "discard" ELSE "commit"
<1>2. /\ up.pc = "validate"
      /\ up' = [up EXCEPT !.pc = p]
      /\ UNCHANGED <<cancelled, messages, sent, lost, object, parts, purpose, held>>
  BY DEF validateDecodedSize, bytesVars
<1>3. p \in {"discard", "commit"}
  OBVIOUS
<1>4. p \in Live /\ p # "verify"
  BY DEF Live
<1> HIDE DEF p
<1>5. Ended(up, cancelled) /\ up.buf = <<>>
  BY <1>1, <1>2 DEF Progress
<1>6. up.rerr \in BOOLEAN
  BY <1>1, UpTypes
<1>10. Moves(up, up', p, up.rerr)
  BY <1>2 DEF Moves
<1>11. Alike(up, up') /\ up'.pc = p /\ up'.rerr = up.rerr
  BY <1>1, <1>4, <1>6, <1>10, PositionOnly
<1>7. Progress(up', cancelled)
  <2>1. Ended(up', cancelled) /\ up'.buf = <<>>
    BY <1>5, <1>11 DEF Alike, Ended
  <2> QED BY <1>3, <1>11, <2>1 DEF Progress
<1>8. up.pc \in Live /\ up.pc # "verify"
  BY <1>2 DEF Live
<1> QED BY <1>2, <1>4, <1>6, <1>7, <1>8, <1>10, PositionStep

\* commitChunks stores the chunk map unless the request is cancelled.
LEMMA commitStep ==
  ASSUME Inv, commitChunks, UNCHANGED bytesVars
  PROVE  Inv'
<1>1. up \in Ups /\ Progress(up, cancelled)
  BY DEF Inv, Types, Uploading
<1>2. PICK p \in {"stored", "discard"} : /\ up' = [up EXCEPT !.pc = p]
                                         /\ p = "stored" => ~cancelled
  BY Zenon DEF commitChunks
<1>3. /\ up.pc = "commit"
      /\ UNCHANGED <<cancelled, messages, sent, lost, object, parts, purpose, held>>
  BY DEF commitChunks, bytesVars
<1>4. p \in Live /\ p # "verify"
  BY DEF Live
<1>5. Ended(up, cancelled) /\ up.buf = <<>>
  BY <1>1, <1>3 DEF Progress
<1>6. up.rerr \in BOOLEAN
  BY <1>1, UpTypes
<1>10. Moves(up, up', p, up.rerr)
  BY <1>2 DEF Moves
<1>11. Alike(up, up') /\ up'.pc = p /\ up'.rerr = up.rerr
  BY <1>1, <1>4, <1>6, <1>10, PositionOnly
<1>7. Progress(up', cancelled)
  <2>1. p = "stored" => up'.pos = Len(up'.data)
    BY <1>2, <1>5, <1>11 DEF Alike, Ended
  <2>2. up'.buf = <<>>
    BY <1>5, <1>11 DEF Alike
  <2> QED BY <1>11, <2>1, <2>2 DEF Progress
<1>8. up.pc \in Live /\ up.pc # "verify"
  BY <1>3 DEF Live
<1> QED BY <1>2, <1>3, <1>4, <1>6, <1>7, <1>8, <1>10, PositionStep

\* Cancel: a body that has ended stays ended.
LEMMA CancelStep ==
  ASSUME Inv, Cancel, UNCHANGED bytesVars
  PROVE  Inv'
<1>1. up \in Ups /\ Progress(up, cancelled) /\ Decoding(up)
  BY DEF Inv, Types, Uploading, Cancel
<1>2. UNCHANGED <<up, messages, sent, lost, object, parts, purpose, held>> /\ cancelled' = TRUE
  BY DEF Cancel, bytesVars
<1>3. up.pc \in Live
  <2>1. up.pc \in Live \cup {"idle", "failed"}
    BY <1>1, UpTypes
  <2> QED BY <2>1 DEF Cancel
<1>4. Quiet
  BY <1>1, <1>2, <1>3 DEF Quiet
<1>5. Decoding(up') /\ Progress(up', cancelled')
  <2>1. Ended(up, cancelled) => Ended(up, TRUE)
    BY DEF Ended
  <2>2. Progress(up, TRUE)
    BY <1>1, <2>1 DEF Progress
  <2> QED BY <1>1, <1>2, <2>2
<1> QED BY <1>4, <1>5, QuietStep

\* A version is not concerned with messages its rows do not name.
LEMMA StandsElsewhere ==
  ASSUME NEW m, NEW m2, NEW v, Stands(m, v), Preserves(m, m2, IdsOf(v.chunks))
  PROVE  Stands(m2, v)
<1>1. LaidOut(m2, v.chunks, v.body)
  BY HoldsElsewhere DEF Stands
<1> QED BY <1>1 DEF Stands

\* What is stored stays so while its messages stay.
LEMMA StockStep ==
  ASSUME Inv, UNCHANGED <<object, parts>>, Preserves(messages, messages', Referenced)
  PROVE  Stock'
<1>1. Stands(messages, object) /\ DOMAIN parts \subseteq PartNumbers
  BY DEF Inv, Stock
<1>2. \A p \in DOMAIN parts : PartStands(messages, parts[p])
  BY DEF Inv, Stock
<1>3. Preserves(messages, messages', IdsOf(object.chunks))
  BY DEF Preserves, Referenced
<1>4. Stands(messages', object)
  BY <1>1, <1>3, StandsElsewhere
<1>5. ASSUME NEW p \in DOMAIN parts
      PROVE  PartStands(messages', parts[p])
  <2>1. Preserves(messages, messages', IdsOf(parts[p].chunks))
    BY DEF Preserves, Referenced
  <2> DEFINE v == parts[p]
  <2>2. Stands(messages, v) /\ v.etag = MD5(v.body)
    BY <1>2 DEF PartStands
  <2>3. Preserves(messages, messages', IdsOf(v.chunks))
    BY <2>1
  <2> HIDE DEF v
  <2>4. Stands(messages', v)
    BY <2>2, <2>3, StandsElsewhere
  <2> QED BY <2>2, <2>4 DEF PartStands, v
<1> QED BY <1>1, <1>4, <1>5 DEF Stock

\* Rows of messages up to n are rows of messages up to more.
LEMMA RowsGrow ==
  ASSUME NEW a \in Nat, NEW b \in Nat, a <= b, NEW rows \in Seq(Rows(a))
  PROVE  rows \in Seq(Rows(b))
<1>1. \A r \in Rows(a) : r \in Rows(b)
  BY DEF Rows
<1>2. Len(rows) \in Nat /\ rows \in [1..Len(rows) -> Rows(a)]
  OBVIOUS
<1>3. rows \in [1..Len(rows) -> Rows(b)]
  BY <1>1, <1>2
<1> QED BY <1>2, <1>3

\* A step of Upload that sends or deletes messages, but none that a row of
\* anything else names.
LEMMA MessageStep ==
  ASSUME Inv, NEW p \in Live \cup {"failed"}, NEW e \in BOOLEAN, up.pc \in Live, Moves(up, up', p, e),
         UNCHANGED <<cancelled, object, parts, purpose, held>>,
         sent' \in Nat, sent <= sent', AllBytes(messages'),
         Preserves(messages, messages', Referenced),
         p = "failed" \/ Preserves(messages, messages', IdsOf(up.chunks)),
         Progress(up', cancelled), Verifying(messages', up', sent'), Ownership'
  PROVE  Inv'
<1>1. up \in Ups /\ cancelled \in BOOLEAN /\ sent \in Nat /\ up.chunks \in Seq(Rows(sent)) /\ Decoding(up)
         /\ Recording(messages, up)
  BY DEF Inv, Types, Uploading, Live
<1>2. /\ up' \in Ups
      /\ up'.pc = p
      /\ Alike(up, up')
      /\ Recorded(up') = Recorded(up)
      /\ Decoding(up')
  <2>1. p \in Live \cup {"idle", "failed"} /\ up \in Ups /\ Decoding(up)
    BY <1>1
  <2> QED BY ONLY <2>1, e \in BOOLEAN, Moves(up, up', p, e), PositionOnly
<1>3. up'.chunks = up.chunks /\ up'.data = up.data
  BY <1>2 DEF Alike
<1>4. Types'
  <2>1. up.chunks \in Seq(Rows(sent'))
    BY <1>1, RowsGrow
  <2> QED BY <1>1, <1>2, <1>3, <2>1 DEF Types
<1>5. Recording(messages', up')
  <2>1. CASE p = "failed"
    BY <1>2, <2>1 DEF Recording, Live
  <2>2. CASE p # "failed"
    <3> DEFINE b == Part(up.data, 0, Recorded(up))
    <3>1. LaidOut(messages, up.chunks, b) /\ Regular(up.chunks)
      BY <1>1 DEF Recording
    <3> HIDE DEF b
    <3>2. LaidOut(messages', up.chunks, b)
      BY <2>2, <3>1, HoldsElsewhere
    <3> QED BY <1>2, <1>3, <3>1, <3>2 DEF Recording, b
  <2> QED BY <2>1, <2>2
<1>6. Uploading'
  <2>1. up'.pc # "idle"
    BY <1>2 DEF Live
  <2> QED BY <1>2, <1>5, <2>1 DEF Uploading
<1>7. Stock'
  BY StockStep
<1>8. Purpose'
  <2>1. up.pc # "idle"
    BY DEF Live
  <2> QED BY <1>3, <2>1 DEF Inv, Purpose
<1>9. Held'
  BY DEF Inv, Held
<1> QED BY <1>4, <1>6, <1>7, <1>8, <1>9 DEF Inv

\* The channel with one more message.
LEMMA Posted ==
  ASSUME Inv, NEW data \in Seq(Byte), Post(data)
  PROVE  /\ sent' = sent + 1 /\ sent \in Nat
         /\ sent + 1 \notin DOMAIN messages
         /\ DOMAIN messages' = DOMAIN messages \cup {sent + 1}
         /\ messages'[sent + 1] = data
         /\ AllBytes(messages')
         /\ Preserves(messages, messages', DOMAIN messages)
<1> DEFINE s == sent + 1
<1>1. sent \in Nat /\ AllBytes(messages) /\ DOMAIN messages \subseteq 1..sent
  BY DEF Inv, Types, Ownership
<1>2. s \notin DOMAIN messages
  <2>1. s \notin 1..sent
    BY <1>1
  <2> HIDE DEF s
  <2> QED BY <1>1, <2>1
<1>3. sent' = s /\ messages' = [m \in DOMAIN messages \cup {s} |-> IF m = s THEN data ELSE messages[m]]
  BY DEF Post
<1> HIDE DEF s
<1>4. DOMAIN messages' = DOMAIN messages \cup {s} /\ messages'[s] = data
  BY <1>3
<1>5. \A m \in DOMAIN messages : messages'[m] = messages[m]
  BY <1>2, <1>3
<1>6. AllBytes(messages')
  BY <1>1, <1>4, <1>5 DEF AllBytes
<1>7. Preserves(messages, messages', DOMAIN messages)
  BY <1>4, <1>5 DEF Preserves
<1> QED BY <1>1, <1>2, <1>3, <1>4, <1>6, <1>7 DEF s

\* The channel after a deletion: what is left of ids is lost.
LEMMA Deleted ==
  ASSUME Inv, NEW ids, Delete(ids)
  PROVE  /\ \E gone \in SUBSET ids : /\ DOMAIN messages' = DOMAIN messages \ gone
                                     /\ lost' = lost \cup (ids \ gone)
         /\ AllBytes(messages')
         /\ \A kept : kept \cap ids = {} => Preserves(messages, messages', kept)
<1>1. PICK gone \in SUBSET ids : /\ messages' = [m \in DOMAIN messages \ gone |-> messages[m]]
                                 /\ lost' = lost \cup (ids \ gone)
  BY Zenon DEF Delete
<1>2. AllBytes(messages)
  BY DEF Inv, Types
<1>3. DOMAIN messages' = DOMAIN messages \ gone
  BY <1>1
<1>4. \A m \in DOMAIN messages \ gone : messages'[m] = messages[m]
  BY <1>1
<1>5. AllBytes(messages')
  BY <1>2, <1>3, <1>4 DEF AllBytes
<1>6. \A kept : kept \cap ids = {} => Preserves(messages, messages', kept)
  BY <1>3, <1>4 DEF Preserves
<1> QED BY <1>1, <1>3, <1>5, <1>6

\* The messages are divided up anew while the object and the parts stay.
LEMMA OwnershipStep ==
  ASSUME Inv, UNCHANGED <<object, parts>>,
         DOMAIN messages' \subseteq 1..sent',
         DOMAIN messages' = Referenced \cup lost' \cup Own(up', sent'),
         Referenced \cap lost' = {},
         Own(up', sent') \cap (Referenced \cup lost') = {}
  PROVE  Ownership'
<1>1. Referenced' = Referenced
  BY DEF Referenced
<1>2. Apart'
  BY DEF Inv, Ownership, Apart
<1> QED BY <1>1, <1>2 DEF Ownership

\* What Inv says of an upload under way.
LEMMA UnderWay ==
  ASSUME Inv, up.pc # "idle"
  PROVE  /\ up \in Ups /\ up.rerr \in BOOLEAN /\ cancelled \in BOOLEAN /\ sent \in Nat
         /\ AllBytes(messages) /\ up.chunks \in Seq(Rows(sent))
         /\ Decoding(up) /\ Progress(up, cancelled) /\ Recording(messages, up)
         /\ Verifying(messages, up, sent)
BY UpTypes DEF Inv, Types, Uploading

\* What Inv says of the messages.
LEMMA Division ==
  ASSUME Inv
  PROVE  /\ DOMAIN messages \subseteq 1..sent
         /\ DOMAIN messages = Referenced \cup lost \cup Own(up, sent)
         /\ Referenced \cap lost = {}
         /\ Own(up, sent) \cap (Referenced \cup lost) = {}
         /\ Apart
BY DEF Inv, Ownership

\* A smaller set of messages is preserved with a larger one.
LEMMA PreservesLess ==
  ASSUME NEW m, NEW m2, NEW a, NEW b, a \subseteq b, Preserves(m, m2, b)
  PROVE  Preserves(m, m2, a)
BY DEF Preserves

\* Numbers up to one more.
LEMMA UpToNext ==
  ASSUME NEW n \in Nat, NEW s \in SUBSET (1..n)
  PROVE  s \cup {n + 1} \subseteq 1..n + 1 /\ n + 1 \notin s
OBVIOUS

\* uploadChunk: the document is sent and will be verified, is sent and lost, or
\* is not sent.
LEMMA uploadChunkStep ==
  ASSUME Inv, uploadChunk, UNCHANGED bytesVars
  PROVE  Inv'
<1>1. up.pc = "send" /\ UNCHANGED <<cancelled, object, parts, purpose, held>>
  BY DEF uploadChunk, bytesVars
<1>2. up.pc \in Live /\ up.pc # "idle" /\ up.pc # "verify"
  BY <1>1 DEF Live
<1>3. /\ up \in Ups /\ up.rerr \in BOOLEAN /\ cancelled \in BOOLEAN /\ sent \in Nat
      /\ AllBytes(messages) /\ up.chunks \in Seq(Rows(sent))
      /\ Decoding(up) /\ Progress(up, cancelled) /\ Recording(messages, up)
  BY <1>2, UnderWay
<1> DEFINE I == IdsOf(up.chunks)
           l == Len(up.buf)
<1>4. Own(up, sent) = I
  BY <1>1, <1>2 DEF Own
<1> HIDE DEF I
<1>5. /\ DOMAIN messages \subseteq 1..sent
      /\ DOMAIN messages = Referenced \cup lost \cup I
      /\ Referenced \cap lost = {}
      /\ I \cap (Referenced \cup lost) = {}
  BY <1>4, Division
<1>6. up.buf \in Seq(Byte) /\ l \in Nat /\ up.buf # <<>> /\ l # 0
  <2>1. up.buf \in Seq(Byte)
    BY <1>3, UpTypes
  <2>2. up.buf # <<>>
    BY <1>1, <1>3 DEF Progress
  <2> QED BY <2>1, <2>2, EmptySeq
<1>7. ASSUME NEW data \in Seq(Byte), Post(data), up' = [up EXCEPT !.pc = "verify"], lost' = lost,
             NEW n \in 0..l, data = SubSeq(up.buf, 1, n)
      PROVE  Inv'
  <2>1. /\ sent' = sent + 1
        /\ sent + 1 \notin DOMAIN messages
        /\ DOMAIN messages' = DOMAIN messages \cup {sent + 1}
        /\ messages'[sent + 1] = data
        /\ AllBytes(messages')
        /\ Preserves(messages, messages', DOMAIN messages)
    BY <1>7, Posted
  <2>2. Moves(up, up', "verify", up.rerr)
    BY <1>7 DEF Moves
  <2>3. "verify" \in Live \cup {"failed"} /\ "verify" \in Live \cup {"idle", "failed"} /\ "verify" \in Live
    BY DEF Live
  <2>4. up'.pc = "verify" /\ Alike(up, up') /\ up'.rerr = up.rerr
    BY <1>3, <2>2, <2>3, PositionOnly
  <2>5. Progress(up', cancelled)
    <3>1. up.buf # <<>> /\ (~up.rerr /\ Len(up.buf) < UploadChunkSize => Ended(up, cancelled))
            /\ Recorded(up) = Len(up.chunks) * UploadChunkSize
      BY <1>1, <1>3 DEF Progress
    <3>2. Ended(up', cancelled) = Ended(up, cancelled) /\ Recorded(up') = Recorded(up)
      BY <2>4 DEF Alike, Ended, Recorded
    <3> QED BY <2>4, <3>1, <3>2 DEF Progress, Alike
  <2>6. Own(up', sent') = I \cup {sent + 1}
    <3>1. up'.chunks = up.chunks
      BY <2>4 DEF Alike
    <3> QED BY <2>1, <2>3, <2>4, <3>1 DEF Own, I
  <2>7. Verifying(messages', up', sent')
    <3>1. up'.chunks = up.chunks /\ up'.buf = up.buf
      BY <2>4 DEF Alike
    <3>2. sent + 1 \notin I
      BY <1>5, <2>1
    <3>3. sent + 1 \in DOMAIN messages'
      BY <2>1
    <3> QED BY <1>7, <2>1, <3>1, <3>2, <3>3, Zenon DEF Verifying, I
  <2>8. Ownership'
    <3>1. DOMAIN messages' \subseteq 1..sent'
      BY <1>3, <1>5, <2>1, UpToNext
    <3>2. DOMAIN messages' = Referenced \cup lost' \cup Own(up', sent')
      BY <1>5, <1>7, <2>1, <2>6, Zenon
    <3>3. Referenced \cap lost' = {}
      BY <1>5, <1>7
    <3>4. Own(up', sent') \cap (Referenced \cup lost') = {}
      BY <1>5, <1>7, <2>1, <2>6, Zenon
    <3> QED BY <1>1, <3>1, <3>2, <3>3, <3>4, OwnershipStep
  <2>9. Preserves(messages, messages', Referenced) /\ Preserves(messages, messages', IdsOf(up.chunks))
    BY <1>5, <2>1, PreservesLess DEF I
  <2>10. sent' \in Nat /\ sent <= sent'
    BY <1>3, <2>1
  <2> QED BY <1>1, <1>2, <1>3, <2>1, <2>2, <2>3, <2>5, <2>7, <2>8, <2>9, <2>10, MessageStep
<1>8. ASSUME up' = [up EXCEPT !.pc = "cleanup"]
      PROVE  /\ Moves(up, up', "cleanup", up.rerr)
             /\ "cleanup" \in Live \cup {"failed"} /\ "cleanup" \in Live
             /\ up'.pc = "cleanup"
             /\ Progress(up', cancelled)
             /\ Own(up', sent') = I
  <2>1. Moves(up, up', "cleanup", up.rerr)
    BY <1>8 DEF Moves
  <2>2. "cleanup" \in Live \cup {"failed"} /\ "cleanup" \in Live \cup {"idle", "failed"} /\ "cleanup" \in Live
    BY DEF Live
  <2>3. up'.pc = "cleanup" /\ Alike(up, up')
    BY <1>3, <2>1, <2>2, PositionOnly
  <2>4. Progress(up', cancelled)
    BY <2>3 DEF Progress
  <2>5. Own(up', sent') = I
    BY <2>2, <2>3 DEF Own, I, Alike
  <2> QED BY <2>1, <2>2, <2>3, <2>4, <2>5
<1>9. ASSUME Post(up.buf), lost' = lost \cup {sent + 1}, up' = [up EXCEPT !.pc = "cleanup"]
      PROVE  Inv'
  <2>1. /\ sent' = sent + 1
        /\ sent + 1 \notin DOMAIN messages
        /\ DOMAIN messages' = DOMAIN messages \cup {sent + 1}
        /\ AllBytes(messages')
        /\ Preserves(messages, messages', DOMAIN messages)
    BY <1>6, <1>9, Posted
  <2>2. /\ Moves(up, up', "cleanup", up.rerr)
        /\ "cleanup" \in Live \cup {"failed"}
        /\ up'.pc = "cleanup"
        /\ Progress(up', cancelled)
        /\ Own(up', sent') = I
    BY <1>8, <1>9
  <2>3. Verifying(messages', up', sent')
    BY <2>2 DEF Verifying
  <2>4. Ownership'
    <3>1. DOMAIN messages' \subseteq 1..sent'
      BY <1>3, <1>5, <2>1, UpToNext
    <3>2. DOMAIN messages' = Referenced \cup lost' \cup Own(up', sent')
      BY <1>5, <1>9, <2>1, <2>2, Zenon
    <3>3. Referenced \cap lost' = {}
      BY <1>5, <1>9, <2>1, Zenon
    <3>4. Own(up', sent') \cap (Referenced \cup lost') = {}
      BY <1>5, <1>9, <2>1, <2>2, Zenon
    <3> QED BY <1>1, <3>1, <3>2, <3>3, <3>4, OwnershipStep
  <2>5. Preserves(messages, messages', Referenced) /\ Preserves(messages, messages', IdsOf(up.chunks))
    BY <1>5, <2>1, PreservesLess DEF I
  <2>6. sent' \in Nat /\ sent <= sent'
    BY <1>3, <2>1
  <2> QED BY <1>1, <1>2, <1>3, <2>1, <2>2, <2>3, <2>4, <2>5, <2>6, MessageStep
<1>10. ASSUME up' = [up EXCEPT !.pc = "cleanup"], UNCHANGED <<messages, sent, lost>>
       PROVE  Inv'
  <2>1. Moves(up, up', "cleanup", up.rerr) /\ "cleanup" \in Live /\ "cleanup" # "verify" /\ Progress(up', cancelled')
    BY <1>1, <1>8, <1>10
  <2> QED BY <1>1, <1>2, <1>3, <1>10, <2>1, PositionStep
<1>11. CASE \E n \in {l} \cup (IF Flaky THEN {l - 1} ELSE {}) :
              /\ Post(SubSeq(up.buf, 1, n))
              /\ up' = [up EXCEPT !.pc = "verify"]
              /\ UNCHANGED lost
  <2>1. PICK n \in {l} \cup (IF Flaky THEN {l - 1} ELSE {}) :
              /\ Post(SubSeq(up.buf, 1, n))
              /\ up' = [up EXCEPT !.pc = "verify"]
              /\ UNCHANGED lost
    BY <1>11
  <2>2. n \in 0..l
    <3> HIDE DEF l
    <3> QED BY <1>6
  <2>3. SubSeq(up.buf, 1, n) \in Seq(Byte)
    BY <1>6, <2>2, Beginning
  <2> DEFINE data == SubSeq(up.buf, 1, n)
  <2>4. data \in Seq(Byte) /\ Post(data) /\ lost' = lost /\ up' = [up EXCEPT !.pc = "verify"] /\ data = SubSeq(up.buf, 1, n)
    BY <2>1, <2>3
  <2> HIDE DEF data
  <2> QED BY <1>7, <2>2, <2>4
<1> QED BY <1>9, <1>10, <1>11 DEF uploadChunk

\* Multiples of the chunk size.
LEMMA Multiples ==
  ASSUME NEW n \in Nat, NEW c \in Nat
  PROVE  /\ (n + 1) * c = n * c + c
         /\ n * c \in Nat
OBVIOUS

\* Where only full documents have been recorded so far, the last is full, too.
LEMMA AllFull ==
  ASSUME NEW rows \in Seq(Chunks), InOrder(rows), Regular(rows), UploadChunkSize \in Nat \ {0},
         SizeOf(rows) = Len(rows) * UploadChunkSize
  PROVE  \A i \in 1..Len(rows) : rows[i].size = UploadChunkSize
<1> DEFINE n == Len(rows)
           c == UploadChunkSize
<1>1. n \in Nat /\ c \in Nat
  OBVIOUS
<1>2. ASSUME n # 0
      PROVE  rows[n].size = c
  <2> DEFINE k == n - 1
             s == rows[n].size
  <2>1. k \in Nat /\ k + 1 = n /\ n \in 1..n
    BY <1>1, <1>2
  <2>2. Before(rows, n) = k * c
    <3>1. rows[n].offset = Before(rows, n)
      BY <2>1 DEF InOrder
    <3>2. rows[n].offset = (n - 1) * c
      BY <2>1 DEF Regular
    <3> QED BY <3>1, <3>2
  <2>3. Before(rows, n + 1) = Before(rows, n) + rows[n].size /\ Before(rows, n + 1) = SizeOf(rows)
    BY <2>1, BeforeSteps
  <2>4. s \in Nat
    BY <2>1, SizesType
  <2>5. n * c = k * c + s
    BY <2>2, <2>3
  <2>6. (k + 1) * c = k * c + c /\ k * c \in Nat
    BY <1>1, <2>1, Multiples
  <2> DEFINE x == k * c
             y == n * c
  <2>7. y = x + s /\ y = x + c /\ x \in Nat
    BY <2>1, <2>5, <2>6
  <2> HIDE DEF x, y, s, c
  <2>8. s = c
    BY <1>1, <2>4, <2>7
  <2> QED BY <2>8 DEF s
<1>3. ASSUME NEW i \in 1..n
      PROVE  rows[i].size = c
  <2>1. CASE i = n
    <3>1. n # 0
      BY <1>1
    <3> QED BY <1>2, <2>1, <3>1
  <2>2. CASE i # n
    <3>1. i < n
      BY <1>1, <2>2
    <3> QED BY <3>1 DEF Regular
  <2> QED BY <2>1, <2>2
<1> QED BY <1>3

\* One more document at its multiple.
LEMMA RegularMore ==
  ASSUME NEW rows \in Seq(Chunks), \A i \in 1..Len(rows) : rows[i].size = UploadChunkSize, Regular(rows),
         UploadChunkSize \in Nat,
         NEW r \in Chunks, r.offset = Len(rows) * UploadChunkSize, r.size <= UploadChunkSize
  PROVE  Regular(Append(rows, r))
<1> DEFINE n == Len(rows)
           t == Append(rows, r)
           c == UploadChunkSize
<1>1. n \in Nat /\ c <= c
  OBVIOUS
<1>2. Len(t) = n + 1 /\ (\A i \in 1..n : t[i] = rows[i]) /\ t[n + 1] = r
  BY Appended
<1>3. \A i \in 1..n : rows[i].offset = (i - 1) * c /\ rows[i].size = c
  BY DEF Regular
<1>4. r.offset = n * c /\ r.size <= c
  OBVIOUS
<1> HIDE DEF t, n, c
<1>5. ASSUME NEW i \in 1..n + 1
      PROVE  t[i].offset = (i - 1) * c /\ t[i].size <= c /\ (i < n + 1 => t[i].size = c)
  <2>1. CASE i \in 1..n
    <3>1. t[i].offset = (i - 1) * c /\ t[i].size = c
      BY <1>2, <1>3, <2>1, Zenon
    <3> QED BY <1>1, <3>1
  <2>2. CASE i = n + 1
    <3>1. i - 1 = n /\ ~(i < n + 1)
      BY <1>1, <2>2
    <3>2. t[i] = r
      BY <1>2, <2>2
    <3> QED BY <1>4, <3>1, <3>2, Zenon
  <2>3. i \in 1..n \/ i = n + 1
    BY <1>1
  <2> QED BY <2>1, <2>2, <2>3
<1>6. Regular(t)
  <2>1. \A i \in 1..Len(t) : t[i].offset = (i - 1) * c /\ t[i].size <= c /\ (i < Len(t) => t[i].size = c)
    BY <1>2, <1>5, Zenon
  <2> QED BY <2>1 DEF Regular, c
<1> QED BY <1>6 DEF t

\* The row that ChunkDone records.
NewRow == [id |-> sent, offset |-> up.pos - Len(up.buf), size |-> Len(up.buf)]

\* The position it goes on to.
NextPosition ==
  CASE up.rerr -> "cleanup"
    [] ~up.rerr /\ Len(up.buf) < UploadChunkSize -> "validate"
    [] OTHER -> "read"

\* The chunk map with the document just verified lays out what has been read.
LEMMA DocumentRecorded ==
  ASSUME Inv, UploadAssumption, up.pc = "verify", Len(messages[sent]) = Len(up.buf)
  PROVE  /\ NewRow \in Rows(sent) /\ NewRow \in Chunks
         /\ LaidOut(messages, Append(up.chunks, NewRow), Part(up.data, 0, up.pos))
         /\ Regular(Append(up.chunks, NewRow))
<1> DEFINE l == Len(up.buf)
           y == up.pos
           a == y - l
           b == Part(up.data, 0, a)
           n == Len(up.chunks)
           c == UploadChunkSize
<1>1. /\ up \in Ups /\ sent \in Nat /\ AllBytes(messages)
      /\ Decoding(up) /\ Progress(up, cancelled) /\ Recording(messages, up) /\ Verifying(messages, up, sent)
  BY UnderWay
<1>2. /\ up.buf \in Seq(Byte) /\ up.data \in Seq(Byte) /\ up.chunks \in Seq(Chunks) /\ y \in Nat /\ l \in Nat
      /\ n \in Nat /\ c \in Nat \ {0}
  BY <1>1, UpTypes DEF UploadAssumption
<1>3. l <= y /\ y <= Len(up.data) /\ l <= c
  <2>1. y + up.rem <= Len(up.data) /\ l <= y /\ l <= c
    BY <1>1 DEF Decoding
  <2>2. up.rem \in Nat /\ Len(up.data) \in Nat
    BY <1>1, UpTypes
  <2> DEFINE x == up.rem
             d == Len(up.data)
  <2> HIDE DEF x, d, l, c, y
  <2> QED BY <1>2, <2>1, <2>2 DEF x, d
<1>4. up.buf = Part(up.data, a, y)
  BY <1>1 DEF Decoding
<1>5. l # 0
  <2>1. up.buf # <<>>
    BY <1>1 DEF Progress
  <2> QED BY <1>2, <2>1, EmptySeq
<1>6. a \in Nat /\ a <= y /\ 0 <= a /\ 0 \in Nat /\ a <= Len(up.data)
  <2> DEFINE d == Len(up.data)
  <2>1. d \in Nat
    BY <1>2
  <2> HIDE DEF y, l, d
  <2> QED BY <1>2, <1>3, <2>1 DEF d
<1>7. a = n * c
  BY <1>1 DEF Progress, Recorded
<1>8. LaidOut(messages, up.chunks, b) /\ Regular(up.chunks)
  <2>1. up.pc \in Live
    BY DEF Live
  <2> QED BY <1>1, <2>1 DEF Recording, Recorded
<1>9. b \in Seq(Byte) /\ Len(b) = a
  <2> DEFINE d == up.data
  <2>1. d \in Seq(Byte) /\ a \in Nat /\ 0 \in Nat /\ 0 <= a /\ a <= Len(d)
    BY <1>2, <1>6
  <2> HIDE DEF a, b, d
  <2>2. Part(d, 0, a) \in Seq(Byte) /\ Len(Part(d, 0, a)) = a - 0
    BY ONLY <2>1, PartType
  <2>3. a - 0 = a
    BY ONLY <2>1
  <2> QED BY <2>2, <2>3, Zenon DEF b, d
<1>10. SizeOf(up.chunks) = a
  BY <1>8, <1>9 DEF LaidOut, Holds
<1>11. sent \in DOMAIN messages /\ messages[sent] = up.buf
  <2>1. PICK k \in 0..Len(up.buf) : messages[sent] = SubSeq(up.buf, 1, k)
    BY <1>1 DEF Verifying
  <2>2. Len(SubSeq(up.buf, 1, k)) = k /\ (k = Len(up.buf) => SubSeq(up.buf, 1, k) = up.buf)
    BY <1>2, Beginning
  <2>3. k = Len(up.buf)
    BY <2>1, <2>2
  <2>4. sent \in DOMAIN messages
    BY <1>1 DEF Verifying
  <2> QED BY <2>1, <2>2, <2>3, <2>4
<1>12. sent \in 1..sent
  <2>1. DOMAIN messages \subseteq 1..sent
    BY Division
  <2> QED BY <1>11, <2>1
<1> DEFINE r == NewRow
<1>13. r = [id |-> sent, offset |-> a, size |-> l]
  BY DEF NewRow
<1> HIDE DEF r, a, b, l, n, c, y
<1>14. r.id = sent /\ r.offset = a /\ r.size = l
  BY <1>13
<1>15. r \in Rows(sent) /\ r \in Chunks
  BY <1>1, <1>2, <1>3, <1>5, <1>6, <1>12, <1>13 DEF Rows, Chunks, c
<1>16. Holds(messages, Append(up.chunks, r), b \o up.buf)
  <2>1. Holds(messages, up.chunks, b)
    BY <1>8 DEF LaidOut
  <2>2. r.id \in DOMAIN messages /\ messages[r.id] = up.buf /\ Len(up.buf) = r.size
    BY <1>11, <1>14 DEF l
  <2> QED BY <1>2, <1>15, <2>1, <2>2, HoldsMore
<1>17. b \o up.buf = Part(up.data, 0, y)
  <2> DEFINE d == up.data
  <2>1. d \in Seq(Byte) /\ 0 \in Nat /\ a \in Nat /\ y \in Nat /\ 0 <= a /\ a <= y /\ y <= Len(d)
    BY <1>2, <1>3, <1>6, Zenon
  <2> HIDE DEF d
  <2>2. Part(d, 0, a) \o Part(d, a, y) = Part(d, 0, y)
    BY ONLY <2>1, PartJoin
  <2> QED BY <1>4, <2>2, Zenon DEF b, d
<1>18. InOrder(Append(up.chunks, r))
  <2>1. InOrder(up.chunks)
    BY <1>8 DEF LaidOut
  <2>2. r.offset = SizeOf(up.chunks)
    BY <1>10, <1>14
  <2> QED BY <1>2, <1>15, <2>1, <2>2, InOrderMore
<1>19. Regular(Append(up.chunks, r))
  <2>1. SizeOf(up.chunks) = Len(up.chunks) * UploadChunkSize
    BY <1>7, <1>10 DEF n, c
  <2>2. \A i \in 1..Len(up.chunks) : up.chunks[i].size = UploadChunkSize
    BY <1>2, <1>8, <2>1, AllFull DEF LaidOut, c
  <2>3. r.offset = Len(up.chunks) * UploadChunkSize
    BY <1>7, <1>14 DEF n, c
  <2>4. r.size <= UploadChunkSize
    BY <1>3, <1>14 DEF c
  <2> QED BY <1>2, <1>8, <1>15, <2>2, <2>3, <2>4, RegularMore DEF c
<1>20. LaidOut(messages, Append(up.chunks, r), Part(up.data, 0, y))
  BY <1>16, <1>17, <1>18 DEF LaidOut
<1> QED BY <1>15, <1>19, <1>20 DEF r, y

\* ChunkDone changes the position, the buffer and the chunks.
LEMMA ChunkDoneFields ==
  ASSUME up \in Ups, NewRow \in Chunks, ChunkDone
  PROVE  /\ up' \in Ups
         /\ up'.pc = NextPosition /\ NextPosition \in {"cleanup", "validate", "read"}
         /\ up'.buf = <<>>
         /\ up'.chunks = Append(up.chunks, NewRow)
         /\ up'.kind = up.kind /\ up'.frames = up.frames /\ up'.declared = up.declared
         /\ up'.data = up.data /\ up'.frame = up.frame /\ up'.rem = up.rem /\ up'.pos = up.pos
         /\ up'.rerr = up.rerr
<1> DEFINE p == NextPosition
           k == Append(up.chunks, NewRow)
<1>1. up' = [up EXCEPT !.pc = p, !.buf = <<>>, !.chunks = k]
  BY Zenon DEF ChunkDone, NextPosition, NewRow
<1>2. p \in {"cleanup", "validate", "read"}
  BY DEF NextPosition
<1>3. p \in Live \cup {"idle", "failed"}
  BY <1>2 DEF Live
<1>4. k \in Seq(Chunks) /\ <<>> \in Seq(Byte)
  <2>1. up.chunks \in Seq(Chunks)
    BY UpTypes
  <2> QED BY <2>1, Appended
<1> HIDE DEF p, k
<1>5. up' \in Ups
  BY ONLY <1>1, <1>3, <1>4, up \in Ups DEF Ups
<1>6. /\ up'.pc = p /\ up'.buf = <<>> /\ up'.chunks = k
      /\ up'.kind = up.kind /\ up'.frames = up.frames /\ up'.declared = up.declared
      /\ up'.data = up.data /\ up'.frame = up.frame /\ up'.rem = up.rem /\ up'.pos = up.pos
      /\ up'.rerr = up.rerr
  BY ONLY <1>1, up \in Ups DEF Ups
<1> QED BY <1>2, <1>5, <1>6 DEF p, k

\* The position ChunkDone goes on to.
LEMMA NextPositionIs ==
  ASSUME up.rerr \in BOOLEAN
  PROVE  /\ NextPosition = "validate" => ~up.rerr /\ Len(up.buf) < UploadChunkSize
         /\ NextPosition = "read" => ~up.rerr /\ ~(Len(up.buf) < UploadChunkSize)
BY DEF NextPosition

\* A document is recorded.
LEMMA ChunkDoneStep ==
  ASSUME Inv, UploadAssumption, up.pc = "verify", Len(messages[sent]) = Len(up.buf), ChunkDone,
         UNCHANGED <<messages, lost, cancelled, sent, object, parts, purpose, held>>
  PROVE  Inv'
<1> DEFINE k == Append(up.chunks, NewRow)
           y == up.pos
           l == Len(up.buf)
           c == UploadChunkSize
           n == Len(up.chunks)
<1>1. /\ up \in Ups /\ up.rerr \in BOOLEAN /\ cancelled \in BOOLEAN /\ sent \in Nat
      /\ AllBytes(messages) /\ up.chunks \in Seq(Rows(sent))
      /\ Decoding(up) /\ Progress(up, cancelled)
      /\ Verifying(messages, up, sent)
  BY UnderWay
<1>2. /\ NewRow \in Rows(sent) /\ NewRow \in Chunks
      /\ LaidOut(messages, k, Part(up.data, 0, y))
      /\ Regular(k)
  BY DocumentRecorded
<1> HIDE DEF k
<1>3. /\ up' \in Ups
      /\ up'.pc = NextPosition /\ NextPosition \in {"cleanup", "validate", "read"}
      /\ up'.buf = <<>>
      /\ up'.chunks = k
      /\ up'.kind = up.kind /\ up'.frames = up.frames /\ up'.declared = up.declared
      /\ up'.data = up.data /\ up'.frame = up.frame /\ up'.rem = up.rem /\ up'.pos = y
      /\ up'.rerr = up.rerr
  BY <1>1, <1>2, ChunkDoneFields DEF k
<1>4. up'.pc \in Live /\ up'.pc \notin {"idle", "verify", "send", "commit", "stored"} /\ "verify" \in Live
  BY <1>3 DEF Live
<1>5. /\ up.buf \in Seq(Byte) /\ up.data \in Seq(Byte) /\ up.chunks \in Seq(Chunks) /\ y \in Nat /\ l \in Nat
      /\ n \in Nat /\ c \in Nat \ {0}
  BY <1>1, UpTypes DEF UploadAssumption
<1>6. Recorded(up') = y
  <2>1. Recorded(up') = y - Len(<<>>) /\ Len(<<>>) = 0
    BY <1>3 DEF Recorded
  <2> QED BY <1>5, <2>1
<1>7. Len(k) = n + 1
  BY <1>2, <1>5, Appended DEF k
<1>8. Types'
  <2>1. k \in Seq(Rows(sent))
    BY <1>1, <1>2, Appended DEF k
  <2> QED BY <1>1, <1>3, <2>1 DEF Types
<1>9. Decoding(up')
  <2>1. <<>> = Part(up.data, y - 0, y) /\ Len(<<>>) = 0
    <3>1. y - 0 = y
      BY <1>5
    <3> QED BY <1>5, <3>1, PartEmpty
  <2>2. 0 <= y /\ 0 <= c
    BY <1>5
  <2> QED BY <1>1, <1>3, <2>1, <2>2 DEF Decoding
<1>10. Progress(up', cancelled)
  <2>1. NextPosition = "validate" => Ended(up', cancelled)
    <3>1. ~up.rerr /\ Len(up.buf) < UploadChunkSize => Ended(up, cancelled)
      BY <1>1 DEF Progress
    <3>2. Ended(up', cancelled) = Ended(up, cancelled)
      BY <1>3 DEF Ended
    <3> QED BY <1>1, <3>1, <3>2, NextPositionIs
  <2>2. NextPosition = "read" => Len(<<>>) < c /\ ~up.rerr
    BY <1>1, <1>5, NextPositionIs
  <2>3. NextPosition = "read" => Recorded(up') = Len(up'.chunks) * c
    <3> SUFFICES ASSUME NextPosition = "read"
                 PROVE  Recorded(up') = Len(up'.chunks) * c
      OBVIOUS
    <3>1. l = c
      <4>1. ~(l < c)
        BY <1>1, NextPositionIs
      <4>2. l <= c
        BY <1>1 DEF Decoding
      <4> QED BY <1>5, <4>1, <4>2
    <3>2. y - l = n * c
      BY <1>1 DEF Progress, Recorded
    <3>3. (n + 1) * c = n * c + c /\ n * c \in Nat
      BY <1>5, Multiples
    <3> DEFINE x == n * c
               z == (n + 1) * c
    <3>4. y - l = x /\ z = x + c /\ x \in Nat
      BY <3>2, <3>3
    <3> HIDE DEF x, z, y, l, c, n
    <3>5. y = z
      BY <1>5, <3>1, <3>4
    <3> QED BY <1>3, <1>6, <1>7, <3>5, Zenon DEF z
  <2> QED BY <1>3, <1>4, <2>1, <2>2, <2>3 DEF Progress
<1>11. Recording(messages, up')
  BY <1>2, <1>3, <1>6 DEF Recording
<1>12. Uploading'
  <2>1. Verifying(messages, up', sent)
    BY <1>4 DEF Verifying
  <2> QED BY <1>4, <1>9, <1>10, <1>11, <2>1 DEF Uploading
<1>13. Ownership'
  <2>1. Own(up, sent) = IdsOf(up.chunks) \cup {sent}
    BY <1>4 DEF Own
  <2>2. IdsOf(k) = IdsOf(up.chunks) \cup {NewRow.id}
    BY <1>2, <1>5, IdsMore DEF k
  <2>3. NewRow.id = sent
    BY DEF NewRow
  <2>4. Own(up', sent') = IdsOf(k)
    BY <1>3, <1>4 DEF Own
  <2>5. Own(up', sent') = Own(up, sent)
    BY <2>1, <2>2, <2>3, <2>4
  <2> QED BY <2>5, Division, OwnershipStep
<1>14. Stock' /\ Held'
  BY DEF Inv, Stock, Held
<1>15. Purpose'
  BY <1>3 DEF Inv, Purpose
<1> QED BY <1>8, <1>12, <1>13, <1>14, <1>15 DEF Inv

\* An upload fails: it forgets a document, or all of them, which are deleted or lost.
LEMMA FailingStep ==
  ASSUME Inv, NEW p \in {"cleanup", "failed"}, NEW ids, NEW gone \in SUBSET ids,
         up.pc \in Live, up' = [up EXCEPT !.pc = p],
         UNCHANGED <<cancelled, sent, object, parts, purpose, held>>,
         DOMAIN messages' = DOMAIN messages \ gone, lost' = lost \cup (ids \ gone),
         AllBytes(messages'), \A kept : kept \cap ids = {} => Preserves(messages, messages', kept),
         IF p = "failed" THEN ids = Own(up, sent)
                         ELSE ids \cap IdsOf(up.chunks) = {} /\ Own(up, sent) = IdsOf(up.chunks) \cup ids
  PROVE  Inv'
<1> DEFINE I == IdsOf(up.chunks)
           o == Own(up, sent)
           o2 == Own(up', sent')
<1>1. up.pc # "idle"
  BY DEF Live
<1>2. up \in Ups /\ sent \in Nat /\ up.rerr \in BOOLEAN
  BY <1>1, UnderWay
<1>3. Moves(up, up', p, up.rerr)
  BY DEF Moves
<1>4. p \in Live \cup {"failed"} /\ p \in Live \cup {"idle", "failed"} /\ (p = "cleanup" <=> p \in Live)
  BY DEF Live
<1>5. up'.pc = p /\ Alike(up, up')
  BY <1>2, <1>3, <1>4, PositionOnly
<1>6. Progress(up', cancelled) /\ Verifying(messages', up', sent')
  BY <1>5 DEF Progress, Verifying
<1>7. o2 = IF p = "failed" THEN {} ELSE I
  BY <1>4, <1>5 DEF Own, Alike
<1>8. /\ DOMAIN messages \subseteq 1..sent
      /\ DOMAIN messages = Referenced \cup lost \cup o
      /\ Referenced \cap lost = {}
      /\ o \cap (Referenced \cup lost) = {}
  BY Division
<1>9. IF p = "failed" THEN ids = o ELSE ids \cap I = {} /\ o = I \cup ids
  OBVIOUS
<1> HIDE DEF I, o, o2
<1>10. ids \subseteq o /\ Referenced \cap ids = {}
  BY <1>8, <1>9, Zenon
<1>11. o2 \cup ids = o /\ o2 \cap ids = {}
  BY <1>7, <1>9
<1>12. Ownership'
  <2>1. DOMAIN messages' \subseteq 1..sent'
    BY <1>8
  <2>2. DOMAIN messages' = Referenced \cup lost' \cup o2
    BY <1>8, <1>10, <1>11
  <2>3. Referenced \cap lost' = {}
    BY <1>8, <1>10
  <2>4. o2 \cap (Referenced \cup lost') = {}
    BY <1>8, <1>11
  <2> QED BY <2>1, <2>2, <2>3, <2>4, OwnershipStep DEF o2
<1>13. Preserves(messages, messages', Referenced)
  BY <1>10
<1>14. p = "failed" \/ Preserves(messages, messages', I)
  BY <1>9
<1>15. sent' \in Nat /\ sent <= sent'
  BY <1>2
<1> QED BY <1>2, <1>3, <1>4, <1>6, <1>12, <1>13, <1>14, <1>15, MessageStep DEF I

\* verifyUploadedSize: the document is recorded, deleted or lost.
LEMMA verifyUploadedSizeStep ==
  ASSUME Inv, UploadAssumption, verifyUploadedSize, UNCHANGED bytesVars
  PROVE  Inv'
<1>1. up.pc = "verify" /\ UNCHANGED <<cancelled, sent, object, parts, purpose, held>>
  BY DEF verifyUploadedSize, bytesVars
<1>2. up.pc \in Live /\ up.pc # "idle"
  BY <1>1 DEF Live
<1>3. Own(up, sent) = IdsOf(up.chunks) \cup {sent} /\ {sent} \cap IdsOf(up.chunks) = {}
  <2>1. Verifying(messages, up, sent)
    BY <1>2, UnderWay
  <2> QED BY <1>1, <1>2, <2>1 DEF Own, Verifying
<1>4. CASE Len(messages[sent]) = Len(up.buf) /\ ChunkDone /\ UNCHANGED <<messages, lost>>
  BY <1>1, <1>4, ChunkDoneStep
<1>5. CASE Delete({sent}) /\ up' = [up EXCEPT !.pc = "cleanup"]
  <2>1. PICK gone \in SUBSET {sent} : /\ DOMAIN messages' = DOMAIN messages \ gone
                                      /\ lost' = lost \cup ({sent} \ gone)
    BY <1>5, Deleted
  <2>2. /\ AllBytes(messages')
        /\ \A kept : kept \cap {sent} = {} => Preserves(messages, messages', kept)
    BY <1>5, Deleted
  <2> QED BY <1>1, <1>2, <1>3, <1>5, <2>1, <2>2, FailingStep
<1>6. CASE lost' = lost \cup {sent} /\ up' = [up EXCEPT !.pc = "cleanup"] /\ UNCHANGED messages
  <2>1. {} \in SUBSET {sent} /\ DOMAIN messages' = DOMAIN messages \ {} /\ lost' = lost \cup ({sent} \ {})
    BY <1>6
  <2>2. AllBytes(messages')
    BY <1>2, <1>6, UnderWay
  <2>3. \A kept : kept \cap {sent} = {} => Preserves(messages, messages', kept)
    BY <1>6 DEF Preserves
  <2> QED BY <1>1, <1>2, <1>3, <1>6, <2>1, <2>2, <2>3, FailingStep
<1> QED BY <1>4, <1>5, <1>6 DEF verifyUploadedSize

\* cleanup and deleteChunks: what was recorded is deleted or lost.
LEMMA RemoveStep ==
  ASSUME Inv, up.pc \in {"cleanup", "discard"}, Delete(ChunkIds), up' = [up EXCEPT !.pc = "failed"],
         UNCHANGED <<cancelled, sent>>, UNCHANGED bytesVars
  PROVE  Inv'
<1>1. UNCHANGED <<object, parts, purpose, held>>
  BY DEF bytesVars
<1>2. up.pc \in Live
  BY DEF Live
<1>3. ChunkIds = Own(up, sent)
  BY <1>2 DEF Own, ChunkIds, IdsOf
<1> DEFINE ids == ChunkIds
<1> HIDE DEF ids
<1>4. Delete(ids)
  BY DEF ids
<1>5. PICK gone \in SUBSET ids : /\ DOMAIN messages' = DOMAIN messages \ gone
                                 /\ lost' = lost \cup (ids \ gone)
  BY <1>4, Deleted
<1>6. /\ AllBytes(messages')
      /\ \A kept : kept \cap ids = {} => Preserves(messages, messages', kept)
  BY <1>4, Deleted
<1>7. ids = Own(up, sent)
  BY <1>3 DEF ids
<1> QED BY <1>1, <1>2, <1>5, <1>6, <1>7, FailingStep

\* Every step of an upload, and the client's leaving.
LEMMA UploadSteps ==
  ASSUME Inv, UploadAssumption, UploadStep \/ Cancel, UNCHANGED bytesVars
  PROVE  Inv'
<1>1. CASE readChunkSize
  BY <1>1, readChunkSizeStep
<1>2. CASE readByte
  BY <1>2, readByteStep
<1>3. CASE readEOF
  BY <1>3, readEOFStep
<1>4. CASE readError
  BY <1>4, readErrorStep
<1>5. CASE uploadChunk
  BY <1>5, uploadChunkStep
<1>6. CASE verifyUploadedSize
  BY <1>6, verifyUploadedSizeStep
<1>7. CASE cleanup
  BY <1>7, RemoveStep DEF cleanup
<1>8. CASE validateDecodedSize
  BY <1>8, validateStep
<1>9. CASE commitChunks
  BY <1>9, commitStep
<1>10. CASE deleteChunks
  BY <1>10, RemoveStep DEF deleteChunks
<1>11. CASE Cancel
  BY <1>11, CancelStep
<1> QED
  BY <1>1, <1>2, <1>3, <1>4, <1>5, <1>6, <1>7, <1>8, <1>9, <1>10, <1>11, Zenon DEF UploadStep

----------------------------------------------------------------------------
(* A request begins                                                        *)

\* The frames of a request body.
Framed(kind, frames) ==
  /\ kind \in {"plain", "chunked", "copy"}
  /\ frames \in Seq(Seq(Byte))
  /\ kind # "chunked" => Len(frames) = 1
  /\ kind = "chunked" => <<>> \notin Range(frames)

\* The upload that begins.
NewUpload(kind, frames, declared) ==
  [NoUpload EXCEPT !.pc = "read", !.kind = kind, !.frames = frames, !.declared = declared,
                   !.data = FlattenSeq(frames),
                   !.rem = IF kind = "chunked" THEN 0 ELSE Len(frames[1])]

\* The only frame of a body is the body.
LEMMA OnlyFrame ==
  ASSUME NEW frames \in Seq(Seq(Byte)), Len(frames) = 1
  PROVE  FlattenSeq(frames) = frames[1] /\ frames[1] \in Seq(Byte)
<1> DEFINE e == frames[1]
<1>1. e \in Seq(Byte) /\ frames = <<e>>
  OBVIOUS
<1> HIDE DEF e
<1>2. FlattenSeq(<<e>>) = e
  BY <1>1, FlattenOne
<1> QED BY <1>1, <1>2 DEF e

\* It is at the beginning of its body.
LEMMA NewUploadDecodes ==
  ASSUME UploadAssumption, NEW kind, NEW frames, Framed(kind, frames), NEW declared \in Int,
         NEW u, u = NewUpload(kind, frames, declared)
  PROVE  /\ u \in Ups
         /\ u.pc = "read" /\ u.chunks = <<>> /\ u.data = FlattenSeq(frames)
         /\ Recorded(u) = 0
         /\ Decoding(u)
         /\ \A c : Progress(u, c)
         /\ \A m : Recording(m, u)
<1> DEFINE d == FlattenSeq(frames)
           x == IF kind = "chunked" THEN 0 ELSE Len(frames[1])
<1>1. kind \in {"plain", "chunked", "copy"} /\ frames \in Seq(Seq(Byte))
  BY DEF Framed
<1>2. d \in Seq(Byte) /\ Len(d) \in Nat
  BY <1>1, FlattenAppend
<1>3. x \in Nat /\ x <= Len(d) /\ (kind # "chunked" => x = Len(d)) /\ (kind = "chunked" => x = 0)
  <2>1. CASE kind = "chunked"
    BY <1>2, <2>1
  <2>2. CASE kind # "chunked"
    <3>1. Len(frames) = 1
      BY <2>2 DEF Framed
    <3>2. d = frames[1]
      BY <1>1, <3>1, OnlyFrame
    <3>3. x = Len(d)
      BY <2>2, <3>2
    <3> HIDE DEF d, x
    <3> QED BY <1>2, <2>2, <3>3
  <2> QED BY <2>1, <2>2
<1>4. u = [pc |-> "read", kind |-> kind, frames |-> frames, declared |-> declared, data |-> d,
           frame |-> 1, rem |-> x, pos |-> 0, buf |-> <<>>, rerr |-> FALSE, chunks |-> <<>>]
  BY Zenon DEF NewUpload, NoUpload
<1> HIDE DEF d, x
<1>5. /\ u.pc = "read" /\ u.kind = kind /\ u.frames = frames /\ u.declared = declared /\ u.data = d
      /\ u.frame = 1 /\ u.rem = x /\ u.pos = 0 /\ u.buf = <<>> /\ u.rerr = FALSE /\ u.chunks = <<>>
  BY <1>4
<1>6. u \in Ups
  <2>1. "read" \in Live \cup {"idle", "failed"}
    BY DEF Live
  <2>2. <<>> \in Seq(Byte) /\ <<>> \in Seq(Chunks) /\ 1 \in Nat /\ 0 \in Nat
    OBVIOUS
  <2> QED BY <1>1, <1>2, <1>3, <1>4, <2>1, <2>2 DEF Ups
<1>7. Len(<<>>) = 0 /\ 0 - 0 = 0 /\ 0 <= Len(d)
  BY <1>2
<1>8. Recorded(u) = 0
  BY <1>5, <1>7 DEF Recorded
<1>9. <<>> = Part(d, 0, 0)
  BY <1>2, <1>7, PartEmpty
<1>10. Decoding(u)
  <2>1. u.kind # "chunked" => Len(u.frames) = 1
    BY <1>5 DEF Framed
  <2>2. u.kind = "chunked" => <<>> \notin Range(u.frames)
    BY <1>5 DEF Framed
  <2>3. u.frame \in 1..Len(u.frames) + 1
    <3>1. Len(frames) \in Nat
      BY <1>1
    <3> QED BY <1>5, <3>1
  <2>4. u.pos + u.rem = IF u.kind = "chunked" THEN FrameEnd(u.frames, u.frame - 1) ELSE Len(u.data)
    <3>1. FrameEnd(frames, 0) = 0
      BY <1>1, FrameEnds
    <3>2. u.frame - 1 = 0 /\ u.pos + u.rem = x
      BY <1>3, <1>5
    <3> QED BY <1>3, <1>5, <3>1, <3>2, Zenon
  <2>5. u.pos + u.rem <= Len(u.data)
    BY <1>3, <1>5
  <2>6. Len(u.buf) <= u.pos /\ Len(u.buf) <= UploadChunkSize
    BY <1>5, <1>7 DEF UploadAssumption
  <2>7. u.buf = Part(u.data, u.pos - Len(u.buf), u.pos)
    BY <1>5, <1>7, <1>9, Zenon
  <2> QED BY <1>5, <2>1, <2>2, <2>3, <2>4, <2>5, <2>6, <2>7 DEF Decoding, d
<1>11. \A c : Progress(u, c)
  <2>1. Len(u.buf) < UploadChunkSize /\ ~u.rerr
    BY <1>5, <1>7 DEF UploadAssumption
  <2>2. Recorded(u) = Len(u.chunks) * UploadChunkSize
    BY <1>5, <1>7, <1>8 DEF UploadAssumption
  <2> QED BY <1>5, <2>1, <2>2 DEF Progress
<1>12. \A m : Recording(m, u)
  <2>1. Regular(<<>>)
    BY DEF Regular
  <2>2. \A m : LaidOut(m, <<>>, <<>>)
    BY HoldsNothing
  <2> QED BY <1>5, <1>8, <1>9, <2>1, <2>2, Zenon DEF Recording
<1> QED BY <1>5, <1>6, <1>8, <1>10, <1>11, <1>12 DEF d

\* A request that stores a body.
LEMMA BeginStep ==
  ASSUME Inv, UploadAssumption, NEW kind, NEW frames, Framed(kind, frames), NEW declared \in Int,
         NEW part \in PartNumbers \cup {0}, up.pc = "idle", up' = NewUpload(kind, frames, declared),
         cancelled' = FALSE, purpose' = [part |-> part, body |-> FlattenSeq(frames)],
         UNCHANGED <<messages, sent, lost, object, parts, held>>
  PROVE  Inv'
<1>1. /\ up' \in Ups
      /\ up'.pc = "read" /\ up'.chunks = <<>> /\ up'.data = FlattenSeq(frames)
      /\ Recorded(up') = 0
      /\ Decoding(up')
      /\ Progress(up', cancelled')
      /\ Recording(messages', up')
  BY NewUploadDecodes
<1>2. Types'
  <2>1. <<>> \in Seq(Rows(sent))
    OBVIOUS
  <2>2. sent \in Nat /\ AllBytes(messages)
    BY DEF Inv, Types
  <2>3. FALSE \in BOOLEAN
    OBVIOUS
  <2> QED BY <1>1, <2>1, <2>2, <2>3 DEF Types
<1>3. Uploading'
  <2>1. Verifying(messages', up', sent')
    BY <1>1 DEF Verifying
  <2> QED BY <1>1, <2>1 DEF Uploading
<1>4. Ownership'
  <2>1. Own(up, sent) = {}
    BY DEF Own, Live
  <2>2. Own(up', sent') = {}
    <3>1. IdsOf(<<>>) = {}
      BY DEF IdsOf
    <3> QED BY <1>1, <3>1 DEF Own
  <2>3. Own(up', sent') = Own(up, sent)
    BY <2>1, <2>2
  <2> QED BY <2>3, Division, OwnershipStep
<1>5. Stock' /\ Held'
  BY DEF Inv, Stock, Held
<1>6. Purpose'
  <2>1. FlattenSeq(frames) \in Seq(Byte)
    <3>1. frames \in Seq(Seq(Byte))
      BY DEF Framed
    <3> QED BY <3>1, FlattenAppend
  <2> QED BY <1>1, <2>1 DEF Purpose
<1> QED BY <1>2, <1>3, <1>4, <1>5, <1>6 DEF Inv

\* begin, of a source.
LEMMA Begins ==
  ASSUME Inv, UploadAssumption, NEW src, Framed(src.kind, src.frames), src.declared \in Int,
         NEW part \in PartNumbers \cup {0}, NEW body, body = FlattenSeq(src.frames),
         begin(src, body, part)
  PROVE  Inv'
<1>1. up' = NewUpload(src.kind, src.frames, src.declared)
  BY Zenon DEF begin, beginUpload, NewUpload
<1>2. /\ up.pc = "idle" /\ cancelled' = FALSE
      /\ purpose' = [part |-> part, body |-> FlattenSeq(src.frames)]
      /\ UNCHANGED <<messages, sent, lost, object, parts, held>>
  BY DEF begin, beginUpload
<1> QED BY <1>1, <1>2, BeginStep

\* The body of a client.
LEMMA ClientBody ==
  ASSUME BytesAssumption, NEW s \in Sources
  PROVE  Framed(s.kind, s.frames) /\ s.declared \in Int
BY DEF BytesAssumption, IsSource, Framed, Byte

\* putObject and uploadPart.
LEMMA ClientBegins ==
  ASSUME Inv, UploadAssumption, BytesAssumption, putObject \/ uploadPart
  PROVE  Inv'
<1>1. PICK s \in Sources, p \in PartNumbers \cup {0} : begin(s, FlattenSeq(s.frames), p)
  BY Zenon DEF putObject, uploadPart
<1>2. Framed(s.kind, s.frames) /\ s.declared \in Int
  BY ClientBody
<1> DEFINE body == FlattenSeq(s.frames)
<1>3. body = FlattenSeq(s.frames) /\ begin(s, body, p)
  BY <1>1
<1> HIDE DEF body
<1> QED BY <1>2, <1>3, Begins

\* The object is readable.
LEMMA ObjectReadable ==
  ASSUME Inv
  PROVE  Readable(View, object.body) /\ object.body \in Seq(Byte) /\ object.size = Len(object.body)
<1>1. LaidOut(messages, object.chunks, object.body) /\ object.size = Len(object.body) /\ object \in Versions
  BY DEF Inv, Stock, Stands
<1>2. IsMap(DataOf(messages, object.chunks), object.body)
  BY <1>1, DataMap
<1>3. View.rows = DataOf(messages, object.chunks) /\ View.size = object.size
  BY DEF View, WithData, DataOf
<1> QED BY <1>1, <1>2, <1>3 DEF Readable, Versions

\* A copy reads the bytes of the object.
LEMMA CopyBegins ==
  ASSUME Inv, UploadAssumption, RangeAssumption, NEW lo \in Nat, NEW hi \in Nat, lo <= hi,
         hi <= Len(object.body), NEW part \in PartNumbers \cup {0}, NEW body,
         body = Part(object.body, lo, hi), begin(CopySource(lo, hi), body, part)
  PROVE  Inv'
<1>1. /\ IsMap(View.rows, object.body) /\ View.size = Len(object.body) /\ object.body \in Seq(Byte)
  BY ObjectReadable DEF Readable
<1>2. Stream(View, lo, hi) = Read(body)
  BY <1>1, StreamRead
<1>3. body \in Seq(Byte)
  BY <1>1, PartType
<1> DEFINE src == CopySource(lo, hi)
<1>4. src = [kind |-> "copy", frames |-> <<body>>, declared |-> -1]
  BY <1>2 DEF CopySource, Read
<1>5. src.kind = "copy" /\ src.frames = <<body>> /\ src.declared \in Int /\ begin(src, body, part)
  BY <1>4
<1> HIDE DEF src
<1>6. Framed(src.kind, src.frames)
  <2>1. <<body>> \in Seq(Seq(Byte)) /\ Len(<<body>>) = 1
    BY <1>3
  <2> QED BY <1>5, <2>1 DEF Framed
<1>7. body = FlattenSeq(src.frames)
  BY <1>3, <1>5, FlattenOne
<1> QED BY <1>5, <1>6, <1>7, Begins

\* copyObject.
LEMMA CopyObjectBegins ==
  ASSUME Inv, UploadAssumption, RangeAssumption, copyObject
  PROVE  Inv'
<1> DEFINE n == object.size
           b == object.body
<1>1. b \in Seq(Byte) /\ n = Len(b)
  BY ObjectReadable
<1>2. n \in Nat /\ 0 \in Nat /\ 0 <= n /\ n <= Len(b)
  BY <1>1
<1>3. b = Part(b, 0, n)
  BY <1>1, PartFull
<1>4. begin(CopySource(0, n), b, 0)
  BY DEF copyObject
<1> HIDE DEF n
<1> QED BY <1>2, <1>3, <1>4, CopyBegins

\* uploadPartCopy.
LEMMA CopyPartBegins ==
  ASSUME Inv, UploadAssumption, RangeAssumption, BytesAssumption, uploadPartCopy
  PROVE  Inv'
<1> DEFINE b == object.body
<1>1. b \in Seq(Byte) /\ object.size = Len(b)
  BY ObjectReadable
<1>2. PICK p \in PartNumbers, h \in CopyRanges :
        LET r == parseByteRange(h, object.size) IN
          /\ r.satisfiable
          /\ begin(CopySource(r.start, r.end + 1), Slice(object.body, r.start, r.end + 1), p)
  BY Zenon DEF uploadPartCopy
<1> DEFINE r == parseByteRange(h, Len(b))
<1>3. r.satisfiable /\ begin(CopySource(r.start, r.end + 1), Slice(b, r.start, r.end + 1), p)
  BY <1>1, <1>2
<1>4. Understood(b, h, r)
  <2>1. IsHeader(h)
    BY DEF BytesAssumption
  <2> QED BY <1>1, <2>1, Parsed
<1> HIDE DEF r
<1>5. PICK lo, hi \in Nat : lo < hi /\ hi <= Len(b) /\ r = Satisfiable(lo, hi - 1)
  <2>1. ~NoRange.satisfiable /\ ~Unsatisfiable.satisfiable
    BY DEF NoRange, Unsatisfiable
  <2> QED BY <1>3, <1>4, <2>1, Zenon DEF Understood
<1>6. r.start = lo /\ r.end + 1 = hi
  <2>1. r.start = lo /\ r.end = hi - 1
    BY <1>5 DEF Satisfiable
  <2> QED BY <1>5, <2>1
<1>7. begin(CopySource(lo, hi), Slice(b, lo, hi), p)
  BY <1>3, <1>6, Zenon
<1>8. Slice(b, lo, hi) = Part(b, lo, hi)
  <2>1. b \in Seq(Byte) /\ hi \in Int /\ hi <= Len(b)
    BY <1>1, <1>5
  <2> HIDE DEF b
  <2> QED BY ONLY <2>1, lo \in Nat, SliceValue, Zenon
<1>9. lo <= hi /\ p \in PartNumbers \cup {0}
  BY <1>5
<1> DEFINE body == Part(b, lo, hi)
<1>10. body = Part(b, lo, hi) /\ begin(CopySource(lo, hi), body, p)
  BY <1>7, <1>8
<1> HIDE DEF body
<1> QED BY <1>5, <1>9, <1>10, CopyBegins

----------------------------------------------------------------------------
(* A request ends                                                          *)

\* The upload is forgotten.
LEMMA IdleAfter ==
  ASSUME Inv, Idle, sent' = sent, AllBytes(messages')
  PROVE  Types' /\ Uploading' /\ Purpose' /\ Own(up', sent') = {}
<1>1. up' = NoUpload /\ cancelled' = FALSE /\ purpose' = NoPurpose
  BY DEF Idle
<1>2. up'.pc = "idle" /\ up'.chunks = <<>>
  BY <1>1 DEF NoUpload
<1>3. Types'
  <2>1. <<>> \in Seq(Rows(sent)) /\ FALSE \in BOOLEAN
    OBVIOUS
  <2>2. sent \in Nat
    BY DEF Inv, Types
  <2>3. NoUpload \in Ups
    <3>1. "idle" \in Live \cup {"idle", "failed"} /\ 1 \in Nat /\ 0 \in Nat /\ -1 \in Int
      OBVIOUS
    <3>2. <<>> \in Seq(Seq(Byte)) /\ <<>> \in Seq(Byte) /\ <<>> \in Seq(Chunks)
      OBVIOUS
    <3> QED BY <3>1, <3>2 DEF Ups, NoUpload
  <2> QED BY <1>1, <1>2, <2>1, <2>2, <2>3 DEF Types
<1>4. up'.pc \notin Live
  BY <1>2 DEF Live
<1>5. Uploading'
  BY <1>1, <1>2, <1>4 DEF Uploading, Progress, Recording, Verifying
<1>6. Purpose'
  BY <1>1, <1>2 DEF Purpose, NoPurpose
<1>7. Own(up', sent') = {}
  BY <1>4 DEF Own
<1> QED BY <1>3, <1>5, <1>6, <1>7

\* giveUp: the answer is an error.
LEMMA giveUpStep ==
  ASSUME Inv, giveUp
  PROVE  Inv'
<1>1. Idle /\ up.pc = "failed" /\ UNCHANGED <<messages, sent, lost, object, parts, held>>
  BY DEF giveUp
<1>2. AllBytes(messages)
  BY DEF Inv, Types
<1>3. Types' /\ Uploading' /\ Purpose' /\ Own(up', sent') = {}
  BY <1>1, <1>2, IdleAfter
<1>4. Own(up, sent) = {}
  BY <1>1 DEF Own, Live
<1>5. Ownership'
  <2>1. Own(up', sent') = Own(up, sent)
    BY <1>3, <1>4
  <2> QED BY <1>1, <2>1, Division, OwnershipStep
<1>6. Stock' /\ Held'
  BY <1>1 DEF Inv, Stock, Held
<1> QED BY <1>3, <1>5, <1>6 DEF Inv

\* The version that has been stored.
LEMMA StoredStands ==
  ASSUME Inv, up.pc = "stored", NEW t \in Nat
  PROVE  /\ PartStands(messages, Stored(t))
         /\ Stored(t).chunks = up.chunks
         /\ Own(up, sent) = IdsOf(up.chunks)
<1> DEFINE d == up.data
<1>1. up.pc \in Live /\ up.pc # "idle"
  BY DEF Live
<1>2. up \in Ups /\ Progress(up, cancelled) /\ Recording(messages, up)
  BY <1>1, UnderWay
<1>3. d \in Seq(Byte) /\ up.chunks \in Seq(Chunks) /\ Len(d) \in Nat
  BY <1>2, UpTypes
<1>4. up.pos = Len(d) /\ up.buf = <<>> /\ purpose.body = d
  BY <1>1, <1>2 DEF Progress, Inv, Purpose
<1>5. Recorded(up) = Len(d)
  <2>1. Recorded(up) = Len(d) - Len(<<>>) /\ Len(<<>>) = 0
    BY <1>4 DEF Recorded
  <2> HIDE DEF d
  <2> QED BY <1>3, <2>1
<1>6. LaidOut(messages, up.chunks, d)
  <2>1. LaidOut(messages, up.chunks, Part(d, 0, Len(d)))
    BY <1>1, <1>2, <1>5 DEF Recording
  <2>2. Part(d, 0, Len(d)) = d
    BY <1>3, PartFull
  <2> QED BY <2>1, <2>2
<1>7. SubSeq(d, 1, up.pos) = d
  BY <1>3, <1>4
<1> DEFINE v == Stored(t)
<1>8. v = [chunks |-> up.chunks, size |-> Len(d), etag |-> MD5(d), updated |-> t, body |-> d]
  BY <1>4, <1>7, Zenon DEF Stored
<1> HIDE DEF v, d
<1>9. v.chunks = up.chunks /\ v.size = Len(d) /\ v.etag = MD5(d) /\ v.updated = t /\ v.body = d
  BY <1>8
<1>10. MD5(d) \in ETags /\ MD5(d).parts = 0
  BY <1>3 DEF MD5, ETags
<1>11. Names(v.etag, v.body)
  BY <1>3, <1>9, <1>10 DEF Names
<1>12. v \in Versions
  BY <1>3, <1>8, <1>10 DEF Versions
<1>13. PartStands(messages, v)
  BY <1>6, <1>9, <1>11, <1>12 DEF PartStands, Stands
<1>14. Own(up, sent) = IdsOf(up.chunks)
  BY <1>1 DEF Own
<1> QED BY <1>9, <1>13, <1>14 DEF v

\* The messages of the parts at ps.
PartIds(ps) == UNION {IdsOf(parts[p].chunks) : p \in ps}

\* They are apart from those of the object and of other parts.
LEMMA PartsApart ==
  ASSUME Apart, NEW ps \in SUBSET DOMAIN parts, NEW qs \in SUBSET DOMAIN parts, ps \cap qs = {}
  PROVE  /\ IdsOf(object.chunks) \cap PartIds(ps) = {}
         /\ PartIds(ps) \cap PartIds(qs) = {}
         /\ PartIds(ps \cup qs) = PartIds(ps) \cup PartIds(qs)
<1>1. IdsOf(object.chunks) \cap PartIds(ps) = {}
  BY DEF Apart, PartIds
<1>2. PartIds(ps) \cap PartIds(qs) = {}
  <2>1. ASSUME NEW p \in ps, NEW q \in qs
        PROVE  IdsOf(parts[p].chunks) \cap IdsOf(parts[q].chunks) = {}
    <3>1. p # q /\ p \in DOMAIN parts /\ q \in DOMAIN parts
      OBVIOUS
    <3> QED BY <3>1, Zenon DEF Apart
  <2> QED BY <2>1 DEF PartIds
<1>3. PartIds(ps \cup qs) = PartIds(ps) \cup PartIds(qs)
  BY DEF PartIds
<1> QED BY <1>1, <1>2, <1>3

\* finish, of the object.
LEMMA ObjectFinished ==
  ASSUME Inv, BytesAssumption, up.pc = "stored", NEW t \in Times, object' = Stored(t),
         Delete(IdsOf(object.chunks)), UNCHANGED <<parts, sent, held>>, Idle
  PROVE  Inv'
<1> DEFINE old == IdsOf(object.chunks)
           u == IdsOf(up.chunks)
           keep == PartIds(DOMAIN parts)
<1>1. t \in Nat
  <2>1. object.updated \in Nat /\ MaxSeconds \in Nat
    BY DEF Inv, Stock, Stands, Versions, BytesAssumption
  <2> QED BY <2>1 DEF Times
<1>2. /\ PartStands(messages, object')
      /\ object'.chunks = up.chunks
      /\ Own(up, sent) = u
  BY <1>1, StoredStands
<1>3. /\ DOMAIN messages \subseteq 1..sent
      /\ DOMAIN messages = Referenced \cup lost \cup Own(up, sent)
      /\ Referenced \cap lost = {}
      /\ Own(up, sent) \cap (Referenced \cup lost) = {}
      /\ Apart
  BY Division
<1>4. Referenced = old \cup keep
  BY DEF Referenced, PartIds
<1>5. old \cap keep = {}
  BY <1>3 DEF Apart, PartIds
<1>6. Referenced' = u \cup keep
  BY <1>2 DEF Referenced, PartIds
<1>7. \A p \in DOMAIN parts : IdsOf(parts[p].chunks) \subseteq keep
  BY DEF PartIds
<1>16. Delete(old)
  OBVIOUS
<1>17. u = IdsOf(up.chunks) /\ old = IdsOf(object.chunks)
  OBVIOUS
<1> HIDE DEF old, u, keep
<1>8. PICK gone \in SUBSET old : /\ DOMAIN messages' = DOMAIN messages \ gone
                                 /\ lost' = lost \cup (old \ gone)
  BY <1>16, Deleted
<1>9. /\ AllBytes(messages')
      /\ \A kept : kept \cap old = {} => Preserves(messages, messages', kept)
  BY <1>16, Deleted
<1>10. /\ DOMAIN messages' = u \cup keep \cup lost'
       /\ (u \cup keep) \cap lost' = {}
       /\ (u \cup keep) \cap old = {}
  <2> DEFINE D == DOMAIN messages
             x == old \ gone
  <2>1. /\ D = old \cup keep \cup lost \cup u
        /\ (old \cup keep) \cap lost = {}
        /\ u \cap (old \cup keep \cup lost) = {}
        /\ old \cap keep = {}
    BY <1>2, <1>3, <1>4, <1>5, Zenon
  <2> HIDE DEF D
  <2>2. /\ D \ gone = u \cup keep \cup (lost \cup x)
        /\ (u \cup keep) \cap (lost \cup x) = {}
        /\ (u \cup keep) \cap old = {}
    BY ONLY <2>1, gone \in SUBSET old
  <2> HIDE DEF x
  <2> QED BY <1>8, <2>2, Zenon DEF D, x
<1>11. Types' /\ Uploading' /\ Purpose' /\ Own(up', sent') = {}
  BY <1>9, IdleAfter
<1>12. Apart'
  <2>1. IdsOf(object'.chunks) = u
    BY <1>2, <1>17
  <2>2. u \cap keep = {}
    BY <1>2, <1>3, <1>4
  <2>3. \A p \in DOMAIN parts : u \cap IdsOf(parts[p].chunks) = {}
    BY <1>7, <2>2
  <2> QED BY <1>3, <2>1, <2>3 DEF Apart
<1>13. Ownership'
  <2>1. DOMAIN messages' \subseteq 1..sent'
    BY <1>3, <1>8
  <2>2. DOMAIN messages' = (Referenced \cup lost \cup Own(up, sent))'
    BY <1>6, <1>10, <1>11
  <2>3. (Referenced \cap lost)' = {}
    BY <1>6, <1>10
  <2>4. (Own(up, sent) \cap (Referenced \cup lost))' = {}
    BY <1>11
  <2> QED BY <1>12, <2>1, <2>2, <2>3, <2>4 DEF Ownership
<1>14. Stock'
  <2>1. Preserves(messages, messages', u) /\ Preserves(messages, messages', keep)
    <3>1. u \cap old = {} /\ keep \cap old = {}
      BY <1>10
    <3> QED BY <1>9, <3>1
  <2>2. Stands(messages', object')
    <3> DEFINE v == object'
    <3>1. Stands(messages, v) /\ Preserves(messages, messages', IdsOf(v.chunks))
      BY <1>2, <1>17, <2>1 DEF PartStands
    <3> HIDE DEF v
    <3>2. Stands(messages', v)
      BY <3>1, StandsElsewhere
    <3> QED BY <3>2 DEF v
  <2>3. ASSUME NEW p \in DOMAIN parts
        PROVE  PartStands(messages', parts[p])
    <3> DEFINE v == parts[p]
    <3>1. PartStands(messages, v)
      BY DEF Inv, Stock
    <3>2. Preserves(messages, messages', IdsOf(v.chunks))
      BY <1>7, <2>1, PreservesLess
    <3> HIDE DEF v
    <3>3. Stands(messages', v) /\ v.etag = MD5(v.body)
      BY <3>1, <3>2, StandsElsewhere DEF PartStands
    <3> QED BY <3>3 DEF PartStands, v
  <2>4. DOMAIN parts \subseteq PartNumbers
    BY DEF Inv, Stock
  <2> QED BY <2>2, <2>3, <2>4 DEF Stock
<1>15. Held'
  BY DEF Inv, Held
<1> QED BY <1>11, <1>13, <1>14, <1>15 DEF Inv

\* finish, of a part.
LEMMA PartFinished ==
  ASSUME Inv, up.pc = "stored", NEW q \in PartNumbers,
         parts' = [p \in DOMAIN parts \cup {q} |-> IF p = q THEN Stored(0) ELSE parts[p]],
         Delete(IF q \in DOMAIN parts THEN IdsOf(parts[q].chunks) ELSE {}),
         UNCHANGED <<object, sent, held>>, Idle
  PROVE  Inv'
<1> DEFINE old == IF q \in DOMAIN parts THEN IdsOf(parts[q].chunks) ELSE {}
           u == IdsOf(up.chunks)
           o == IdsOf(object.chunks)
           others == DOMAIN parts \ {q}
           rest == PartIds(others)
           keep == o \cup rest
           v == Stored(0)
<1>2. /\ PartStands(messages, v)
      /\ v.chunks = up.chunks
      /\ Own(up, sent) = u
  BY StoredStands
<1>3. /\ DOMAIN messages \subseteq 1..sent
      /\ DOMAIN messages = Referenced \cup lost \cup Own(up, sent)
      /\ Referenced \cap lost = {}
      /\ Own(up, sent) \cap (Referenced \cup lost) = {}
      /\ Apart
  BY Division
<1>4. /\ Referenced = old \cup keep
      /\ old \cap keep = {}
  <2> DEFINE qs == {q} \cap DOMAIN parts
  <2>1. qs \in SUBSET DOMAIN parts /\ others \in SUBSET DOMAIN parts /\ qs \cap others = {}
          /\ qs \cup others = DOMAIN parts
    OBVIOUS
  <2>2. PartIds(qs) = old
    BY DEF PartIds
  <2>3. Referenced = o \cup PartIds(DOMAIN parts)
    BY DEF Referenced, PartIds
  <2> HIDE DEF qs, others, old, o
  <2>4. o \cap PartIds(qs) = {} /\ PartIds(qs) \cap PartIds(others) = {}
          /\ PartIds(DOMAIN parts) = PartIds(qs) \cup PartIds(others)
    BY <1>3, <2>1, PartsApart DEF o
  <2> QED BY <2>2, <2>3, <2>4
<1>5. DOMAIN parts' = others \cup {q} /\ parts'[q] = v /\ \A p \in others : parts'[p] = parts[p]
  <2> HIDE DEF v
  <2>1. parts' = [p \in DOMAIN parts \cup {q} |-> IF p = q THEN v ELSE parts[p]]
    BY DEF v
  <2> QED BY <2>1
<1>6. Referenced' = u \cup keep
  <2>1. \A p \in others : IdsOf(parts'[p].chunks) = IdsOf(parts[p].chunks)
    BY <1>5
  <2>2. IdsOf(parts'[q].chunks) = u
    BY <1>2, <1>5
  <2>3. UNION {IdsOf(parts'[p].chunks) : p \in others \cup {q}} = u \cup rest
    <3> HIDE DEF others, u
    <3> QED BY <2>1, <2>2 DEF PartIds
  <2> QED BY <1>5, <2>3 DEF Referenced
<1>7. \A p \in others : IdsOf(parts[p].chunks) \subseteq keep
  BY DEF PartIds
<1>8. o \subseteq keep
  OBVIOUS
<1>16. Delete(old)
  OBVIOUS
<1>17. u = IdsOf(up.chunks) /\ o = IdsOf(object.chunks)
  OBVIOUS
<1>18. others \subseteq DOMAIN parts /\ q \notin others
  OBVIOUS
<1> HIDE DEF old, u, keep, o, rest, v, others
<1>9. PICK gone \in SUBSET old : /\ DOMAIN messages' = DOMAIN messages \ gone
                                 /\ lost' = lost \cup (old \ gone)
  BY <1>16, Deleted
<1>10. /\ AllBytes(messages')
       /\ \A kept : kept \cap old = {} => Preserves(messages, messages', kept)
  BY <1>16, Deleted
<1>11. /\ DOMAIN messages' = u \cup keep \cup lost'
       /\ (u \cup keep) \cap lost' = {}
       /\ (u \cup keep) \cap old = {}
  <2> DEFINE D == DOMAIN messages
             x == old \ gone
  <2>1. /\ D = old \cup keep \cup lost \cup u
        /\ (old \cup keep) \cap lost = {}
        /\ u \cap (old \cup keep \cup lost) = {}
        /\ old \cap keep = {}
    BY <1>2, <1>3, <1>4, Zenon
  <2> HIDE DEF D
  <2>2. /\ D \ gone = u \cup keep \cup (lost \cup x)
        /\ (u \cup keep) \cap (lost \cup x) = {}
        /\ (u \cup keep) \cap old = {}
    BY ONLY <2>1, gone \in SUBSET old
  <2> HIDE DEF x
  <2> QED BY <1>9, <2>2, Zenon DEF D, x
<1>12. Types' /\ Uploading' /\ Purpose' /\ Own(up', sent') = {}
  BY <1>10, IdleAfter
<1>13. Apart'
  <2>1. IdsOf(parts'[q].chunks) = u
    BY <1>2, <1>5, <1>17
  <2>2. u \cap keep = {}
    BY <1>2, <1>3, <1>4
  <2>3. \A p \in others : u \cap IdsOf(parts[p].chunks) = {}
    BY <1>7, <2>2
  <2>4. u \cap o = {}
    BY <1>8, <2>2
  <2>5. \A p \in DOMAIN parts' : o \cap IdsOf(parts'[p].chunks) = {}
    <3>1. \A p \in others : o \cap IdsOf(parts[p].chunks) = {}
      BY <1>3, <1>17, <1>18 DEF Apart
    <3> QED BY <1>5, <2>1, <2>4, <3>1
  <2>6. ASSUME NEW p \in DOMAIN parts', NEW r \in DOMAIN parts', p # r
        PROVE  IdsOf(parts'[p].chunks) \cap IdsOf(parts'[r].chunks) = {}
    <3>1. CASE p = q
      <4>1. r \in others
        BY <1>5, <2>6, <3>1
      <4> QED BY <1>5, <2>1, <2>3, <3>1, <4>1
    <3>2. CASE r = q
      <4>1. p \in others
        BY <1>5, <2>6, <3>2
      <4> QED BY <1>5, <2>1, <2>3, <3>2, <4>1
    <3>3. CASE p # q /\ r # q
      <4>1. p \in others /\ r \in others
        BY <1>5, <3>3
      <4>2. IdsOf(parts[p].chunks) \cap IdsOf(parts[r].chunks) = {}
        BY <1>3, <1>18, <2>6, <4>1 DEF Apart
      <4> QED BY <1>5, <4>1, <4>2
    <3> QED BY <3>1, <3>2, <3>3
  <2>7. object' = object
    OBVIOUS
  <2> QED BY <1>17, <2>5, <2>6, <2>7 DEF Apart
<1>14. Ownership'
  <2>1. DOMAIN messages' \subseteq 1..sent'
    BY <1>3, <1>9
  <2>2. DOMAIN messages' = (Referenced \cup lost \cup Own(up, sent))'
    BY <1>6, <1>11, <1>12
  <2>3. (Referenced \cap lost)' = {}
    BY <1>6, <1>11
  <2>4. (Own(up, sent) \cap (Referenced \cup lost))' = {}
    BY <1>12
  <2> QED BY <1>13, <2>1, <2>2, <2>3, <2>4 DEF Ownership
<1>15. Stock'
  <2>1. Preserves(messages, messages', u) /\ Preserves(messages, messages', keep)
    <3>1. u \cap old = {} /\ keep \cap old = {}
      BY <1>11
    <3> QED BY <1>10, <3>1
  <2>2. Stands(messages', object)
    <3>1. Stands(messages, object)
      BY DEF Inv, Stock
    <3>2. Preserves(messages, messages', IdsOf(object.chunks))
      BY <1>8, <1>17, <2>1, PreservesLess
    <3> QED BY <3>1, <3>2, StandsElsewhere
  <2>3. ASSUME NEW w, PartStands(messages, w), Preserves(messages, messages', IdsOf(w.chunks))
        PROVE  PartStands(messages', w)
    BY <2>3, StandsElsewhere DEF PartStands
  <2>4. ASSUME NEW p \in others
        PROVE  PartStands(messages', parts[p])
    <3>1. PartStands(messages, parts[p])
      BY <1>18 DEF Inv, Stock
    <3>2. Preserves(messages, messages', IdsOf(parts[p].chunks))
      BY <1>7, <2>1, PreservesLess
    <3> QED BY <2>3, <3>1, <3>2
  <2>5. PartStands(messages', v)
    BY <1>2, <1>17, <2>1, <2>3
  <2>6. DOMAIN parts' \subseteq PartNumbers
    BY <1>5, <1>18 DEF Inv, Stock
  <2>7. \A p \in DOMAIN parts' : PartStands(messages', parts'[p])
    BY <1>5, <2>4, <2>5
  <2> QED BY <2>2, <2>6, <2>7 DEF Stock
<1>19. Held'
  BY DEF Inv, Held
<1> QED BY <1>12, <1>14, <1>15, <1>19 DEF Inv

\* finish.
LEMMA finishStep ==
  ASSUME Inv, BytesAssumption, finish
  PROVE  Inv'
<1>1. up.pc = "stored" /\ Idle /\ UNCHANGED <<sent, held>>
  BY DEF finish
<1>2. CASE purpose.part = 0
  <2>1. PICK t \in Times : object' = Stored(t)
    BY <1>2, Zenon DEF finish
  <2>2. Delete(IdsOf(object.chunks)) /\ UNCHANGED parts
    BY <1>2, Zenon DEF finish
  <2> QED BY <1>1, <2>1, <2>2, ObjectFinished
<1>3. CASE purpose.part # 0
  <2> DEFINE q == purpose.part
  <2>1. /\ parts' = [p \in DOMAIN parts \cup {q} |-> IF p = q THEN Stored(0) ELSE parts[p]]
        /\ Delete(IF q \in DOMAIN parts THEN IdsOf(parts[q].chunks) ELSE {})
        /\ UNCHANGED object
    BY <1>3, Zenon DEF finish
  <2>2. q \in PartNumbers
    <3>1. purpose \in [part : PartNumbers \cup {0}, body : Seq(Byte)]
      BY DEF Inv, Purpose
    <3> QED BY <1>3, <3>1
  <2> HIDE DEF q
  <2> QED BY <1>1, <2>1, <2>2, PartFinished
<1> QED BY <1>2, <1>3

----------------------------------------------------------------------------
(* completeMultipartUpload                                                 *)

\* The chunk maps, the bodies and the digests of the parts on a list.
MapsOf(list) == [i \in DOMAIN list |-> parts[list[i]].chunks]

BodiesOf(list) == [i \in DOMAIN list |-> parts[list[i]].body]

DigestsOf(list) == [i \in DOMAIN list |-> parts[list[i]].etag.md5[1]]

\* The version that is put together.
Finalized(list, t) ==
  [chunks |-> Placed(FlattenSeq(MapsOf(list))), size |-> SizeOf(Placed(FlattenSeq(MapsOf(list)))),
   etag |-> [parts |-> Len(list), md5 |-> DigestsOf(list)], updated |-> t,
   body |-> FlattenSeq(BodiesOf(list))]

\* What the parts on a list are.
LEMMA ListedParts ==
  ASSUME Inv, NEW list \in Seq(DOMAIN parts)
  PROVE  /\ MapsOf(list) \in Seq(Seq(Chunks)) /\ Len(MapsOf(list)) = Len(list)
         /\ BodiesOf(list) \in Seq(Seq(Byte)) /\ Len(BodiesOf(list)) = Len(list)
         /\ DigestsOf(list) = BodiesOf(list)
         /\ HoldEach(messages, MapsOf(list), BodiesOf(list))
         /\ \A i \in 1..Len(list) : MapsOf(list)[i] = parts[list[i]].chunks
<1> DEFINE n == Len(list)
<1>1. n \in Nat /\ DOMAIN list = 1..n /\ \A i \in 1..n : list[i] \in DOMAIN parts
  OBVIOUS
<1>2. ASSUME NEW i \in 1..n
      PROVE  /\ parts[list[i]].chunks \in Seq(Chunks)
             /\ parts[list[i]].body \in Seq(Byte)
             /\ parts[list[i]].etag.md5[1] = parts[list[i]].body
             /\ Holds(messages, parts[list[i]].chunks, parts[list[i]].body)
  <2> DEFINE v == parts[list[i]]
  <2>1. PartStands(messages, v)
    BY <1>1 DEF Inv, Stock
  <2> HIDE DEF v
  <2>2. v \in Versions /\ LaidOut(messages, v.chunks, v.body) /\ v.etag = MD5(v.body)
    BY <2>1 DEF PartStands, Stands
  <2>3. v.chunks \in Seq(Chunks) /\ v.body \in Seq(Byte)
    BY <2>2 DEF Versions
  <2>4. v.etag.md5[1] = v.body
    BY <2>2 DEF MD5
  <2>5. Holds(messages, v.chunks, v.body)
    BY <2>2 DEF LaidOut
  <2> QED BY <2>3, <2>4, <2>5 DEF v
<1>3. /\ MapsOf(list) = [i \in 1..n |-> parts[list[i]].chunks]
      /\ BodiesOf(list) = [i \in 1..n |-> parts[list[i]].body]
      /\ DigestsOf(list) = [i \in 1..n |-> parts[list[i]].etag.md5[1]]
  BY <1>1 DEF MapsOf, BodiesOf, DigestsOf
<1> HIDE DEF n
<1>4. MapsOf(list) \in Seq(Seq(Chunks)) /\ Len(MapsOf(list)) = n
  BY <1>1, <1>2, <1>3
<1>5. BodiesOf(list) \in Seq(Seq(Byte)) /\ Len(BodiesOf(list)) = n
  BY <1>1, <1>2, <1>3
<1>6. DigestsOf(list) = BodiesOf(list)
  BY <1>2, <1>3
<1>7. \A i \in 1..n : MapsOf(list)[i] = parts[list[i]].chunks /\ BodiesOf(list)[i] = parts[list[i]].body
  BY <1>3
<1>8. HoldEach(messages, MapsOf(list), BodiesOf(list))
  BY <1>2, <1>4, <1>7 DEF HoldEach
<1> QED BY <1>4, <1>5, <1>6, <1>7, <1>8 DEF n

\* What is put together of them stands for their bodies, one after the other.
LEMMA FinalizedStands ==
  ASSUME Inv, NEW list \in Seq(DOMAIN parts), list # <<>>, NEW t \in Nat
  PROVE  /\ Stands(messages, Finalized(list, t))
         /\ IdsOf(Finalized(list, t).chunks) = PartIds(Range(list))
<1> DEFINE ms == MapsOf(list)
           bs == BodiesOf(list)
           rows == FlattenSeq(ms)
           b == FlattenSeq(bs)
           k == Placed(rows)
           e == [parts |-> Len(list), md5 |-> bs]
           v == Finalized(list, t)
<1>1. /\ ms \in Seq(Seq(Chunks)) /\ Len(ms) = Len(list)
      /\ bs \in Seq(Seq(Byte)) /\ Len(bs) = Len(list)
      /\ DigestsOf(list) = bs
      /\ HoldEach(messages, ms, bs)
      /\ \A i \in 1..Len(list) : ms[i] = parts[list[i]].chunks
  BY ListedParts
<1>2. Len(list) \in Nat /\ Len(list) # 0 /\ DOMAIN list = 1..Len(list)
  BY EmptySeq
<1> HIDE DEF ms, bs
<1>3. Holds(messages, rows, b)
  BY <1>1, HoldsList
<1>4. rows \in Seq(Chunks) /\ b \in Seq(Byte)
  BY <1>1, FlattenAppend
<1>5. IdsOf(rows) = PartIds(Range(list))
  <2>1. IdsOf(rows) = UNION {IdsOf(ms[i]) : i \in 1..Len(ms)}
    BY <1>1, IdsList
  <2>2. Range(list) = {list[i] : i \in 1..Len(list)}
    BY <1>2 DEF Range
  <2>3. \A i \in 1..Len(ms) : IdsOf(ms[i]) = IdsOf(parts[list[i]].chunks)
    BY <1>1
  <2>4. Len(ms) = Len(list)
    BY <1>1
  <2> HIDE DEF rows
  <2>5. \A x : x \in IdsOf(rows) <=> \E i \in 1..Len(list) : x \in IdsOf(parts[list[i]].chunks)
    BY ONLY <2>1, <2>3, <2>4
  <2>6. \A x : x \in PartIds(Range(list)) <=> \E i \in 1..Len(list) : x \in IdsOf(parts[list[i]].chunks)
    BY ONLY <2>2 DEF PartIds
  <2> QED BY ONLY <2>5, <2>6
<1> HIDE DEF rows, b
<1>6. /\ LaidOut(messages, k, b)
      /\ IdsOf(k) = IdsOf(rows)
      /\ SizeOf(k) = Len(b)
  BY <1>3, PlacedHolds
<1>7. k \in Seq(Chunks)
  BY <1>4, PlacedRows
<1>8. v = [chunks |-> k, size |-> SizeOf(k), etag |-> e, updated |-> t, body |-> b]
  BY <1>1 DEF Finalized, ms, bs, rows, b
<1> HIDE DEF k
<1>9. e \in ETags /\ e.parts = Len(list) /\ e.md5 = bs
  BY <1>1, <1>2 DEF ETags
<1> HIDE DEF e, v
<1>10. v.chunks = k /\ v.size = Len(b) /\ v.etag = e /\ v.updated = t /\ v.body = b
  BY <1>6, <1>8
<1>11. v \in Versions
  BY <1>4, <1>6, <1>7, <1>8, <1>9 DEF Versions
<1>12. Names(v.etag, v.body)
  BY <1>2, <1>4, <1>9, <1>10 DEF Names, b
<1>13. Stands(messages, v)
  BY <1>6, <1>10, <1>11, <1>12 DEF Stands
<1> QED BY <1>5, <1>6, <1>10, <1>13 DEF v

\* completeMultipartUpload, step by step.
LEMMA CompleteParts ==
  ASSUME BytesAssumption, Inv, completeMultipartUpload
  PROVE  /\ up.pc = "idle" /\ parts' = <<>> /\ UNCHANGED <<up, cancelled, sent, purpose, held>>
         /\ \E list \in Seq(DOMAIN parts), t \in Nat, gone \in SUBSET IdsOf(object.chunks) :
              /\ list # <<>>
              /\ object' = Finalized(list, t)
              /\ messages' = [m \in DOMAIN messages \ gone |-> messages[m]]
              /\ lost' = lost \cup (IdsOf(object.chunks) \ gone)
                           \cup PartIds(DOMAIN parts \ Range(list))
<1>1. up.pc = "idle" /\ parts' = <<>> /\ UNCHANGED <<up, cancelled, sent, purpose, held>>
  BY Zenon DEF completeMultipartUpload
<1>2. PICK list \in BoundedSeq(DOMAIN parts, MaxUploads), t \in Times,
           gone \in {IdsOf(object.chunks)} \cup (IF Flaky THEN {{}} ELSE {}) :
        /\ list # <<>>
        /\ object' = [chunks |-> Concatenated(list), size |-> SizeOf(Concatenated(list)),
                      etag |-> [parts |-> Len(list),
                                md5 |-> [i \in DOMAIN list |-> parts[list[i]].etag.md5[1]]],
                      updated |-> t,
                      body |-> FlattenSeq([i \in DOMAIN list |-> parts[list[i]].body])]
        /\ messages' = [m \in DOMAIN messages \ gone |-> messages[m]]
        /\ lost' = lost \cup (IdsOf(object.chunks) \ gone)
                     \cup UNION {IdsOf(parts[p].chunks) : p \in DOMAIN parts \ Range(list)}
  BY Zenon DEF completeMultipartUpload
<1>3. list \in Seq(DOMAIN parts)
  <2>1. PICK m \in 0..MaxUploads : list \in [1..m -> DOMAIN parts]
    BY DEF BoundedSeq, SeqOf
  <2>2. m \in Nat
    BY DEF BytesAssumption
  <2> QED BY <2>1, <2>2
<1>4. t \in Nat
  <2>1. object.updated \in Nat /\ MaxSeconds \in Nat
    BY DEF Inv, Stock, Stands, Versions, BytesAssumption
  <2> QED BY <2>1 DEF Times
<1>5. gone \in SUBSET IdsOf(object.chunks)
  BY Zenon
<1>6. Concatenated(list) = Placed(FlattenSeq(MapsOf(list)))
  BY Zenon DEF Concatenated, Placed, MapsOf
<1>7. object' = Finalized(list, t)
  BY <1>2, <1>6, Zenon DEF Finalized, BodiesOf, DigestsOf
<1>8. lost' = lost \cup (IdsOf(object.chunks) \ gone) \cup PartIds(DOMAIN parts \ Range(list))
  BY <1>2, Zenon DEF PartIds
<1> QED BY <1>1, <1>2, <1>3, <1>4, <1>5, <1>7, <1>8, Zenon

\* completeMultipartUpload: the object's messages are those of the listed parts.
LEMMA completeStep ==
  ASSUME BytesAssumption, Inv, completeMultipartUpload
  PROVE  Inv'
<1> DEFINE old == IdsOf(object.chunks)
<1>1. up.pc = "idle" /\ parts' = <<>> /\ UNCHANGED <<up, cancelled, sent, purpose, held>>
  BY CompleteParts
<1>2. PICK list \in Seq(DOMAIN parts), t \in Nat, gone \in SUBSET old :
              /\ list # <<>>
              /\ object' = Finalized(list, t)
              /\ messages' = [m \in DOMAIN messages \ gone |-> messages[m]]
              /\ lost' = lost \cup (old \ gone) \cup PartIds(DOMAIN parts \ Range(list))
  BY CompleteParts
<1> DEFINE u == PartIds(Range(list))
           rest == PartIds(DOMAIN parts \ Range(list))
<1>3. Stands(messages, object') /\ IdsOf(object'.chunks) = u
  BY <1>2, FinalizedStands
<1>4. /\ DOMAIN messages \subseteq 1..sent
      /\ DOMAIN messages = Referenced \cup lost \cup Own(up, sent)
      /\ Referenced \cap lost = {}
      /\ Apart
  BY Division
<1>5. Own(up, sent) = {}
  BY <1>1 DEF Own, Live
<1>6. Referenced = old \cup u \cup rest /\ old \cap u = {} /\ old \cap rest = {} /\ u \cap rest = {}
  <2> DEFINE ps == Range(list)
             qs == DOMAIN parts \ ps
  <2>1. ps \in SUBSET DOMAIN parts
    <3>1. \A i \in DOMAIN list : list[i] \in DOMAIN parts
      OBVIOUS
    <3> QED BY <3>1 DEF Range
  <2>2. qs \in SUBSET DOMAIN parts /\ ps \cap qs = {} /\ qs \cap ps = {} /\ ps \cup qs = DOMAIN parts
    BY <2>1
  <2>3. Referenced = old \cup PartIds(DOMAIN parts)
    BY DEF Referenced, PartIds
  <2> HIDE DEF ps, qs
  <2>4. old \cap PartIds(ps) = {} /\ PartIds(ps) \cap PartIds(qs) = {}
          /\ PartIds(ps \cup qs) = PartIds(ps) \cup PartIds(qs)
    BY <1>4, <2>1, <2>2, PartsApart
  <2>5. old \cap PartIds(qs) = {}
    BY <1>4, <2>1, <2>2, PartsApart
  <2> HIDE DEF old
  <2> QED BY <2>2, <2>3, <2>4, <2>5 DEF ps, qs
<1>7. DOMAIN parts' = {}
  BY <1>1
<1>8. Referenced' = u
  BY <1>3, <1>7 DEF Referenced
<1>9. DOMAIN messages' = DOMAIN messages \ gone /\ \A m \in DOMAIN messages \ gone : messages'[m] = messages[m]
  BY <1>2
<1> HIDE DEF old, u, rest
<1>10. Types' /\ Uploading' /\ Purpose' /\ Held'
  <2>1. AllBytes(messages')
    BY <1>9 DEF Inv, Types, AllBytes
  <2>2. up' = up /\ cancelled' = cancelled /\ sent' = sent /\ purpose' = purpose /\ held' = held
    BY <1>1
  <2>3. Recording(messages', up') /\ Verifying(messages', up', sent')
    BY <1>1, <2>2 DEF Recording, Verifying, Live
  <2> QED BY <1>1, <2>1, <2>2, <2>3 DEF Inv, Types, Uploading, Purpose, Held
<1>11. Own(up', sent') = {}
  BY <1>1, <1>5
<1>12. Ownership'
  <2>1. DOMAIN messages' \subseteq 1..sent'
    BY <1>1, <1>4, <1>9
  <2>2. DOMAIN messages = old \cup u \cup rest \cup lost /\ (old \cup u \cup rest) \cap lost = {}
    BY <1>4, <1>5, <1>6
  <2>3. lost' = lost \cup (old \ gone) \cup rest
    BY <1>2 DEF rest
  <2>4. DOMAIN messages' = u \cup lost'
    BY <1>6, <1>9, <2>2, <2>3
  <2>5. u \cap lost' = {}
    BY <1>6, <2>2, <2>3
  <2>6. Apart'
    BY <1>7 DEF Apart
  <2> QED BY <1>8, <1>11, <2>1, <2>4, <2>5, <2>6 DEF Ownership
<1>13. Stock'
  <2> DEFINE v == object'
  <2>1. Preserves(messages, messages', u)
    BY <1>6, <1>9 DEF Preserves
  <2>2. Stands(messages, v) /\ Preserves(messages, messages', IdsOf(v.chunks))
    BY <1>3, <2>1
  <2> HIDE DEF v
  <2>3. Stands(messages', v)
    BY <2>2, StandsElsewhere
  <2> QED BY <1>7, <2>3 DEF Stock, v
<1> QED BY <1>10, <1>12, <1>13 DEF Inv

----------------------------------------------------------------------------
(* Downloads                                                               *)

\* A beginning of a sequence is one of its parts.
LEMMA PrefixPart ==
  ASSUME NEW s \in Seq(Byte), NEW t \in Seq(Byte)
  PROVE  IsPrefix(s, t) <=> Len(s) <= Len(t) /\ s = Part(t, 0, Len(s))
<1> DEFINE n == Len(s)
<1>1. SubSeq(s, 1, n) = s
  BY Beginning
<1>2. SubSeq(t, 1, n) = Part(t, 0, n)
  <2>1. 0 + 1 = 1
    OBVIOUS
  <2> HIDE DEF n
  <2> QED BY <2>1, Zenon DEF Part
<1> HIDE DEF n
<1> QED BY <1>1, <1>2 DEF IsPrefix, n

\* An ETag stands for one body.
LEMMA OneBody ==
  ASSUME NEW e, NEW b, NEW c, Names(e, b), Names(e, c)
  PROVE  b = c
<1>1. CASE e.parts = 0
  <2>1. MD5(b) = MD5(c)
    BY <1>1 DEF Names
  <2>2. MD5(b).md5[1] = b /\ MD5(c).md5[1] = c
    BY DEF MD5
  <2> QED BY <2>1, <2>2
<1>2. CASE e.parts # 0
  BY <1>2 DEF Names
<1> QED BY <1>1, <1>2

\* An answer without a range.
LEMMA WholeAnswer ==
  ASSUME NEW obj, NEW body, Readable(obj, body), RangeAssumption, NEW q, conditionalStatus(q.cond, obj) = 0,
         ~ifRangeAllows(q.ifRange, obj) \/ q.range = NoHeader
  PROVE  Answer(obj, q) = [status |-> 200, start |-> 0, length |-> Len(body), bytes |-> body]
<1>1. parseByteRange(NoHeader, obj.size) = NoRange
  BY DEF NoHeader, parseByteRange
<1>2. Answer(obj, q) = Serve(obj, 0, NoRange)
  BY <1>1, Zenon DEF Answer
<1> QED BY <1>2, ServeBytes

\* No condition holds.
LEMMA Unconditional ==
  ASSUME NEW obj
  PROVE  conditionalStatus(NoConditions, obj) = 0
<1>1. /\ NoConditions.ifMatch = {}
      /\ NoConditions.unmodifiedSince = 0
      /\ NoConditions.ifNoneMatch = {}
      /\ NoConditions.modifiedSince = 0
  BY DEF NoConditions
<1> QED BY <1>1 DEF conditionalStatus

\* What Inv says of the object and of what the client holds.
LEMMA Versioned ==
  ASSUME Inv
  PROVE  /\ Readable(View, object.body) /\ object.body \in Seq(Byte) /\ Len(object.body) \in Nat
         /\ object.etag \in ETags /\ object.updated \in Nat /\ Names(object.etag, object.body)
         /\ held.bytes \in Seq(Byte) /\ held.body \in Seq(Byte) /\ Len(held.bytes) \in Nat
         /\ Names(held.etag, held.body) /\ IsPrefix(held.bytes, held.body)
<1>1. object \in Versions /\ Names(object.etag, object.body)
  BY DEF Inv, Stock, Stands
<1>2. held \in [bytes : Seq(Byte), etag : ETags, updated : Nat, body : Seq(Byte), current : Seq(Byte)]
  BY DEF Inv, Held
<1>3. Names(held.etag, held.body) /\ IsPrefix(held.bytes, held.body)
  BY DEF Inv, Held
<1> QED BY <1>1, <1>2, <1>3, ObjectReadable DEF Versions

\* A download changes what the client holds.
LEMMA HeldStep ==
  ASSUME Inv, UNCHANGED <<upVars, object, parts, purpose>>, Held'
  PROVE  Inv'
<1>1. up' = up /\ cancelled' = cancelled /\ messages' = messages /\ sent' = sent /\ lost' = lost
        /\ object' = object /\ parts' = parts /\ purpose' = purpose
  BY DEF upVars
<1>2. Types' /\ Uploading' /\ Stock' /\ Purpose'
  BY <1>1 DEF Inv, Types, Uploading, Stock, Purpose
<1>3. Ownership'
  <2>1. Own(up', sent') = Own(up, sent)
    BY <1>1
  <2> QED BY <1>1, <2>1, Division, OwnershipStep
<1> QED BY <1>2, <1>3 DEF Inv

\* It holds the beginning of the object.
LEMMA KeepsStep ==
  ASSUME Inv, NEW bytes \in Seq(Byte), IsPrefix(bytes, object.body), Keeps(bytes),
         UNCHANGED <<upVars, object, parts, purpose>>
  PROVE  Inv'
<1> DEFINE h == held'
<1>1. h = [bytes |-> bytes, etag |-> object.etag, updated |-> object.updated,
           body |-> object.body, current |-> object.body]
  BY DEF Keeps
<1>2. object.body \in Seq(Byte) /\ object.etag \in ETags /\ object.updated \in Nat
         /\ Names(object.etag, object.body)
  BY Versioned
<1> HIDE DEF h
<1>3. /\ h \in [bytes : Seq(Byte), etag : ETags, updated : Nat, body : Seq(Byte), current : Seq(Byte)]
      /\ Names(h.etag, h.body)
      /\ IsPrefix(h.bytes, h.body)
      /\ IsPrefix(h.bytes, h.current)
  BY <1>1, <1>2
<1>4. Held'
  BY <1>3 DEF Held, h
<1> QED BY <1>4, HeldStep

\* A whole is its own beginning.
LEMMA WholeKept ==
  ASSUME Inv, NEW bytes, bytes = object.body, Keeps(bytes), UNCHANGED <<upVars, object, parts, purpose>>
  PROVE  Inv'
<1>1. bytes \in Seq(Byte)
  BY Versioned
<1>2. IsPrefix(bytes, object.body)
  BY <1>1 DEF IsPrefix
<1> QED BY <1>1, <1>2, KeepsStep

\* get: a beginning of the object.
LEMMA getStep ==
  ASSUME Inv, RangeAssumption, get
  PROVE  Inv'
<1> DEFINE b == object.body
           a == Answer(View, PlainGet)
<1>1. Readable(View, b) /\ b \in Seq(Byte) /\ Len(b) \in Nat
  BY Versioned
<1>2. PlainGet.cond = NoConditions /\ PlainGet.range = NoHeader
  BY DEF PlainGet
<1>3. conditionalStatus(PlainGet.cond, View) = 0
  BY <1>2, Unconditional
<1>4. a.bytes = b
  <2>1. a = [status |-> 200, start |-> 0, length |-> Len(b), bytes |-> b]
    BY <1>1, <1>2, <1>3, WholeAnswer
  <2> HIDE DEF a, b
  <2> QED BY <2>1
<1>5. UNCHANGED <<upVars, object, parts, purpose>>
  BY DEF get
<1>6. PICK n \in 1..Len(a.bytes) : Keeps(SubSeq(a.bytes, 1, n))
  BY Zenon DEF get
<1> HIDE DEF a
<1>7. n \in 0..Len(b) /\ n \in Nat /\ n <= Len(b)
  BY <1>1, <1>4
<1> DEFINE p == SubSeq(b, 1, n)
<1>8. p \in Seq(Byte) /\ Len(p) = n
  BY <1>1, <1>7, Beginning
<1>9. Keeps(p)
  BY <1>4, <1>6
<1>10. p = Part(b, 0, n)
  <2>1. 0 + 1 = 1
    OBVIOUS
  <2> QED BY <2>1, Zenon DEF Part
<1> HIDE DEF p, b
<1>11. IsPrefix(p, b)
  BY <1>1, <1>7, <1>8, <1>10, PrefixPart
<1> QED BY <1>5, <1>8, <1>9, <1>11, KeepsStep DEF b

\* The headers of resume.
ResumeHeaders ==
  [PlainGet EXCEPT !.ifRange = [kind |-> "etag", etag |-> held.etag, date |-> 0],
                   !.range = [NoHeader EXCEPT !.kind = "from", !.first = Len(held.bytes)]]

\* Headers that ask for the rest after n bytes, if the ETag is e.
Resumes(q, e, n) ==
  /\ q.cond = NoConditions
  /\ q.ifRange.kind = "etag" /\ q.ifRange.etag = e
  /\ q.range.kind = "from" /\ q.range.first = n

\* That is what resume asks for.
LEMMA ResumeAsks == Resumes(ResumeHeaders, held.etag, Len(held.bytes))
<1> DEFINE i == [kind |-> "etag", etag |-> held.etag, date |-> 0]
           r == [NoHeader EXCEPT !.kind = "from", !.first = Len(held.bytes)]
           q == [PlainGet EXCEPT !.ifRange = i, !.range = r]
<1>1. i.kind = "etag" /\ i.etag = held.etag
  OBVIOUS
<1>2. r.kind = "from" /\ r.first = Len(held.bytes)
  BY DEF NoHeader
<1> HIDE DEF i, r
<1>3. q.cond = NoConditions /\ q.ifRange = i /\ q.range = r
  BY DEF PlainGet
<1>4. ResumeHeaders = q
  BY Zenon DEF ResumeHeaders, i, r
<1> HIDE DEF q
<1> QED BY <1>1, <1>2, <1>3, <1>4 DEF Resumes

\* The rest of what the client holds, if its ETag is the object's.
LEMMA RestAnswer ==
  ASSUME NEW obj, NEW body, Readable(obj, body), RangeAssumption, NEW e, NEW n \in Nat, NEW q,
         Resumes(q, e, n), Answer(obj, q).status = 206
  PROVE  /\ e = obj.etag
         /\ n <= Len(body)
         /\ Answer(obj, q).bytes = Part(body, n, Len(body))
<1> DEFINE l == Len(body)
           r == parseByteRange(q.range, obj.size)
           a == Answer(obj, q)
<1>1. obj.size = l /\ l \in Nat
  BY DEF Readable, IsMap
<1>2. q.cond = NoConditions /\ q.ifRange.kind = "etag" /\ q.ifRange.etag = e
        /\ q.range.kind = "from" /\ q.range.first = n
  BY DEF Resumes
<1>3. conditionalStatus(q.cond, obj) = 0
  BY <1>2, Unconditional
<1>4. ifRangeAllows(q.ifRange, obj) <=> e = obj.etag
  BY <1>2 DEF ifRangeAllows
<1>5. e = obj.etag
  <2> SUFFICES ASSUME e # obj.etag
               PROVE  FALSE
    OBVIOUS
  <2>1. a = [status |-> 200, start |-> 0, length |-> l, bytes |-> body]
    BY <1>3, <1>4, WholeAnswer
  <2>2. a.status = 206
    OBVIOUS
  <2> HIDE DEF a
  <2> QED BY <2>1, <2>2
<1>6. a = Serve(obj, 0, r)
  BY <1>3, <1>4, <1>5, Zenon DEF Answer
<1>7. r = IF n >= l THEN Unsatisfiable ELSE Satisfiable(n, l - 1)
  BY <1>1, <1>2 DEF parseByteRange
<1>8. a.status = 206
  OBVIOUS
<1> HIDE DEF a, r, l
<1>9. ~(n >= l)
  <2> SUFFICES ASSUME n >= l
               PROVE  FALSE
    OBVIOUS
  <2>1. a = Refused(416)
    BY <1>6, <1>7, ServeBytes
  <2> QED BY <1>8, <2>1 DEF Refused
<1>10. n < l /\ n <= l /\ l <= Len(body)
  BY <1>1, <1>9 DEF l
<1>11. r = Satisfiable(n, l - 1)
  BY <1>7, <1>9
<1>12. Serve(obj, 0, Satisfiable(n, l - 1))
         = [status |-> 206, start |-> n, length |-> l - n, bytes |-> Part(body, n, l)]
  BY <1>1, <1>10, ServeBytes
<1>13. a.bytes = Part(body, n, l)
  BY <1>6, <1>11, <1>12
<1> QED BY <1>5, <1>10, <1>13 DEF a, l

\* resume: the rest of the same body, or another from its beginning.
LEMMA resumeStep ==
  ASSUME Inv, RangeAssumption, resume
  PROVE  Inv'
<1> DEFINE b == object.body
           n == Len(held.bytes)
           e == held.etag
           q == ResumeHeaders
           a == Answer(View, q)
<1>1. /\ Readable(View, b) /\ b \in Seq(Byte) /\ Len(b) \in Nat
      /\ Names(object.etag, b)
      /\ held.bytes \in Seq(Byte) /\ held.body \in Seq(Byte) /\ n \in Nat
      /\ Names(e, held.body) /\ IsPrefix(held.bytes, held.body)
  BY Versioned
<1>2. Resumes(q, e, n)
  BY ResumeAsks
<1>3. /\ (a.status = 206 /\ Keeps(held.bytes \o a.bytes)) \/ (a.status = 200 /\ Keeps(a.bytes))
      /\ UNCHANGED <<upVars, object, parts, purpose>>
  <2>1. (a.status = 206 /\ Keeps(held.bytes \o a.bytes)) \/ (a.status = 200 /\ Keeps(a.bytes))
    BY Zenon DEF resume, ResumeHeaders
  <2>2. UNCHANGED <<upVars, object, parts, purpose>>
    BY DEF resume
  <2> QED BY <2>1, <2>2
<1>4. CASE a.status = 206 /\ Keeps(held.bytes \o a.bytes)
  <2>1. a.status = 206
    BY <1>4
  <2> HIDE DEF q, n, e, b
  <2>2. Readable(View, b) /\ n \in Nat
    BY <1>1
  <2>3. e = View.etag /\ n <= Len(b) /\ a.bytes = Part(b, n, Len(b))
    BY <1>2, <2>1, <2>2, RestAnswer
  <2>4. e = object.etag
    BY <2>3 DEF View
  <2>5. held.body = b
    BY <1>1, <2>4, OneBody
  <2>6. held.bytes = Part(b, 0, n)
    BY <1>1, <2>5, PrefixPart DEF n
  <2>7. Part(b, 0, n) \o Part(b, n, Len(b)) = b
    <3> DEFINE l == Len(b)
    <3>1. 0 \in Nat /\ 0 <= n /\ n <= l /\ l \in Nat /\ l <= Len(b)
      BY <1>1, <2>3
    <3>2. Part(b, 0, l) = b
      BY <1>1, PartFull
    <3> HIDE DEF l
    <3>3. Part(b, 0, n) \o Part(b, n, l) = Part(b, 0, l)
      BY <1>1, <3>1, PartJoin
    <3> QED BY <3>2, <3>3 DEF l
  <2> DEFINE all == held.bytes \o a.bytes
  <2>8. all = b
    BY <2>3, <2>6, <2>7, Zenon
  <2>9. Keeps(all)
    BY <1>4
  <2> HIDE DEF all
  <2> QED BY <1>3, <2>8, <2>9, WholeKept DEF b
<1>5. CASE a.status = 200 /\ Keeps(a.bytes)
  <2>1. q.cond = NoConditions /\ q.range.kind = "from" /\ q.range.first = n
    BY <1>2 DEF Resumes
  <2>2. conditionalStatus(q.cond, View) = 0
    BY <2>1, Unconditional
  <2>3. CASE ~ifRangeAllows(q.ifRange, View)
    <3>1. a = [status |-> 200, start |-> 0, length |-> Len(b), bytes |-> b]
      BY <1>1, <2>2, <2>3, WholeAnswer
    <3>2. a.bytes = b /\ Keeps(a.bytes)
      <4>1. Keeps(a.bytes)
        BY <1>5
      <4> HIDE DEF a
      <4> QED BY <3>1, <4>1
    <3> HIDE DEF a
    <3> DEFINE all == a.bytes
    <3>3. all = object.body /\ Keeps(all)
      BY <3>2
    <3> HIDE DEF all
    <3> QED BY <1>3, <3>3, WholeKept
  <2>4. CASE ifRangeAllows(q.ifRange, View)
    <3> DEFINE r == parseByteRange(q.range, View.size)
    <3>1. a = Serve(View, 0, r)
      BY <2>2, <2>4, Zenon DEF Answer
    <3>2. a.status = 200
      BY <1>5
    <3>3. View.size = Len(b)
      BY <1>1 DEF Readable
    <3>4. r = IF n >= Len(b) THEN Unsatisfiable ELSE Satisfiable(n, Len(b) - 1)
      BY <2>1, <3>3 DEF parseByteRange
    <3> HIDE DEF a, r, q, n
    <3>5. CASE n >= Len(b)
      <4>1. a = Refused(416)
        BY <1>1, <3>1, <3>4, <3>5, ServeBytes
      <4> QED BY <3>2, <4>1 DEF Refused
    <3>6. CASE ~(n >= Len(b))
      <4> DEFINE l == Len(b)
      <4>1. n \in Nat /\ l \in Nat /\ n < l /\ l <= Len(b)
        BY <1>1, <3>6 DEF n
      <4> HIDE DEF l
      <4>2. Serve(View, 0, Satisfiable(n, l - 1))
              = [status |-> 206, start |-> n, length |-> l - n, bytes |-> Part(b, n, l)]
        BY <1>1, <4>1, ServeBytes
      <4>3. a.status = 206
        BY <3>1, <3>4, <3>6, <4>2 DEF l
      <4> QED BY <3>2, <4>3
    <3> QED BY <3>5, <3>6
  <2> QED BY <2>3, <2>4
<1> QED BY <1>3, <1>4, <1>5

\* The conditions of revalidate.
Current == [NoConditions EXCEPT !.ifNoneMatch = {held.etag}, !.modifiedSince = held.updated]

\* Its headers.
CurrentHeaders == [PlainGet EXCEPT !.cond = Current]

\* They ask for the whole unless the ETag is the one held.
LEMMA CurrentAsks ==
  /\ CurrentHeaders.cond = Current
  /\ CurrentHeaders.range = NoHeader
  /\ Current.ifMatch = {} /\ Current.unmodifiedSince = 0 /\ Current.ifNoneMatch = {held.etag}
<1>1. Current.ifMatch = {} /\ Current.unmodifiedSince = 0 /\ Current.ifNoneMatch = {held.etag}
  BY DEF Current, NoConditions
<1>2. CurrentHeaders.cond = Current /\ CurrentHeaders.range = NoHeader
  BY DEF CurrentHeaders, PlainGet
<1> QED BY <1>1, <1>2

\* revalidate: a 304 is given for the body its ETag stands for.
LEMMA revalidateStep ==
  ASSUME Inv, RangeAssumption, revalidate
  PROVE  Inv'
<1> DEFINE b == object.body
           c == Current
           q == CurrentHeaders
           a == Answer(View, q)
<1>1. /\ Readable(View, b) /\ b \in Seq(Byte) /\ Len(b) \in Nat
      /\ Names(object.etag, b)
      /\ held.bytes \in Seq(Byte)
      /\ Names(held.etag, held.body) /\ IsPrefix(held.bytes, held.body)
  BY Versioned
<1>3. /\ (a.status = 304 /\ held' = [held EXCEPT !.current = object.body]) \/ (a.status = 200 /\ Keeps(a.bytes))
      /\ UNCHANGED <<upVars, object, parts, purpose>>
  <2>1. (a.status = 304 /\ held' = [held EXCEPT !.current = object.body]) \/ (a.status = 200 /\ Keeps(a.bytes))
    BY Zenon DEF revalidate, CurrentHeaders, Current
  <2>2. UNCHANGED <<upVars, object, parts, purpose>>
    BY DEF revalidate
  <2> QED BY <2>1, <2>2
<1>4. c.ifMatch = {} /\ c.unmodifiedSince = 0 /\ c.ifNoneMatch = {held.etag} /\ q.cond = c
         /\ q.range = NoHeader /\ View.etag = object.etag
  BY CurrentAsks DEF View
<1> HIDE DEF c
<1>5. conditionalStatus(c, View) = IF object.etag = held.etag THEN 304 ELSE 0
  <2>1. etagMatches(c.ifNoneMatch, View.etag) <=> object.etag = held.etag
    BY <1>4 DEF etagMatches
  <2>2. c.ifNoneMatch # {}
    BY <1>4
  <2> QED BY <1>4, <2>1, <2>2 DEF conditionalStatus
<1>6. CASE object.etag = held.etag
  <2>1. a = Refused(304)
    <3> DEFINE r == IF ifRangeAllows(q.ifRange, View) THEN parseByteRange(q.range, View.size) ELSE NoRange
    <3>1. a = Serve(View, conditionalStatus(q.cond, View), r)
      BY Zenon DEF Answer
    <3>2. conditionalStatus(q.cond, View) = 304
      BY <1>4, <1>5, <1>6
    <3> HIDE DEF r, q, a
    <3>3. a = Serve(View, 304, r)
      BY <3>1, <3>2, Zenon
    <3>4. Serve(View, 304, r) = Refused(304)
      BY DEF Serve
    <3> QED BY <3>3, <3>4
  <2>2. a.status = 304
    <3> HIDE DEF a
    <3> QED BY <2>1 DEF Refused
  <2>3. held' = [held EXCEPT !.current = b]
    <3> HIDE DEF a
    <3> QED BY <1>3, <2>2
  <2>4. held.body = b
    BY <1>1, <1>6, OneBody
  <2>5. held \in [bytes : Seq(Byte), etag : ETags, updated : Nat, body : Seq(Byte), current : Seq(Byte)]
    BY DEF Inv, Held
  <2> DEFINE h == held'
  <2> HIDE DEF h, b
  <2>6. /\ h \in [bytes : Seq(Byte), etag : ETags, updated : Nat, body : Seq(Byte), current : Seq(Byte)]
        /\ h.bytes = held.bytes /\ h.etag = held.etag /\ h.body = held.body /\ h.current = b
    BY <1>1, <2>3, <2>5 DEF h
  <2>7. Held'
    BY <1>1, <2>4, <2>6 DEF Held, h
  <2> QED BY <1>3, <2>7, HeldStep
<1>7. CASE object.etag # held.etag
  <2>1. conditionalStatus(q.cond, View) = 0
    BY <1>4, <1>5, <1>7
  <2>2. a = [status |-> 200, start |-> 0, length |-> Len(b), bytes |-> b]
    BY <1>1, <1>4, <2>1, WholeAnswer
  <2> HIDE DEF a
  <2>3. Keeps(a.bytes) /\ a.bytes = b
    BY <1>3, <2>2
  <2> DEFINE all == a.bytes
  <2>4. all = object.body /\ Keeps(all)
    BY <2>3
  <2> HIDE DEF all
  <2> QED BY <1>3, <2>4, WholeKept
<1> QED BY <1>6, <1>7

----------------------------------------------------------------------------
(* The invariant                                                           *)

\* The first object stands for its body.
LEMMA FirstStands ==
  ASSUME UploadAssumption, BytesAssumption, Init
  PROVE  /\ Stands(messages, object)
         /\ IdsOf(object.chunks) = {1}
<1> DEFINE b == FirstBody
           l == Len(b)
           r == [id |-> 1, offset |-> 0, size |-> l]
           k == <<r>>
           m == <<b>>
<1>1. b \in Seq(Byte) /\ l \in Nat \ {0}
  BY DEF BytesAssumption, Byte
<1>2. messages = m /\ object = [chunks |-> k, size |-> l, etag |-> MD5(b), updated |-> 1, body |-> b]
  BY DEF Init
<1>3. 1 \in DOMAIN m /\ m[1] = b
  OBVIOUS
<1> HIDE DEF b
<1>4. r \in Chunks /\ r.id = 1 /\ r.offset = 0 /\ r.size = l
  BY <1>1 DEF Chunks
<1> HIDE DEF r, m
<1>5. Holds(m, <<>>, <<>>) /\ InOrder(<<>>)
  BY HoldsNothing DEF LaidOut
<1>6. Holds(m, Append(<<>>, r), <<>> \o b)
  BY <1>1, <1>3, <1>4, <1>5, HoldsMore
<1>7. InOrder(Append(<<>>, r))
  <2>1. r.offset = SizeOf(<<>>) /\ <<>> \in Seq(Chunks)
    BY <1>4, SizeEmpty
  <2> QED BY <1>4, <1>5, <2>1, InOrderMore
<1>8. Append(<<>>, r) = k /\ <<>> \o b = b
  BY <1>1
<1> HIDE DEF k
<1>9. LaidOut(m, k, b)
  BY <1>6, <1>7, <1>8 DEF LaidOut
<1>10. k \in Seq(Chunks)
  BY <1>4 DEF k
<1>11. IdsOf(k) = {1}
  BY <1>4 DEF IdsOf, k
<1>12. MD5(b) \in ETags /\ MD5(b).parts = 0
  BY <1>1 DEF MD5, ETags
<1> DEFINE v == object
<1>13. v.chunks = k /\ v.size = l /\ v.etag = MD5(b) /\ v.updated = 1 /\ v.body = b
  BY <1>2
<1>14. v \in Versions
  BY <1>1, <1>2, <1>10, <1>12 DEF Versions
<1>15. Names(v.etag, v.body)
  BY <1>1, <1>12, <1>13 DEF Names
<1>16. Stands(messages, v)
  BY <1>2, <1>9, <1>13, <1>14, <1>15 DEF Stands
<1> QED BY <1>11, <1>13, <1>16

\* The invariant holds at the beginning.
LEMMA InvInit ==
  ASSUME UploadAssumption, BytesAssumption, Init
  PROVE  Inv
<1>1. Stands(messages, object) /\ IdsOf(object.chunks) = {1}
  BY FirstStands
<1>2. /\ up = NoUpload /\ cancelled = FALSE /\ messages = <<FirstBody>> /\ sent = 1 /\ lost = {}
      /\ parts = <<>> /\ purpose = NoPurpose /\ held = Nothing
  BY DEF Init
<1>3. DOMAIN parts = {} /\ DOMAIN messages = {1} /\ messages[1] = FirstBody
  BY <1>2
<1>4. up.pc = "idle" /\ up.chunks = <<>> /\ up.pc \notin Live
  BY <1>2 DEF NoUpload, Live
<1>5. Types
  <2>1. <<>> \in Seq(Rows(1)) /\ FALSE \in BOOLEAN /\ 1 \in Nat
    OBVIOUS
  <2>2. NoUpload \in Ups
    <3>1. "idle" \in Live \cup {"idle", "failed"} /\ 1 \in Nat /\ 0 \in Nat /\ -1 \in Int
      OBVIOUS
    <3>2. <<>> \in Seq(Seq(Byte)) /\ <<>> \in Seq(Byte) /\ <<>> \in Seq(Chunks)
      OBVIOUS
    <3> QED BY <3>1, <3>2 DEF Ups, NoUpload
  <2>3. AllBytes(messages)
    <3>1. FirstBody \in Seq(Byte)
      BY DEF BytesAssumption, Byte
    <3> QED BY <1>3, <3>1 DEF AllBytes
  <2> QED BY <1>2, <1>4, <2>1, <2>2, <2>3 DEF Types
<1>6. Uploading
  BY <1>2, <1>4 DEF Uploading, Progress, Recording, Verifying
<1>7. Ownership
  <2>1. Referenced = {1}
    BY <1>1, <1>3 DEF Referenced
  <2>2. Own(up, sent) = {}
    BY <1>4 DEF Own
  <2>3. Apart
    BY <1>3 DEF Apart
  <2>4. {1} \subseteq 1..1
    OBVIOUS
  <2> QED BY <1>2, <1>3, <2>1, <2>2, <2>3, <2>4 DEF Ownership
<1>8. Stock
  BY <1>1, <1>3 DEF Stock
<1>9. Purpose
  BY <1>2, <1>4 DEF Purpose, NoPurpose
<1>10. Held
  <2> DEFINE e == MD5(<<>>)
  <2>1. <<>> \in Seq(Byte)
    OBVIOUS
  <2>2. e \in ETags /\ e.parts = 0
    BY <2>1 DEF MD5, ETags
  <2>3. Names(e, <<>>)
    BY <2>1, <2>2 DEF Names
  <2>4. IsPrefix(<<>>, <<>>)
    BY DEF IsPrefix
  <2>5. held = [bytes |-> <<>>, etag |-> e, updated |-> 0, body |-> <<>>, current |-> <<>>]
    BY <1>2 DEF Nothing
  <2> HIDE DEF e
  <2> QED BY <2>1, <2>2, <2>3, <2>4, <2>5 DEF Held
<1> QED BY <1>5, <1>6, <1>7, <1>8, <1>9, <1>10 DEF Inv

\* Every step preserves it.
LEMMA InvNext ==
  ASSUME UploadAssumption, RangeAssumption, BytesAssumption, Inv, [Next]_allVars
  PROVE  Inv'
<1>1. CASE putObject \/ uploadPart
  BY <1>1, ClientBegins
<1>2. CASE copyObject
  BY <1>2, CopyObjectBegins
<1>3. CASE uploadPartCopy
  BY <1>3, CopyPartBegins
<1>4. CASE finish
  BY <1>4, finishStep
<1>5. CASE giveUp
  BY <1>5, giveUpStep
<1>6. CASE completeMultipartUpload
  BY <1>6, completeStep
<1>7. CASE (UploadStep \/ Cancel) /\ UNCHANGED bytesVars
  BY <1>7, UploadSteps
<1>8. CASE get
  BY <1>8, getStep
<1>9. CASE resume
  BY <1>9, resumeStep
<1>10. CASE revalidate
  BY <1>10, revalidateStep
<1>11. CASE UNCHANGED allVars
  <2>1. UNCHANGED <<upVars, object, parts, purpose>> /\ held' = held
    BY <1>11 DEF allVars, bytesVars
  <2>2. Held'
    BY <2>1 DEF Inv, Held
  <2> QED BY <2>1, <2>2, HeldStep
<1> QED
  BY <1>1, <1>2, <1>3, <1>4, <1>5, <1>6, <1>7, <1>8, <1>9, <1>10, <1>11, Zenon DEF Next

\* Whatever fails and whenever clients leave, the documents of an upload are the
\* bytes read so far, no message has two owners, and what is stored, under its
\* ETag, is the body it was meant to be.
THEOREM Invariant == Spec => []Inv
<1>1. Init => Inv
  BY InvInit, UploadAssumption, BytesAssumption
<1>2. Inv /\ [Next]_allVars => Inv'
  BY InvNext, UploadAssumption, RangeAssumption, BytesAssumption
<1> QED BY <1>1, <1>2, PTL DEF Spec

----------------------------------------------------------------------------
(* What it says                                                            *)

\* The upload's fields have their types: nothing is read past the body, no
\* document exceeds the chunk size and every chunk recorded was sent.
THEOREM UploadTypeCorrect == Spec => []UploadTypeOK
<1>1. Inv => UploadTypeOK
  <2> SUFFICES ASSUME Inv
               PROVE  UploadTypeOK
    OBVIOUS
  <2>1. /\ up \in Ups /\ cancelled \in BOOLEAN /\ up.chunks \in Seq(Rows(sent))
    BY DEF Inv, Types
  <2>2. /\ up.pc \in Live \cup {"idle", "failed"} /\ up.rerr \in BOOLEAN
        /\ up.pos \in Nat /\ up.rem \in Nat /\ up.data \in Seq(Byte) /\ up.buf \in Seq(Byte)
        /\ up.kind \in {"plain", "chunked", "copy"} /\ up.frames \in Seq(Seq(Byte)) /\ up.declared \in Int
    BY <2>1, UpTypes
  <2>3. up.pos + up.rem <= Len(up.data) /\ Len(up.buf) <= UploadChunkSize
    <3>1. CASE up.pc # "idle"
      BY <3>1 DEF Inv, Uploading, Decoding
    <3>2. CASE up.pc = "idle"
      <4>1. up = NoUpload
        BY <3>2 DEF Inv, Uploading
      <4>2. up.pos = 0 /\ up.rem = 0 /\ up.data = <<>> /\ up.buf = <<>>
        BY <4>1 DEF NoUpload
      <4> QED BY <4>2, UploadAssumption
    <3> QED BY <3>1, <3>2
  <2>4. up.pos \in 0..Len(up.data) /\ up.rem \in 0..Len(up.data) - up.pos
    <3> DEFINE x == up.pos
               y == up.rem
               l == Len(up.data)
    <3>1. x \in Nat /\ y \in Nat /\ l \in Nat /\ x + y <= l
      BY <2>2, <2>3
    <3> HIDE DEF x, y, l
    <3>2. x \in 0..l /\ y \in 0..l - x
      BY <3>1
    <3> QED BY <3>2 DEF x, y, l
  <2>5. up.pc # "idle" => IsSource(up)
    BY <2>2 DEF Inv, Uploading, Decoding, IsSource, Byte
  <2>6. DOMAIN messages \subseteq 1..sent /\ lost \subseteq DOMAIN messages
    BY DEF Inv, Ownership
  <2> QED BY <2>1, <2>2, <2>3, <2>4, <2>5, <2>6 DEF UploadTypeOK, Rows, Live
<1> QED BY <1>1, Invariant, PTL

\* Between requests the channel holds what the rows name and what failed calls
\* have left, and nothing else: for any number and size of bodies.
THEOREM FailureIsClean == Spec => []CleanFailure
<1>1. Inv => CleanFailure
  <2> SUFFICES ASSUME Inv, up.pc = "idle"
               PROVE  DOMAIN messages = Referenced \cup lost /\ Referenced \cap lost = {}
    BY DEF CleanFailure
  <2>1. Own(up, sent) = {}
    BY DEF Own, Live
  <2> QED BY <2>1, Division
<1> QED BY <1>1, Invariant, PTL

\* Every GET of a range is answered with the bytes the header names of the body
\* the client meant, for every chunk size, window and read unit.
THEOREM GetServesTheBody == Spec => []RoundTrip
<1>1. Inv => RoundTrip
  <2> SUFFICES ASSUME Inv, NEW h \in Ranges
               PROVE  Answer(View, [PlainGet EXCEPT !.range = h]) = Expected(object.body, h)
    BY DEF RoundTrip
  <2>1. IsHeader(h)
    BY BytesAssumption DEF BytesAssumption
  <2>2. Readable(View, object.body)
    BY ObjectReadable
  <2> QED BY <2>1, <2>2, AnswerExpected, RangeAssumption
<1> QED BY <1>1, Invariant, PTL

\* A resumed download is the beginning of one version.
THEOREM ResumesOneVersion == Spec => []ResumeNeverMixes
<1>1. Inv => ResumeNeverMixes
  BY DEF Inv, Held, ResumeNeverMixes
<1> QED BY <1>1, Invariant, PTL

\* A client that is told 304 holds bytes of the current version.
THEOREM NotModifiedIsTrue == Spec => []CacheNeverStale
<1>1. Inv => CacheNeverStale
  BY DEF Inv, Held, CacheNeverStale
<1> QED BY <1>1, Invariant, PTL

----------------------------------------------------------------------------
(* Upload implements its contract                                          *)

\* A quotient is known by the multiples around the dividend.
LEMMA Quotient ==
  ASSUME NEW n \in Nat, NEW c \in Nat \ {0}, NEW r \in 0..c - 1
  PROVE  (n * c + r) \div c = n
<1> DEFINE x == n * c
           a == x + r
           q == a \div c
           m == a % c
<1>1. x \in Nat
  OBVIOUS
<1>2. a \in Nat
  <2> HIDE DEF x
  <2> QED BY <1>1
<1>3. a = c * q + m /\ m \in 0..c - 1 /\ q \in Nat
  <2> HIDE DEF a
  <2> QED BY <1>2
<1> HIDE DEF q, m
<1>4. n * c + r = c * q + m
  BY <1>3
<1>5. q = n
  <2>1. CASE q < n
    <3> DEFINE d == n - q
               y == c * q
               z == (d - 1) * c
    <3>1. d - 1 \in Nat /\ n = q + d
      BY <1>3, <2>1
    <3>2. n * c = c * q + (d - 1) * c + c
      BY <1>3, <3>1
    <3>3. z \in Nat /\ y \in Nat
      BY <1>3, <3>1
    <3>4. x = y + z + c /\ x + r = y + m
      BY <1>4, <3>2
    <3> HIDE DEF x, y, z
    <3> QED BY <1>1, <1>3, <3>3, <3>4
  <2>2. CASE q > n
    <3> DEFINE d == q - n
               y == c * q
               z == (d - 1) * c
    <3>1. d - 1 \in Nat /\ q = n + d
      BY <1>3, <2>2
    <3>2. c * q = n * c + (d - 1) * c + c
      BY <1>3, <3>1
    <3>3. z \in Nat /\ y \in Nat
      BY <1>3, <3>1
    <3>4. y = x + z + c /\ x + r = y + m
      BY <1>4, <3>2
    <3> HIDE DEF x, y, z
    <3> QED BY <1>1, <1>3, <3>3, <3>4
  <2> QED BY <1>3, <2>1, <2>2
<1> QED BY <1>5 DEF q

\* Regular documents are as many as the body has pieces.
LEMMA PiecesAre ==
  ASSUME UploadAssumption, NEW rows \in Seq(Chunks), NEW body \in Seq(Byte), InOrder(rows), Regular(rows),
         SizeOf(rows) = Len(body)
  PROVE  Contract!Pieces(Len(body)) = Len(rows)
<1> DEFINE c == UploadChunkSize
           n == Len(rows)
           l == Len(body)
<1>1. c \in Nat \ {0} /\ n \in Nat /\ l \in Nat
  BY DEF UploadAssumption
<1>2. Contract!Pieces(l) = (l + c - 1) \div c
  BY DEF Contract!Pieces
<1>3. CASE n = 0
  <2>1. rows = <<>>
    BY <1>3, EmptySeq
  <2>2. l = 0
    BY <2>1, SizeEmpty
  <2>3. l + c - 1 = 0 * c + (c - 1) /\ c - 1 \in 0..c - 1 /\ 0 \in Nat
    BY <1>1, <2>2
  <2>4. (0 * c + (c - 1)) \div c = 0
    <3> DEFINE r == c - 1
    <3>1. r \in 0..c - 1
      BY <2>3
    <3> HIDE DEF r
    <3>2. (0 * c + r) \div c = 0
      BY <1>1, <3>1, Quotient
    <3> QED BY <3>2 DEF r
  <2> HIDE DEF l, c, n
  <2> QED BY <1>2, <1>3, <2>3, <2>4 DEF l, n
<1>4. CASE n # 0
  <2> DEFINE k == n - 1
             s == rows[n].size
             r == s - 1
             x == k * c
  <2>1. k \in Nat /\ k + 1 = n /\ n \in 1..n
    BY <1>1, <1>4
  <2>2. s \in Nat \ {0}
    BY <2>1, SizesType
  <2>3. s <= c /\ rows[n].offset = x
    BY <2>1 DEF Regular
  <2>4. rows[n].offset = Before(rows, n)
    BY <2>1 DEF InOrder
  <2>5. Before(rows, n + 1) = Before(rows, n) + s /\ Before(rows, n + 1) = l
    BY <2>1, BeforeSteps
  <2>6. l = x + s
    BY <2>3, <2>4, <2>5
  <2>7. n * c = x + c /\ x \in Nat
    <3>1. (k + 1) * c = k * c + c /\ k * c \in Nat
      BY <1>1, <2>1, Multiples
    <3> QED BY <2>1, <3>1
  <2> DEFINE y == n * c
  <2>8. y = x + c
    BY <2>7
  <2> HIDE DEF x, y, s, l, c
  <2>9. l + c - 1 = y + r /\ r \in 0..c - 1
    BY <1>1, <2>2, <2>3, <2>6, <2>7, <2>8
  <2> HIDE DEF r
  <2>10. (n * c + r) \div c = n
    BY <1>1, <2>9, Quotient
  <2>11. (y + r) \div c = n
    BY <2>10 DEF y
  <2> QED BY <1>2, <2>9, <2>11 DEF l, n
<1> QED BY <1>3, <1>4

\* The lesser of two numbers, for the contract.
LEMMA LesserOf ==
  ASSUME NEW a \in Int, NEW b \in Int
  PROVE  Contract!Min({a, b}) = IF a <= b THEN a ELSE b
<1>1. CASE a <= b
  <2>1. \A y \in {a, b} : a <= y
    BY <1>1
  <2>2. \A x \in {a, b} : (\A y \in {a, b} : x <= y) => x = a
    BY <1>1
  <2> QED BY <1>1, <2>1, <2>2 DEF Contract!Min
<1>2. CASE ~(a <= b)
  <2>1. \A y \in {a, b} : b <= y
    BY <1>2
  <2>2. \A x \in {a, b} : (\A y \in {a, b} : x <= y) => x = b
    BY <1>2
  <2> QED BY <1>2, <2>1, <2>2 DEF Contract!Min
<1> QED BY <1>1, <1>2

\* A regular chunk map that lays out a body is the body cut into documents.
LEMMA CutRows ==
  ASSUME UploadAssumption, NEW m, NEW rows, NEW b, LaidOut(m, rows, b), Regular(rows)
  PROVE  DataOf(m, rows) = Contract!Cut(b)
<1> DEFINE c == UploadChunkSize
           n == Len(rows)
           l == Len(b)
<1>1. /\ rows \in Seq(Chunks) /\ b \in Seq(Byte) /\ SizeOf(rows) = l /\ InOrder(rows)
      /\ \A i \in 1..n : m[rows[i].id] = Part(b, Before(rows, i), Before(rows, i) + rows[i].size)
  BY DEF LaidOut, Holds
<1>2. c \in Nat \ {0} /\ n \in Nat /\ l \in Nat /\ DOMAIN rows = 1..n
  BY <1>1 DEF UploadAssumption
<1>3. Contract!Pieces(l) = n
  BY <1>1, PiecesAre
<1>4. ASSUME NEW i \in 1..n
      PROVE  [offset |-> rows[i].offset, size |-> rows[i].size, data |-> m[rows[i].id]]
               = LET lo == (i - 1) * c
                     hi == Contract!Min({lo + c, l})
                 IN  [offset |-> lo, size |-> hi - lo, data |-> SubSeq(b, lo + 1, hi)]
  <2> DEFINE lo == (i - 1) * c
             s == rows[i].size
             h == lo + s
             hi == Contract!Min({lo + c, l})
  <2>1. rows[i].offset = lo /\ s <= c /\ (i < n => s = c)
    BY DEF Regular
  <2>2. Before(rows, i) = lo
    BY <1>1, <2>1 DEF InOrder
  <2>3. s \in Nat
    BY <1>1, SizesType
  <2>4. lo \in Nat
    <3>1. i - 1 \in Nat
      OBVIOUS
    <3> HIDE DEF c
    <3> QED BY <1>2, <3>1
  <2>5. Before(rows, i + 1) = h /\ Before(rows, n + 1) = l
    BY <1>1, <2>2, BeforeSteps
  <2>6. i = n => h = l
    BY <2>5
  <2>7. i < n => h <= l
    <3>1. LaidOut(m, rows, b)
      OBVIOUS
    <3> SUFFICES ASSUME i < n
                 PROVE  h <= l
      OBVIOUS
    <3> DEFINE j == i + 1
               k == n + 1
    <3>2. j \in 1..n + 1 /\ k \in 1..n + 1 /\ j <= k
      BY <1>2
    <3>3. Before(rows, j) <= Before(rows, k)
      <4> HIDE DEF j, k
      <4> QED BY <1>1, <3>2, BeforeGrows
    <3> QED BY <2>5, <3>3
  <2> HIDE DEF lo, s, l, c
  <2>8. hi = h
    <3> DEFINE p == lo + c
    <3>1. p \in Int /\ l \in Int
      BY <1>2, <2>4
    <3>2. s = c \/ h = l
      <4>1. i < n \/ i = n
        <5> HIDE DEF n
        <5> QED BY <1>2
      <4> QED BY <2>1, <2>6, <4>1, Zenon
    <3>6. s <= c /\ h <= l
      <4>1. i < n \/ i = n
        <5> HIDE DEF n
        <5> QED BY <1>2
      <4>2. h = l => h <= l
        BY <1>2
      <4> HIDE DEF h
      <4> QED BY <2>1, <2>6, <2>7, <4>1, <4>2, Zenon
    <3>3. IF p <= l THEN p = h ELSE l = h
      BY ONLY <1>2, <2>3, <2>4, <3>2, <3>6
    <3> HIDE DEF p, h
    <3>4. Contract!Min({p, l}) = IF p <= l THEN p ELSE l
      BY <3>1, LesserOf
    <3>5. Contract!Min({p, l}) = h
      BY <3>3, <3>4
    <3> QED BY <3>5 DEF p
  <2>9. h - lo = s
    BY <2>3, <2>4
  <2>10. m[rows[i].id] = SubSeq(b, lo + 1, h)
    <3>1. m[rows[i].id] = Part(b, lo, lo + rows[i].size)
      BY <1>1, <2>2, Zenon
    <3> QED BY <3>1, Zenon DEF Part, s
  <2> HIDE DEF h, hi
  <2>11. [offset |-> rows[i].offset, size |-> rows[i].size, data |-> m[rows[i].id]]
           = [offset |-> lo, size |-> hi - lo, data |-> SubSeq(b, lo + 1, hi)]
    BY <2>1, <2>8, <2>9, <2>10, Zenon DEF s
  <2> QED BY <2>11, Zenon DEF lo, hi
<1> QED BY <1>2, <1>3, <1>4 DEF DataOf, Contract!Cut

\* The contract's view of an upload.
Phase(u) ==
  CASE u.pc = "idle" -> "none"
    [] u.pc \in {"stored", "failed"} -> u.pc
    [] OTHER -> "running"

RowsOf(m, u) == IF u.pc = "stored" THEN DataOf(m, u.chunks) ELSE <<>>

\* A step of the contract, by what it changes of that view.
LEMMA ContractSteps ==
  ASSUME \/ /\ Phase(up') = Phase(up) /\ up'.data = up.data
            /\ RowsOf(messages', up') = RowsOf(messages, up)
         \/ /\ Phase(up) = "none" /\ Phase(up') = "running" /\ up'.data \in Seq(Nat)
            /\ RowsOf(messages', up') = <<>>
         \/ /\ Phase(up) = "running" /\ Phase(up') = "stored" /\ up'.data = up.data
            /\ RowsOf(messages', up') = Contract!Cut(up.data)
         \/ /\ Phase(up) = "running" /\ Phase(up') = "failed" /\ up'.data = up.data
            /\ RowsOf(messages', up') = RowsOf(messages, up)
         \/ /\ Phase(up) \in {"stored", "failed"} /\ Phase(up') = "none" /\ up'.data = <<>>
            /\ RowsOf(messages', up') = <<>>
  PROVE  [Contract!Next]_(Contract!vars)
<1> DEFINE s1 == Phase(up)
           s2 == Phase(up')
           r1 == RowsOf(messages, up)
           r2 == RowsOf(messages', up')
<1>1. CASE s2 = s1 /\ up'.data = up.data /\ r2 = r1
  <2>1. UNCHANGED Contract!vars
    BY <1>1, Zenon DEF Contract!vars, Phase, RowsOf, DataOf, WithData
  <2> QED BY <2>1
<1>2. CASE s1 = "none" /\ s2 = "running" /\ up'.data \in Seq(Nat) /\ r2 = <<>>
  <2>1. Contract!Begin
    BY <1>2, Zenon DEF Contract!Begin, Phase, RowsOf, DataOf, WithData
  <2> QED BY <2>1 DEF Contract!Next
<1>3. CASE s1 = "running" /\ s2 = "stored" /\ up'.data = up.data /\ r2 = Contract!Cut(up.data)
  <2>1. Contract!Store
    BY <1>3, Zenon DEF Contract!Store, Phase, RowsOf, DataOf, WithData
  <2> QED BY <2>1 DEF Contract!Next
<1>4. CASE s1 = "running" /\ s2 = "failed" /\ up'.data = up.data /\ r2 = r1
  <2>1. Contract!Fail
    BY <1>4, Zenon DEF Contract!Fail, Phase, RowsOf, DataOf, WithData
  <2> QED BY <2>1 DEF Contract!Next
<1>5. CASE s1 \in {"stored", "failed"} /\ s2 = "none" /\ up'.data = <<>> /\ r2 = <<>>
  <2>1. Contract!Forget
    BY <1>5, Zenon DEF Contract!Forget, Phase, RowsOf, DataOf, WithData
  <2> QED BY <2>1 DEF Contract!Next
<1> QED BY <1>1, <1>2, <1>3, <1>4, <1>5

\* Where the steps of an upload lead.
LEMMA UploadGoesOn ==
  ASSUME Inv, UploadStep \/ Cancel
  PROVE  /\ up'.data = up.data
         /\ up.pc \in Live /\ up.pc # "stored"
         /\ up'.pc \in Live \cup {"failed"}
<1>1. up \in Ups
  BY DEF Inv, Types
<1>2. up.pc \in Live \cup {"idle", "failed"}
  BY <1>1, UpTypes
<1>3. CASE readChunkSize
  BY <1>1, <1>3 DEF readChunkSize, Ups, Live
<1>4. CASE readByte
  <2>1. up.pc = "read"
    BY <1>4 DEF readByte
  <2> DEFINE b == Append(up.buf, up.data[up.pos + 1])
  <2>2. PICK bad \in BOOLEAN :
          up' = [up EXCEPT !.pc = IF bad \/ Len(b) = UploadChunkSize THEN "send" ELSE "read",
                           !.rem = @ - 1, !.pos = @ + 1, !.buf = b, !.rerr = bad]
    BY <1>4, Zenon DEF readByte
  <2> DEFINE p == IF bad \/ Len(b) = UploadChunkSize THEN "send" ELSE "read"
             x == up.rem - 1
             y == up.pos + 1
  <2>3. up' = [up EXCEPT !.pc = p, !.rem = x, !.pos = y, !.buf = b, !.rerr = bad]
    BY <2>2
  <2>4. p \in {"send", "read"}
    OBVIOUS
  <2> HIDE DEF p, x, y, b
  <2>5. up'.pc = p /\ up'.data = up.data
    BY <1>1, <2>3 DEF Ups
  <2> QED BY <2>1, <2>4, <2>5 DEF Live
<1>5. CASE readEOF
  BY <1>1, <1>5 DEF readEOF, Ups, Live
<1>6. CASE readError
  BY <1>1, <1>6 DEF readError, Ups, Live
<1>7. CASE uploadChunk
  <2>1. up.pc = "send" /\ \E p \in {"verify", "cleanup"} : up' = [up EXCEPT !.pc = p]
    BY <1>7, Zenon DEF uploadChunk
  <2> QED BY <1>1, <2>1 DEF Ups, Live
<1>8. CASE verifyUploadedSize
  <2>1. up.pc = "verify" /\ (ChunkDone \/ up' = [up EXCEPT !.pc = "cleanup"])
    BY <1>8, Zenon DEF verifyUploadedSize
  <2>2. CASE ChunkDone
    <3> DEFINE p == NextPosition
               k == Append(up.chunks, NewRow)
    <3>1. up' = [up EXCEPT !.pc = p, !.buf = <<>>, !.chunks = k]
      BY <2>2, Zenon DEF ChunkDone, NextPosition, NewRow
    <3>2. p \in {"cleanup", "validate", "read"}
      BY DEF NextPosition
    <3> HIDE DEF p, k
    <3>3. up'.pc = p /\ up'.data = up.data
      BY <1>1, <3>1 DEF Ups
    <3> QED BY <2>1, <3>2, <3>3 DEF Live
  <2>3. CASE up' = [up EXCEPT !.pc = "cleanup"]
    BY <1>1, <2>1, <2>3 DEF Ups, Live
  <2> QED BY <2>1, <2>2, <2>3
<1>9. CASE cleanup
  BY <1>1, <1>9 DEF cleanup, Ups, Live
<1>10. CASE validateDecodedSize
  BY <1>1, <1>10 DEF validateDecodedSize, Ups, Live
<1>11. CASE commitChunks
  <2>1. up.pc = "commit" /\ \E p \in {"stored", "discard"} : up' = [up EXCEPT !.pc = p]
    BY <1>11, Zenon DEF commitChunks
  <2> QED BY <1>1, <2>1 DEF Ups, Live
<1>12. CASE deleteChunks
  BY <1>1, <1>12 DEF deleteChunks, Ups, Live
<1>13. CASE Cancel
  BY <1>2, <1>13 DEF Cancel, Live
<1> QED BY <1>3, <1>4, <1>5, <1>6, <1>7, <1>8, <1>9, <1>10, <1>11, <1>12, <1>13, Zenon DEF UploadStep

\* The rows of a body that has been stored.
LEMMA StoredRows ==
  ASSUME UploadAssumption, NEW m, NEW u, u.pc = "stored", u \in Ups, Progress(u, FALSE), Recording(m, u)
  PROVE  RowsOf(m, u) = Contract!Cut(u.data)
<1> DEFINE d == u.data
<1>1. d \in Seq(Byte) /\ Len(d) \in Nat /\ u.pc \in Live
  BY UpTypes DEF Live
<1>2. u.pos = Len(d) /\ u.buf = <<>>
  BY DEF Progress
<1>3. Recorded(u) = Len(d)
  <2>1. Recorded(u) = Len(d) - Len(<<>>) /\ Len(<<>>) = 0
    BY <1>2 DEF Recorded
  <2> HIDE DEF d
  <2> QED BY <1>1, <2>1
<1>4. LaidOut(m, u.chunks, d) /\ Regular(u.chunks)
  <2>1. LaidOut(m, u.chunks, Part(d, 0, Len(d))) /\ Regular(u.chunks)
    BY <1>1, <1>3 DEF Recording
  <2>2. Part(d, 0, Len(d)) = d
    BY <1>1, PartFull
  <2> QED BY <2>1, <2>2
<1>5. DataOf(m, u.chunks) = Contract!Cut(d)
  BY <1>4, CutRows
<1> QED BY <1>5 DEF RowsOf

\* Every step is a step of the contract.
LEMMA ContractNext ==
  ASSUME UploadAssumption, Inv, Inv', [Next]_allVars
  PROVE  [Contract!Next]_(Contract!vars)
<1>1. up \in Ups /\ up' \in Ups
  BY DEF Inv, Types
<1>2. CASE putObject \/ uploadPart \/ copyObject \/ uploadPartCopy
  <2>1. up.pc = "idle" /\ up'.pc = "read"
    <3>1. \E s : beginUpload(s)
      BY <1>2, Zenon DEF putObject, uploadPart, copyObject, uploadPartCopy, begin
    <3>2. PICK s : beginUpload(s)
      BY <3>1
    <3>3. up' = NewUpload(s.kind, s.frames, s.declared)
      BY <3>2, Zenon DEF beginUpload, NewUpload
    <3>4. NewUpload(s.kind, s.frames, s.declared).pc = "read"
      BY DEF NewUpload, NoUpload
    <3> QED BY <3>2, <3>3, <3>4 DEF beginUpload
  <2>2. up'.data \in Seq(Nat)
    BY <1>1, UpTypes DEF Ups, Byte
  <2>3. Phase(up) = "none" /\ Phase(up') = "running" /\ RowsOf(messages', up') = <<>>
    BY <2>1 DEF Phase, RowsOf
  <2> QED BY <2>2, <2>3, ContractSteps
<1>3. CASE finish \/ giveUp
  <2>1. up.pc \in {"stored", "failed"} /\ up' = NoUpload
    BY <1>3 DEF finish, giveUp, Idle
  <2>2. up'.pc = "idle" /\ up'.data = <<>>
    BY <2>1 DEF NoUpload
  <2>3. Phase(up) \in {"stored", "failed"} /\ Phase(up') = "none" /\ RowsOf(messages', up') = <<>>
    BY <2>1, <2>2 DEF Phase, RowsOf
  <2> QED BY <2>2, <2>3, ContractSteps
<1>4. CASE completeMultipartUpload \/ get \/ resume \/ revalidate \/ UNCHANGED allVars
  <2>1. up' = up
    <3>1. completeMultipartUpload => UNCHANGED <<up, cancelled, sent, purpose, count, held>>
      BY Zenon DEF completeMultipartUpload
    <3>2. get \/ resume \/ revalidate => UNCHANGED upVars
      BY DEF get, resume, revalidate
    <3> QED BY <1>4, <3>1, <3>2 DEF allVars, upVars
  <2>2. up.pc = "idle" \/ messages' = messages
    BY <1>4 DEF completeMultipartUpload, get, resume, revalidate, allVars, upVars
  <2>3. RowsOf(messages', up') = RowsOf(messages, up)
    BY <2>1, <2>2 DEF RowsOf
  <2> QED BY <2>1, <2>3, ContractSteps
<1>5. CASE UploadStep \/ Cancel
  <2>1. /\ up'.data = up.data
        /\ up.pc \in Live /\ up.pc # "stored"
        /\ up'.pc \in Live \cup {"failed"}
    BY <1>5, UploadGoesOn
  <2>2. Phase(up) = "running" /\ RowsOf(messages, up) = <<>>
    BY <2>1 DEF Phase, RowsOf, Live
  <2>3. CASE up'.pc = "stored"
    <3> DEFINE m == messages'
               u == up'
    <3>1. Progress(u, FALSE) /\ Recording(m, u) /\ u.pc = "stored" /\ u \in Ups
      BY <1>1, <2>3 DEF Inv, Uploading, Progress
    <3> HIDE DEF m, u
    <3>2. RowsOf(m, u) = Contract!Cut(u.data)
      BY <3>1, StoredRows
    <3>3. RowsOf(messages', up') = Contract!Cut(up.data)
      BY <2>1, <3>2 DEF m, u
    <3>4. Phase(up') = "stored"
      BY <2>3 DEF Phase
    <3> QED BY <2>1, <2>2, <3>3, <3>4, ContractSteps
  <2>4. CASE up'.pc = "failed"
    <3>1. Phase(up') = "failed" /\ RowsOf(messages', up') = <<>>
      BY <2>4 DEF Phase, RowsOf
    <3> QED BY <2>1, <2>2, <3>1, ContractSteps
  <2>5. CASE up'.pc \notin {"stored", "failed"}
    <3>1. Phase(up') = "running" /\ RowsOf(messages', up') = <<>>
      BY <2>1, <2>5 DEF Phase, RowsOf, Live
    <3> QED BY <2>1, <2>2, <3>1, ContractSteps
  <2> QED BY <2>3, <2>4, <2>5
<1> QED BY <1>2, <1>3, <1>4, <1>5, Zenon DEF Next

\* Upload, with the decoder before it and the commit after it, keeps its contract:
\* a request stores its whole body cut into documents, or nothing.
THEOREM UploadKeepsContract == Spec => Contract!SafeSpec
<1>1. Init => Contract!Init
  <2> SUFFICES ASSUME Init
               PROVE  Contract!Init
    OBVIOUS
  <2>1. up.pc = "idle" /\ up.data = <<>>
    BY DEF Init, NoUpload
  <2> QED BY <2>1 DEF Contract!Init
<1>2. Inv /\ Inv' /\ [Next]_allVars => [Contract!Next]_(Contract!vars)
  BY ContractNext, UploadAssumption
<1> QED BY <1>1, <1>2, Invariant, PTL DEF Spec, Contract!SafeSpec
=============================================================================
