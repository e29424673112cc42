--------------------------- MODULE SequenceLemmas ---------------------------
(***************************************************************************)
(* Facts about numbers, sequences and FlattenSeq that the proofs about     *)
(* several components use.  Induction over data goes through sets: a set   *)
(* of numbers that is closed under the next one is Nat (Inductive), and a  *)
(* recursive function is the solution of its equation (Recursion).         *)
(***************************************************************************)
EXTENDS SequencesExt, SequenceTheorems, WellFoundedInduction, TLAPS

----------------------------------------------------------------------------
(* Induction                                                               *)

\* Every set of numbers has a least one.
LEMMA LeastNumber ==
  ASSUME NEW T \in SUBSET Nat, T # {}
  PROVE  \E x \in T : \A y \in T : x <= y
<1>1. PICK x \in T : \A y \in Nat : <<y, x>> \in OpToRel(<, Nat) => ~(y \in T)
  BY WFMin, NatLessThanWellFounded
<1>2. \A y \in T : ~(y < x)
  BY <1>1 DEF OpToRel
<1> QED BY <1>2

\* A set of numbers that has 0 and with each number the next has them all.
LEMMA Inductive ==
  ASSUME NEW T, 0 \in T, \A n \in Nat : n \in T => n + 1 \in T
  PROVE  \A n \in Nat : n \in T
<1> SUFFICES ASSUME Nat \ T # {} PROVE FALSE
  OBVIOUS
<1>1. PICK x \in Nat \ T : \A y \in Nat \ T : x <= y
  BY LeastNumber
<1>2. x - 1 \in Nat /\ x - 1 \in T
  BY <1>1
<1> QED BY <1>1, <1>2

\* A property of the numbers from e on that each number takes from the greater
\* ones holds for all.
LEMMA Downwards ==
  ASSUME NEW P, NEW e \in Nat,
         \A c \in Nat : c >= e => c \in P,
         \A c \in Nat : c < e /\ (\A d \in Nat : c < d => d \in P) => c \in P
  PROVE  \A c \in Nat : c \in P
<1> DEFINE T == {k \in Nat : \A c \in Nat : c + k >= e => c \in P}
<1>1. 0 \in T
  OBVIOUS
<1>2. ASSUME NEW k \in Nat, k \in T
      PROVE  k + 1 \in T
  <2>1. ASSUME NEW c \in Nat, c + (k + 1) >= e
        PROVE  c \in P
    <3>1. \A d \in Nat : c < d => d + k >= e
      BY <2>1
    <3>2. \A d \in Nat : c < d => d \in P
      BY <1>2, <3>1
    <3> QED BY <3>2
  <2> QED BY <2>1
<1> HIDE DEF T
<1>3. e \in T
  BY <1>1, <1>2, Inductive
<1>4. \A c \in Nat : c + e >= e
  OBVIOUS
<1> QED BY <1>3, <1>4 DEF T

----------------------------------------------------------------------------
(* Sequences                                                               *)

\* What Append makes.
LEMMA Appended ==
  ASSUME NEW S, NEW s \in Seq(S), NEW e \in S
  PROVE  /\ Append(s, e) \in Seq(S)
         /\ Len(Append(s, e)) = Len(s) + 1
         /\ \A i \in 1..Len(s) : Append(s, e)[i] = s[i]
         /\ Append(s, e)[Len(s) + 1] = e
OBVIOUS

\* The beginning of a sequence, and the sequence itself.
LEMMA Beginning ==
  ASSUME NEW S, NEW s \in Seq(S), NEW k \in 0..Len(s)
  PROVE  /\ SubSeq(s, 1, k) \in Seq(S)
         /\ Len(SubSeq(s, 1, k)) = k
         /\ \A i \in 1..k : SubSeq(s, 1, k)[i] = s[i]
         /\ k = Len(s) => SubSeq(s, 1, k) = s
<1>1. \A i \in 1..k : s[i] \in S
  BY ElementOfSeq
<1>2. /\ SubSeq(s, 1, k) \in Seq(S)
      /\ Len(SubSeq(s, 1, k)) = IF 1 <= k THEN k - 1 + 1 ELSE 0
      /\ \A i \in 1..k - 1 + 1 : SubSeq(s, 1, k)[i] = s[1 + i - 1]
  BY <1>1, SubSeqProperties
<1>3. k = Len(s) => SubSeq(s, 1, k) = s
  BY SubSeqFull
<1> QED BY <1>2, <1>3

\* The next longer beginning.
LEMMA NextBeginning ==
  ASSUME NEW S, NEW s \in Seq(S), NEW k \in 1..Len(s)
  PROVE  SubSeq(s, 1, k) = Append(SubSeq(s, 1, k - 1), s[k])
<1>1. s[k] \in S /\ k - 1 \in 0..Len(s) /\ k \in 0..Len(s)
  BY ElementOfSeq
<1> DEFINE a == SubSeq(s, 1, k)
           b == Append(SubSeq(s, 1, k - 1), s[k])
<1>2. a \in Seq(S) /\ Len(a) = k /\ \A i \in 1..k : a[i] = s[i]
  BY <1>1, Beginning
<1>3. /\ b \in Seq(S) /\ Len(b) = k
      /\ \A i \in 1..k - 1 : b[i] = s[i]
      /\ b[k] = s[k]
  BY <1>1, Beginning, Appended
<1> HIDE DEF a, b
<1>4. \A i \in 1..k : a[i] = b[i]
  BY <1>2, <1>3
<1>5. a = b
  BY <1>2, <1>3, <1>4, SeqEqual
<1> QED BY <1>5 DEF a, b

\* A beginning of a longer sequence is one of the shorter.
LEMMA SameBeginning ==
  ASSUME NEW S, NEW s \in Seq(S), NEW e \in S, NEW k \in 0..Len(s)
  PROVE  SubSeq(Append(s, e), 1, k) = SubSeq(s, 1, k)
<1> DEFINE t == Append(s, e)
           a == SubSeq(t, 1, k)
           b == SubSeq(s, 1, k)
<1>1. t \in Seq(S) /\ Len(t) = Len(s) + 1 /\ \A i \in 1..Len(s) : t[i] = s[i]
  BY Appended
<1> HIDE DEF t
<1>2. a \in Seq(S) /\ Len(a) = k /\ \A i \in 1..k : a[i] = t[i]
  BY <1>1, Beginning
<1>3. b \in Seq(S) /\ Len(b) = k /\ \A i \in 1..k : b[i] = s[i]
  BY Beginning
<1> HIDE DEF a, b
<1>4. \A i \in 1..k : a[i] = b[i]
  BY <1>1, <1>2, <1>3
<1>5. a = b
  BY <1>2, <1>3, <1>4, SeqEqual
<1> QED BY <1>5 DEF a, b, t

\* A solution of a recursion over the numbers up to n, ...
Solves(f, G, b, n) == f[0] = b /\ \A i \in 1..n : f[i] = G[i][f[i - 1]]

\* ... and of one whose steps go up, as long as they are below e.
SolvesUp(f, H, N, b, e) == \A c \in Nat : f[c] = IF c >= e THEN b ELSE H[c][f[N[c]]]

\* A recursion over the numbers up to n has a solution.
LEMMA Recursion ==
  ASSUME NEW X, NEW b \in X, NEW G \in [Nat -> [X -> X]]
  PROVE  \A n \in Nat : \E f \in [Nat -> X] : Solves(f, G, b, n)
<1> DEFINE T == {n \in Nat : \E f \in [Nat -> X] :
                   f[0] = b /\ \A i \in 1..n : f[i] = G[i][f[i - 1]]}
<1>1. 0 \in T
  <2> DEFINE f == [i \in Nat |-> b]
  <2>1. f \in [Nat -> X] /\ f[0] = b /\ \A i \in 1..0 : f[i] = G[i][f[i - 1]]
    OBVIOUS
  <2> HIDE DEF f
  <2> QED BY <2>1
<1>2. ASSUME NEW n \in Nat, n \in T
      PROVE  n + 1 \in T
  <2>1. PICK f \in [Nat -> X] : f[0] = b /\ \A i \in 1..n : f[i] = G[i][f[i - 1]]
    BY <1>2
  <2> DEFINE g == [f EXCEPT ![n + 1] = G[n + 1][f[n]]]
  <2>2. g \in [Nat -> X] /\ g[n + 1] = G[n + 1][f[n]] /\ \A i \in 0..n : g[i] = f[i]
    OBVIOUS
  <2> HIDE DEF g
  <2>3. \A i \in 1..n + 1 : g[i] = G[i][g[i - 1]]
    <3> SUFFICES ASSUME NEW i \in 1..n + 1
                 PROVE  g[i] = G[i][g[i - 1]]
      OBVIOUS
    <3>1. g[i - 1] = f[i - 1]
      BY <2>2
    <3>2. CASE i = n + 1
      BY <2>2, <3>1, <3>2
    <3>3. CASE i # n + 1
      BY <2>1, <2>2, <3>1, <3>3
    <3> QED BY <3>2, <3>3
  <2>4. g[0] = b
    BY <2>1, <2>2
  <2> QED BY <2>2, <2>3, <2>4
<1> HIDE DEF T
<1>3. \A n \in Nat : n \in T
  BY <1>1, <1>2, Inductive
<1> QED BY <1>3 DEF T, Solves

\* A recursion whose steps go up, as long as they are below e, has a solution.
LEMMA UpwardRecursion ==
  ASSUME NEW X, NEW b \in X, NEW e \in Nat, NEW H \in [Nat -> [X -> X]], NEW N \in [Nat -> Nat],
         \A c \in Nat : c < e => N[c] > c
  PROVE  \E f \in [Nat -> X] : SolvesUp(f, H, N, b, e)
<1> DEFINE T == {n \in Nat : \E f \in [Nat -> X] :
                   \A c \in Nat : c + n >= e => f[c] = IF c >= e THEN b ELSE H[c][f[N[c]]]}
<1>1. 0 \in T
  <2>1. /\ [c \in Nat |-> b] \in [Nat -> X]
        /\ \A c \in Nat : c + 0 >= e => c >= e /\ [d \in Nat |-> b][c] = b
    OBVIOUS
  <2> QED BY <2>1
<1>2. ASSUME NEW n \in Nat, n \in T
      PROVE  n + 1 \in T
  <2>1. PICK f \in [Nat -> X] :
          \A c \in Nat : c + n >= e => f[c] = IF c >= e THEN b ELSE H[c][f[N[c]]]
    BY <1>2
  <2>2. CASE e < n + 1
    <3>1. \A c \in Nat : c + (n + 1) >= e => f[c] = IF c >= e THEN b ELSE H[c][f[N[c]]]
      BY <2>1, <2>2
    <3> QED BY <3>1
  <2>3. CASE e >= n + 1
    <3> DEFINE d == e - (n + 1)
               g == [f EXCEPT ![d] = H[d][f[N[d]]]]
    <3>1. d \in Nat /\ d < e
      BY <2>3
    <3>2. N[d] \in Nat /\ N[d] > d /\ f[N[d]] \in X /\ H[d][f[N[d]]] \in X
      BY <3>1
    <3>3. g \in [Nat -> X] /\ g[d] = H[d][f[N[d]]] /\ \A c \in Nat : c # d => g[c] = f[c]
      BY <3>1, <3>2
    <3>4. \A c \in Nat : c + (n + 1) >= e => (c = d \/ c + n >= e) /\ c >= d
      BY <2>3
    <3> HIDE DEF d, g
    <3>5. ASSUME NEW c \in Nat, c + (n + 1) >= e
          PROVE  g[c] = IF c >= e THEN b ELSE H[c][g[N[c]]]
      <4>1. c < e => N[c] \in Nat /\ N[c] # d
        <5>1. N[c] \in Nat /\ c >= d /\ (c < e => N[c] > c)
          BY <3>4, <3>5
        <5> QED BY <3>1, <5>1
      <4>2. c < e => g[N[c]] = f[N[c]]
        BY <3>3, <4>1
      <4>3. CASE c = d
        BY <3>1, <3>3, <4>2, <4>3
      <4>4. CASE c # d
        <5>1. g[c] = IF c >= e THEN b ELSE H[c][f[N[c]]]
          BY <2>1, <3>3, <3>4, <3>5, <4>4
        <5> QED BY <4>2, <5>1
      <4> QED BY <4>3, <4>4
    <3> QED BY <3>3, <3>5
  <2> QED BY <2>2, <2>3
<1> HIDE DEF T
<1>3. e \in T
  BY <1>1, <1>2, Inductive
<1>4. PICK f \in [Nat -> X] :
        \A c \in Nat : c + e >= e => f[c] = IF c >= e THEN b ELSE H[c][f[N[c]]]
  BY <1>3 DEF T
<1> QED BY <1>4 DEF SolvesUp

----------------------------------------------------------------------------
(* Flattening a sequence of sequences                                      *)

\* What joining the first n values of s gives at every step.
IsFlattening(f, s, n) ==
  /\ DOMAIN f = 1..n
  /\ \A i \in 1..n : f[i] = IF i = 1 THEN s[i] ELSE f[i - 1] \o s[i]

\* Joining a sequence of values one by one has a result at every step.
LEMMA Joins ==
  ASSUME NEW X, \A x, y \in X : x \o y \in X,
         NEW n \in Nat \ {0}, NEW s, \A i \in 1..n : s[i] \in X
  PROVE  \E h \in [1..n -> X] : IsFlattening(h, s, n)
<1> DEFINE G == [i \in Nat |-> [x \in X |-> IF i + 1 \in 1..n THEN x \o s[i + 1] ELSE x]]
           b == s[1]
<1>1. ASSUME NEW i \in Nat, NEW x \in X
      PROVE  /\ G[i][x] = IF i + 1 \in 1..n THEN x \o s[i + 1] ELSE x
             /\ (IF i + 1 \in 1..n THEN x \o s[i + 1] ELSE x) \in X
  OBVIOUS
<1>2. G \in [Nat -> [X -> X]]
  BY <1>1, Zenon
<1>3. b \in X
  OBVIOUS
<1> HIDE DEF G, b
<1>4. \A k \in Nat : \E f \in [Nat -> X] : Solves(f, G, b, k)
  BY <1>2, <1>3, Recursion
<1>5. PICK f \in [Nat -> X] : f[0] = b /\ \A i \in 1..n : f[i] = G[i][f[i - 1]]
  BY <1>4 DEF Solves
<1> DEFINE h == [i \in 1..n |-> f[i - 1]]
<1>6. h \in [1..n -> X] /\ \A i \in 1..n : h[i] = f[i - 1]
  OBVIOUS
<1> HIDE DEF h
<1>7. ASSUME NEW i \in 1..n
      PROVE  h[i] = IF i = 1 THEN s[i] ELSE h[i - 1] \o s[i]
  <2>1. CASE i = 1
    BY <1>5, <1>6, <2>1 DEF b
  <2>2. CASE i # 1
    <3>1. i - 1 \in 1..n /\ i - 1 \in Nat /\ i - 1 + 1 = i /\ i - 1 - 1 \in Nat
      BY <2>2
    <3>2. f[i - 1] = G[i - 1][f[i - 1 - 1]] /\ f[i - 1 - 1] \in X
      BY <1>5, <3>1
    <3>3. f[i - 1] = f[i - 1 - 1] \o s[i]
      BY <1>1, <3>1, <3>2
    <3> QED BY <1>6, <2>2, <3>1, <3>3
  <2> QED BY <2>1, <2>2
<1>8. DOMAIN h = 1..n
  BY <1>6
<1> QED BY <1>6, <1>7, <1>8 DEF IsFlattening

\* For the sequences of s they are sequences.
LEMMA Flattenings ==
  ASSUME NEW S, NEW s \in Seq(Seq(S)), Len(s) # 0
  PROVE  \E f \in [1..Len(s) -> Seq(S)] : IsFlattening(f, s, Len(s))
<1> DEFINE X == Seq(S)
           n == Len(s)
<1>1. n \in Nat \ {0} /\ \A i \in 1..n : s[i] \in X
  BY ElementOfSeq, LenProperties
<1>2. \A x, y \in X : x \o y \in X
  BY ConcatProperties
<1> HIDE DEF X, n
<1>3. \E h \in [1..n -> X] : IsFlattening(h, s, n)
  BY <1>1, <1>2, Joins
<1> QED BY <1>3 DEF n, X

\* FlattenSeq is the last of them.
LEMMA FlattenValue ==
  ASSUME NEW S, NEW s \in Seq(Seq(S)), Len(s) # 0,
         NEW f, IsFlattening(f, s, Len(s))
  PROVE  FlattenSeq(s) = f[Len(s)]
<1> DEFINE n == Len(s)
           g == CHOOSE h : h = [i \in 1..Len(s) |-> IF i = 1 THEN s[i] ELSE h[i - 1] \o s[i]]
           T == {k \in Nat : k < n => g[k + 1] = f[k + 1]}
<1>1. \E h : h = [i \in 1..Len(s) |-> IF i = 1 THEN s[i] ELSE h[i - 1] \o s[i]]
  <2> DEFINE h == [i \in 1..Len(s) |-> f[i]]
  <2>1. ASSUME NEW i \in 1..Len(s)
        PROVE  f[i] = IF i = 1 THEN s[i] ELSE h[i - 1] \o s[i]
    <3>1. Len(s) \in Nat
      OBVIOUS
    <3> HIDE DEF h
    <3>2. i # 1 => i - 1 \in 1..Len(s)
      BY <3>1
    <3>3. i # 1 => h[i - 1] = f[i - 1]
      BY <3>2 DEF h
    <3> QED BY <3>3 DEF IsFlattening
  <2>2. h = [i \in 1..Len(s) |-> IF i = 1 THEN s[i] ELSE h[i - 1] \o s[i]]
    BY <2>1, Zenon
  <2> HIDE DEF h
  <2> QED BY <2>2
<1>2. g = [i \in 1..Len(s) |-> IF i = 1 THEN s[i] ELSE g[i - 1] \o s[i]]
  BY <1>1, Zenon
<1>3. FlattenSeq(s) = g[Len(s)]
  BY DEF FlattenSeq
<1> HIDE DEF g
<1>4. \A i \in 1..Len(s) : g[i] = IF i = 1 THEN s[i] ELSE g[i - 1] \o s[i]
  BY <1>2
<1>10. \A i \in 1..Len(s) : i # 1 => /\ g[i] = g[i - 1] \o s[i]
                                   /\ f[i] = f[i - 1] \o s[i]
  BY <1>4 DEF IsFlattening
<1>5. n \in Nat \ {0}
  BY LenProperties
<1>6. 0 \in T
  <2>1. 1 \in 1..Len(s)
    BY <1>5
  <2>2. g[1] = s[1] /\ f[1] = s[1]
    BY <1>4, <2>1 DEF IsFlattening
  <2> QED BY <2>2
<1>7. ASSUME NEW k \in Nat, k \in T
      PROVE  k + 1 \in T
  <2>1. ASSUME k + 1 < n
        PROVE  g[k + 1 + 1] = f[k + 1 + 1]
    <3> DEFINE j == k + 2
    <3>1. j \in 1..Len(s) /\ j # 1 /\ j - 1 = k + 1 /\ k + 1 + 1 = j
      BY <1>5, <2>1
    <3>2. g[k + 1] = f[k + 1]
      BY <1>5, <1>7, <2>1
    <3> HIDE DEF j
    <3>3. g[j] = g[j - 1] \o s[j] /\ f[j] = f[j - 1] \o s[j]
      BY <1>10, <3>1, Zenon
    <3> QED BY <3>1, <3>2, <3>3, Zenon
  <2> QED BY <2>1
<1> HIDE DEF T
<1>8. \A k \in Nat : k \in T
  BY <1>6, <1>7, Inductive
<1>9. n - 1 \in T
  BY <1>5, <1>8
<1>11. g[n - 1 + 1] = f[n - 1 + 1]
  BY <1>5, <1>9 DEF T
<1> QED BY <1>3, <1>5, <1>11

\* The flattening of no sequences, of one, and of one more.
LEMMA FlattenAppend ==
  ASSUME NEW S, NEW s \in Seq(Seq(S)), NEW e \in Seq(S)
  PROVE  /\ FlattenSeq(<<>>) = <<>>
         /\ FlattenSeq(s) \in Seq(S)
         /\ FlattenSeq(Append(s, e)) = FlattenSeq(s) \o e
<1> DEFINE t == Append(s, e)
           n == Len(s)
<1>1. FlattenSeq(<<>>) = <<>>
  BY DEF FlattenSeq
<1>2. n \in Nat /\ \A i \in 1..n : s[i] \in Seq(S)
  BY ElementOfSeq, LenProperties
<1>3. t \in Seq(Seq(S)) /\ Len(t) = n + 1 /\ (\A i \in 1..n : t[i] = s[i]) /\ t[n + 1] = e
  BY Appended
<1> HIDE DEF t
<1>4. CASE n = 0
  <2>1. s = <<>>
    BY <1>4, EmptySeq
  <2> DEFINE f == [i \in 1..1 |-> e]
  <2>2. Len(t) = 1 /\ t[1] = e
    BY <1>3, <1>4
  <2>3. IsFlattening(f, t, Len(t)) /\ f[Len(t)] = e
    BY <2>2 DEF IsFlattening
  <2> HIDE DEF f
  <2>4. FlattenSeq(t) = e
    BY <1>3, <2>2, <2>3, FlattenValue
  <2>5. <<>> \o e = e /\ <<>> \in Seq(S)
    BY ConcatEmptySeq, EmptySeq
  <2> QED BY <1>1, <2>1, <2>4, <2>5 DEF t
<1>5. CASE n # 0
  <2>1. PICK f \in [1..n -> Seq(S)] : IsFlattening(f, s, Len(s))
    BY <1>5, Flattenings
  <2>2. n \in 1..n
    BY <1>2, <1>5
  <2>3. FlattenSeq(s) = f[n] /\ f[n] \in Seq(S)
    BY <1>5, <2>1, <2>2, FlattenValue
  <2> DEFINE v == f[n] \o e
             g == [i \in 1..n + 1 |-> IF i = n + 1 THEN v ELSE f[i]]
  <2> HIDE DEF v
  <2>4. DOMAIN g = 1..n + 1 /\ g[n + 1] = v /\ \A i \in 1..n : g[i] = f[i]
    <3> HIDE DEF n
    <3> QED BY <1>2
  <2> HIDE DEF g
  <2>5. ASSUME NEW i \in 1..n + 1
        PROVE  g[i] = IF i = 1 THEN t[i] ELSE g[i - 1] \o t[i]
    <3>1. CASE i = n + 1
      <4>1. i # 1 /\ i - 1 = n
        BY <1>2, <1>5, <3>1
      <4> QED BY <1>3, <2>2, <2>4, <3>1, <4>1 DEF v
    <3>2. CASE i # n + 1
      <4>1. i \in 1..n /\ (i # 1 => i - 1 \in 1..n)
        BY <1>2, <3>2
      <4>2. f[i] = IF i = 1 THEN s[i] ELSE f[i - 1] \o s[i]
        BY <2>1, <4>1 DEF IsFlattening
      <4> QED BY <1>3, <2>4, <4>1, <4>2
    <3> QED BY <3>1, <3>2
  <2>6. IsFlattening(g, t, Len(t))
    BY <1>3, <2>4, <2>5 DEF IsFlattening
  <2>7. Len(t) # 0
    BY <1>2, <1>3
  <2>8. FlattenSeq(t) = g[Len(t)]
    BY <1>3, <2>6, <2>7, FlattenValue
  <2>9. FlattenSeq(t) = f[n] \o e
    BY <1>3, <2>4, <2>8 DEF v
  <2> QED BY <1>1, <2>3, <2>9 DEF t
<1> QED BY <1>4, <1>5

\* The flattening of one.
LEMMA FlattenOne ==
  ASSUME NEW S, NEW e \in Seq(S)
  PROVE  FlattenSeq(<<e>>) = e
<1>1. <<>> \in Seq(Seq(S)) /\ Append(<<>>, e) = <<e>> /\ <<>> \o e = e
  BY EmptySeq, ConcatEmptySeq
<1> QED BY <1>1, FlattenAppend

=============================================================================
