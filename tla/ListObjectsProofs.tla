------------------------- MODULE ListObjectsProofs -------------------------
(***************************************************************************)
(* Proofs about ListObjects, for every bucket, every page size and every   *)
(* number of keys created, keys deleted and failed pages meanwhile.        *)
(*                                                                         *)
(* The argument: a page scans its rows in ascending order and the cursor   *)
(* is the last key consumed, so what is listed is behind the cursor and    *)
(* what was there all the time is listed or ahead of it (PagesOK).  The    *)
(* keys below one common prefix are neighbours in the order, so a page     *)
(* that ends at a new result has consumed all of them or none.             *)
(***************************************************************************)
EXTENDS ListObjects, SequenceTheorems, WellFoundedInduction, TLAPS

----------------------------------------------------------------------------
(* The inductive invariant                                                 *)

\* The values of the locals of ListObjectsPage.
Scans ==
  [rest : SUBSET Keys, objects : Seq(Keys), prefixes : Seq(Strings), seen : SUBSET Strings,
   count : Nat, next : Keys \cup {<<>>}]

\* TypeOK, and the locals form a record, which is empty between two queries.
TypeInv == TypeOK /\ scan \in Scans /\ (client # "wait" => scan = NoScan)

Active == client \in {"ask", "wait"}

\* The client resumes the listing after an earlier page.
Resumed == cursor # <<>> /\ (query.v2 => IsListToken(cursor))

\* The last key that page consumed.
Position == After(query, cursor)

\* Key k is beyond the pages delivered so far.
Ahead(k) == Resumed => Less(Position, k)

\* The keys the listing may name.
Ever == {k \in began \cup added : Wanted(k)}

\* Key k is listed, itself or by its common prefix, in objs or prefs.
Covered(q, k, objs, prefs) ==
  IF Rollup(q, k) = <<>> THEN k \in objs ELSE Rollup(q, k) \in prefs

\* What the history variables know of the keys present.
History ==
  /\ present \subseteq began \cup added
  /\ began \ removed \subseteq present

\* The pages delivered so far: what they list is behind the cursor and was asked
\* for, and what was there all the time is listed or still ahead.
PagesOK ==
  /\ query \in Queries
  /\ ~Resumed => objects = <<>> /\ prefixes = <<>>
  /\ Resumed => Position \in Ever
  /\ ListedOnce
  /\ \A k \in Range(objects) : /\ k \in Ever /\ Rollup(query, k) = <<>>
                               /\ k = Position \/ Less(k, Position)
  /\ \A p \in Range(prefixes) : p # <<>> /\ \E k \in Ever : Rollup(query, k) = p
  /\ \A k \in present \ added : Wanted(k) /\ Ahead(k) => Rollup(query, k) \notin Range(prefixes)
  /\ \A k \in began \ removed :
       Wanted(k) /\ ~Covered(query, k, Range(objects), Range(prefixes)) => Ahead(k)

\* The rows still to scan come after every row consumed.
RowsOK ==
  /\ \A k \in scan.rest : k \in Ever /\ Ahead(k)
  /\ \A k \in scan.rest \ added : Rollup(query, k) \notin Range(prefixes)
  /\ scan.next = <<>> => scan.count = 0 /\ scan.objects = <<>> /\ scan.seen = {}
  /\ scan.next # <<>> => /\ scan.next \in Ever /\ Ahead(scan.next)
                         /\ \A j \in scan.rest : Less(scan.next, j)

\* The page so far.
ResultsOK ==
  /\ IsInjective(scan.objects)
  /\ \A k \in Range(scan.objects) : /\ k \in Ever /\ Rollup(query, k) = <<>> /\ Ahead(k)
                                    /\ k = scan.next \/ Less(k, scan.next)
  /\ IsInjective(scan.prefixes)
  /\ Range(scan.prefixes) = scan.seen
  /\ \A p \in scan.seen : /\ p # <<>>
                          /\ p \in Range(prefixes) => \E k \in added : Rollup(query, k) = p
                          /\ \E k \in Ever : /\ Rollup(query, k) = p
                                             /\ \A j \in scan.rest : Less(k, j)

\* No row is skipped: a key that was there all the time and comes after the last
\* row consumed is still to be scanned, and one that has to be listed is.
NoneSkipped ==
  /\ \A k \in present \ added :
       Wanted(k) /\ Ahead(k) /\ (scan.next # <<>> => Less(scan.next, k)) => k \in scan.rest
  /\ \A k \in began \ removed :
       Wanted(k) => \/ k \in scan.rest
                    \/ Covered(query, k, Range(objects) \cup Range(scan.objects),
                                         Range(prefixes) \cup Range(scan.prefixes))

PageOK == (query.v2 => IsListToken(cursor)) /\ RowsOK /\ ResultsOK /\ NoneSkipped

\* Between listings nothing is on record; at the end of one the properties hold.
ListInv ==
  /\ client = "idle" => objects = <<>> /\ prefixes = <<>>
  /\ Active => History /\ PagesOK
  /\ client = "wait" => PageOK
  /\ client = "done" => ListedOnce /\ CompleteListing

----------------------------------------------------------------------------
(* Byte strings                                                            *)

\* Every set of naturals that is not empty has a least element.
LEMMA LeastNumber ==
  ASSUME NEW T \in SUBSET Nat, T # {}
  PROVE  \E x \in T : \A y \in T : x <= y
<1>1. PICK x \in T : \A y \in Nat : <<y, x>> \in OpToRel(<, Nat) => ~(y \in T)
  BY WFMin, NatLessThanWellFounded
<1>2. \A y \in T : ~(y < x)
  BY <1>1 DEF OpToRel
<1> QED BY <1>2

\* And every one with an upper bound a greatest.
LEMMA GreatestNumber ==
  ASSUME NEW n \in Nat, NEW T \in SUBSET (0..n), T # {}
  PROVE  \E x \in T : \A y \in T : y <= x
<1> DEFINE U == {n - x : x \in T}
<1>1. U \in SUBSET Nat /\ U # {}
  <2>1. \A x \in T : n - x \in Nat
    OBVIOUS
  <2> QED BY <2>1
<1> HIDE DEF U
<1>2. PICK u \in U : \A v \in U : u <= v
  BY <1>1, LeastNumber
<1>3. PICK x \in T : u = n - x
  BY DEF U
<1>4. \A y \in T : n - y \in U
  BY DEF U
<1>5. \A y \in T : n - x <= n - y
  BY <1>2, <1>3, <1>4
<1> QED BY <1>5

\* The bytes of a string.
LEMMA StringBytes ==
  ASSUME NEW s \in Strings
  PROVE  /\ DOMAIN s = 1..Len(s) /\ Len(s) \in Nat
         /\ \A i \in 1..Len(s) : s[i] \in Nat /\ s[i] <= MaxByte
<1>1. MaxByte \in Nat
  BY ListAssumption
<1>2. s \in Seq(0..MaxByte)
  BY DEF Strings, Bytes
<1> QED BY <1>1, <1>2

\* No string is below itself.
LEMMA LessIrreflexive ==
  ASSUME NEW a \in Strings
  PROVE  ~Less(a, a)
BY StringBytes DEF Less

\* The order of keys is transitive.
LEMMA LessTransitive ==
  ASSUME NEW a \in Strings, NEW b \in Strings, NEW c \in Strings, Less(a, b), Less(b, c)
  PROVE  Less(a, c)
<1>1. PICK i \in 1..Len(b) : /\ \A j \in 1..i - 1 : j \in DOMAIN a /\ a[j] = b[j]
                             /\ i \in DOMAIN a => a[i] < b[i]
  BY DEF Less
<1>2. PICK l \in 1..Len(c) : /\ \A j \in 1..l - 1 : j \in DOMAIN b /\ b[j] = c[j]
                             /\ l \in DOMAIN b => b[l] < c[l]
  BY DEF Less
<1>3. /\ DOMAIN a = 1..Len(a) /\ Len(a) \in Nat
      /\ DOMAIN b = 1..Len(b) /\ Len(b) \in Nat
      /\ DOMAIN c = 1..Len(c) /\ Len(c) \in Nat
  BY DEF Strings
<1>4. /\ \A j \in 1..Len(a) : a[j] \in Int
      /\ \A j \in 1..Len(b) : b[j] \in Int
      /\ \A j \in 1..Len(c) : c[j] \in Int
  BY StringBytes
<1>5. CASE i < l
  <2>1. i \in 1..Len(c) /\ b[i] = c[i]
    BY <1>2, <1>3, <1>5
  <2>2. \A j \in 1..i - 1 : j \in DOMAIN a /\ a[j] = c[j]
    BY <1>1, <1>2, <1>5
  <2>3. i \in DOMAIN a => a[i] < c[i]
    BY <1>1, <2>1
  <2> QED BY <2>1, <2>2, <2>3 DEF Less
<1>6. CASE l < i
  <2>1. \A j \in 1..l - 1 : j \in DOMAIN a /\ a[j] = c[j]
    BY <1>1, <1>2, <1>6
  <2>2. l \in DOMAIN a /\ l \in DOMAIN b /\ a[l] = b[l]
    BY <1>1, <1>3, <1>6
  <2> QED BY <1>2, <2>1, <2>2 DEF Less
<1>7. CASE l = i
  <2>1. \A j \in 1..l - 1 : j \in DOMAIN a /\ a[j] = c[j]
    BY <1>1, <1>2, <1>7
  <2>2. l \in DOMAIN a => a[l] < c[l]
    BY <1>1, <1>2, <1>3, <1>4, <1>7
  <2> QED BY <2>1, <2>2 DEF Less
<1> QED BY <1>5, <1>6, <1>7

\* HasPrefix, byte by byte.
LEMMA HasPrefixBytes ==
  ASSUME NEW k \in Strings, NEW p \in Strings
  PROVE  HasPrefix(k, p) <=> Len(p) <= Len(k) /\ \A i \in 1..Len(p) : k[i] = p[i]
<1>1. /\ DOMAIN k = 1..Len(k) /\ Len(k) \in Nat
      /\ DOMAIN p = 1..Len(p) /\ Len(p) \in Nat
      /\ \A i \in 1..Len(k) : k[i] \in Bytes
  BY DEF Strings
<1>2. CASE Len(p) <= Len(k)
  <2> DEFINE s == SubSeq(k, 1, Len(p))
  <2>1. \A i \in 1..Len(p) : k[i] \in Bytes
    BY <1>1, <1>2
  <2>2. /\ s \in Seq(Bytes)
        /\ Len(s) = IF 1 <= Len(p) THEN Len(p) - 1 + 1 ELSE 0
        /\ \A i \in 1..(Len(p) - 1 + 1) : s[i] = k[1 + i - 1]
    BY <1>1, <2>1, SubSeqProperties
  <2> HIDE DEF s
  <2>3. Len(s) = Len(p) /\ \A i \in 1..Len(p) : s[i] = k[i]
    BY <1>1, <2>2
  <2>4. s = p <=> \A i \in 1..Len(p) : k[i] = p[i]
    <3>1. ASSUME \A i \in 1..Len(p) : k[i] = p[i]
          PROVE  s = p
      BY <2>2, <2>3, <3>1, SeqEqual DEF Strings
    <3> QED BY <2>3, <3>1
  <2> QED BY <1>2, <2>4 DEF HasPrefix, s
<1>3. CASE ~(Len(p) <= Len(k))
  BY <1>3 DEF HasPrefix
<1> QED BY <1>2, <1>3

\* The strings that start with p are neighbours in the order.
LEMMA PrefixConvex ==
  ASSUME NEW a \in Strings, NEW b \in Strings, NEW c \in Strings, NEW p \in Strings,
         HasPrefix(a, p), HasPrefix(c, p), Less(a, b), Less(b, c)
  PROVE  HasPrefix(b, p)
<1>1. PICK i \in 1..Len(b) : /\ \A j \in 1..i - 1 : j \in DOMAIN a /\ a[j] = b[j]
                             /\ i \in DOMAIN a => a[i] < b[i]
  BY DEF Less
<1>2. PICK l \in 1..Len(c) : /\ \A j \in 1..l - 1 : j \in DOMAIN b /\ b[j] = c[j]
                             /\ l \in DOMAIN b => b[l] < c[l]
  BY DEF Less
<1>3. /\ DOMAIN a = 1..Len(a) /\ Len(a) \in Nat
      /\ DOMAIN b = 1..Len(b) /\ Len(b) \in Nat
      /\ DOMAIN c = 1..Len(c) /\ Len(c) \in Nat
      /\ Len(p) \in Nat
  BY DEF Strings
<1>4. /\ \A j \in 1..Len(a) : a[j] \in Int
      /\ \A j \in 1..Len(b) : b[j] \in Int
      /\ \A j \in 1..Len(c) : c[j] \in Int
  BY StringBytes
<1>5. /\ Len(p) <= Len(a) /\ \A j \in 1..Len(p) : a[j] = p[j]
      /\ Len(p) <= Len(c) /\ \A j \in 1..Len(p) : c[j] = p[j]
  BY HasPrefixBytes
<1>6. CASE i > Len(p)
  <2>1. Len(p) <= Len(b) /\ \A j \in 1..Len(p) : b[j] = p[j]
    BY <1>1, <1>3, <1>5, <1>6
  <2> QED BY <2>1, HasPrefixBytes
<1>7. CASE i <= Len(p)
  <2>1. i \in DOMAIN a /\ i \in DOMAIN c /\ a[i] = c[i] /\ a[i] < b[i]
    BY <1>1, <1>3, <1>5, <1>7
  <2>2. CASE l < i
    <3>1. l \in DOMAIN b /\ b[l] = c[l]
      BY <1>1, <1>2, <1>3, <1>5, <1>7, <2>2
    <3> QED BY <1>2, <1>3, <1>4, <3>1
  <2>3. CASE l = i
    BY <1>2, <1>3, <1>4, <2>1, <2>3
  <2>4. CASE l > i
    <3>1. b[i] = c[i]
      BY <1>2, <2>4
    <3> QED BY <1>3, <1>4, <2>1, <3>1
  <2> QED BY <2>2, <2>3, <2>4
<1> QED BY <1>3, <1>6, <1>7


\* prefixUpperBound, byte by byte: the last byte below 0xff is raised, what
\* follows it is dropped.
LEMMA UpperBoundBytes ==
  ASSUME NEW p \in Strings
  PROVE  \/ prefixUpperBound(p) = <<>> /\ \A j \in 1..Len(p) : p[j] = MaxByte
         \/ \E i \in 1..Len(p) :
              /\ Len(prefixUpperBound(p)) = i
              /\ prefixUpperBound(p)[i] = p[i] + 1
              /\ \A j \in 1..i - 1 : prefixUpperBound(p)[j] = p[j]
              /\ \A j \in i + 1..Len(p) : p[j] = MaxByte
<1> DEFINE low == {i \in DOMAIN p : p[i] # MaxByte}
           i == CHOOSE j \in low : \A l \in low : l <= j
           s == SubSeq(p, 1, i - 1)
<1>1. /\ DOMAIN p = 1..Len(p) /\ Len(p) \in Nat
      /\ \A j \in 1..Len(p) : p[j] \in Nat
  BY StringBytes
<1>2. CASE low = {}
  BY <1>1, <1>2 DEF prefixUpperBound
<1>3. CASE low # {}
  <2>1. prefixUpperBound(p) = s \o <<p[i] + 1>>
    BY <1>3 DEF prefixUpperBound
  <2>2. low \in SUBSET (0..Len(p))
    BY <1>1
  <2>3. \E j \in low : \A l \in low : l <= j
    BY <1>1, <1>3, <2>2, GreatestNumber
  <2>4. i \in low /\ \A l \in low : l <= i
    BY <2>3
  <2> HIDE DEF i
  <2>5. i \in 1..Len(p) /\ \A j \in i + 1..Len(p) : p[j] = MaxByte
    BY <1>1, <2>4
  <2>6. \A j \in 1..i - 1 : p[j] \in Nat
    BY <1>1, <2>5
  <2>7. /\ s \in Seq(Nat)
        /\ Len(s) = IF 1 <= i - 1 THEN i - 1 - 1 + 1 ELSE 0
        /\ \A j \in 1..(i - 1 - 1 + 1) : s[j] = p[1 + j - 1]
    BY <2>5, <2>6, SubSeqProperties
  <2> HIDE DEF s
  <2>8. Len(s) = i - 1 /\ \A j \in 1..i - 1 : s[j] = p[j]
    BY <2>5, <2>7
  <2> DEFINE e == <<p[i] + 1>>
             u == s \o e
  <2>9. e \in Seq(Nat) /\ Len(e) = 1 /\ e[1] = p[i] + 1
    BY <1>1, <2>5
  <2> HIDE DEF e
  <2>10. /\ Len(u) = Len(s) + Len(e)
         /\ \A j \in 1..Len(s) + Len(e) : u[j] = IF j <= Len(s) THEN s[j] ELSE e[j - Len(s)]
    BY <2>7, <2>9, ConcatProperties
  <2> HIDE DEF u
  <2>11. Len(u) = i /\ \A j \in 1..i - 1 : u[j] = p[j]
    BY <2>5, <2>8, <2>9, <2>10
  <2>12. u[i] = p[i] + 1
    BY <2>5, <2>8, <2>9, <2>10
  <2> QED BY <2>1, <2>5, <2>11, <2>12 DEF u, e
<1> QED BY <1>2, <1>3

\* The half-open range of the query selects the keys that start with the prefix,
\* whatever its bytes are.
LEMMA PrefixRange ==
  ASSUME NEW k \in Strings, NEW p \in Strings
  PROVE  HasPrefix(k, p) <=>
           /\ ~Less(k, p)
           /\ prefixUpperBound(p) # <<>> => Less(k, prefixUpperBound(p))
<1> DEFINE u == prefixUpperBound(p)
<1>1. /\ DOMAIN p = 1..Len(p) /\ Len(p) \in Nat /\ MaxByte \in Nat
      /\ DOMAIN k = 1..Len(k) /\ Len(k) \in Nat
      /\ \A j \in 1..Len(p) : p[j] \in Nat /\ p[j] <= MaxByte
      /\ \A j \in 1..Len(k) : k[j] \in Nat /\ k[j] <= MaxByte
  BY StringBytes, ListAssumption
<1>2. ASSUME NEW i \in 0..Len(p), \A j \in i + 1..Len(p) : p[j] = MaxByte, ~Less(k, p),
             i <= Len(k), \A j \in 1..i : k[j] = p[j]
      PROVE  HasPrefix(k, p)
  <2> DEFINE bad == {j \in 1..Len(p) : j \in 1..Len(k) => k[j] # p[j]}
  <2>1. CASE bad = {}
    <3>1. \A j \in 1..Len(p) : j \in 1..Len(k) /\ k[j] = p[j]
      BY <2>1
    <3>2. Len(p) <= Len(k)
      BY <1>1, <3>1
    <3> QED BY <3>1, <3>2, HasPrefixBytes
  <2>2. CASE bad # {}
    <3>1. bad \in SUBSET Nat
      BY <1>1
    <3>2. PICK t \in bad : \A j \in bad : t <= j
      BY <2>2, <3>1, LeastNumber
    <3>3. t \in i + 1..Len(p)
      BY <1>1, <1>2, <3>2
    <3>4. \A j \in 1..t - 1 : j \in DOMAIN k /\ k[j] = p[j]
      BY <1>1, <3>2, <3>3
    <3>5. t \in DOMAIN k => k[t] < p[t]
      BY <1>1, <1>2, <3>2, <3>3
    <3>6. Less(k, p)
      BY <3>3, <3>4, <3>5, <1>1 DEF Less
    <3> QED BY <1>2, <3>6
  <2> QED BY <2>1, <2>2
<1>3. ASSUME HasPrefix(k, p)
      PROVE  ~Less(k, p)
  <2>1. Len(p) <= Len(k) /\ \A j \in 1..Len(p) : k[j] = p[j]
    BY <1>3, HasPrefixBytes
  <2> QED BY <1>1, <2>1 DEF Less
<1>4. CASE u = <<>> /\ \A j \in 1..Len(p) : p[j] = MaxByte
  <2>1. ~Less(k, p) => HasPrefix(k, p)
    BY <1>1, <1>2, <1>4
  <2> QED BY <1>3, <1>4, <2>1
<1>5. ASSUME NEW i \in 1..Len(p), Len(u) = i, u[i] = p[i] + 1,
             \A j \in 1..i - 1 : u[j] = p[j],
             \A j \in i + 1..Len(p) : p[j] = MaxByte
      PROVE  HasPrefix(k, p) <=> ~Less(k, p) /\ Less(k, u)
  <2>1. ASSUME HasPrefix(k, p)
        PROVE  Less(k, u)
    <3>1. Len(p) <= Len(k) /\ \A j \in 1..Len(p) : k[j] = p[j]
      BY <2>1, HasPrefixBytes
    <3>2. \A j \in 1..i - 1 : j \in DOMAIN k /\ k[j] = u[j]
      BY <1>1, <1>5, <3>1
    <3>3. k[i] < u[i] /\ i \in 1..Len(u)
      BY <1>1, <1>5, <3>1
    <3> QED BY <3>2, <3>3 DEF Less
  <2>2. ASSUME ~Less(k, p), Less(k, u)
        PROVE  HasPrefix(k, p)
    <3>1. PICK t \in 1..i : /\ \A j \in 1..t - 1 : j \in DOMAIN k /\ k[j] = u[j]
                            /\ t \in DOMAIN k => k[t] < u[t]
      BY <1>5, <2>2 DEF Less
    <3>2. \A j \in 1..t - 1 : j \in DOMAIN k /\ k[j] = p[j]
      BY <1>1, <1>5, <3>1
    <3>3. t \in 1..Len(p)
      BY <1>1, <1>5, <3>1
    <3>4. t \in DOMAIN k /\ ~(k[t] < p[t])
      BY <2>2, <3>2, <3>3 DEF Less
    <3>5. t = i /\ k[t] = p[t]
      BY <1>1, <1>5, <3>1, <3>3, <3>4
    <3>6. i <= Len(k) /\ \A j \in 1..i : k[j] = p[j]
      BY <1>1, <3>2, <3>4, <3>5
    <3> QED BY <1>1, <1>2, <1>5, <2>2, <3>6
  <2> QED BY <1>3, <2>1, <2>2
<1>6. ASSUME NEW i \in 1..Len(p), Len(u) = i
      PROVE  u # <<>>
  BY <1>1, <1>6
<1> QED BY <1>4, <1>5, <1>6, UpperBoundBytes


----------------------------------------------------------------------------
(* Common prefixes                                                         *)

\* The delimiter occurs in k at i, after the prefix.
Hit(q, k, i) ==
  /\ i \in Len(q.prefix) + 1..Len(k) - Len(q.delimiter) + 1
  /\ \A j \in 1..Len(q.delimiter) : k[i + j - 1] = q.delimiter[j]

\* A query's parameters are strings.
IsQuery(q) == q.prefix \in Strings /\ q.delimiter \in Strings

\* The occurrences the rollup looks for, byte by byte.
LEMMA HitBytes ==
  ASSUME NEW q, IsQuery(q), NEW k \in Strings,
         NEW i \in Len(q.prefix) + 1..Len(k) - Len(q.delimiter) + 1
  PROVE  SubSeq(k, i, i + Len(q.delimiter) - 1) = q.delimiter <=> Hit(q, k, i)
<1> DEFINE d == q.delimiter
           n == Len(q.prefix)
           e == i + Len(d) - 1
           s == SubSeq(k, i, e)
<1>1. /\ n \in Nat /\ Len(d) \in Nat /\ Len(k) \in Nat
      /\ d \in Seq(Bytes)
      /\ \A j \in 1..Len(k) : k[j] \in Bytes
  BY StringBytes DEF IsQuery, Strings
<1>2. i \in n + 1..Len(k) - Len(d) + 1
  OBVIOUS
<1>3. Hit(q, k, i) <=> \A j \in 1..Len(d) : k[i + j - 1] = d[j]
  BY DEF Hit
<1> HIDE DEF d, n
<1>4. i \in Int /\ e \in Int /\ \A j \in i..e : k[j] \in Bytes
  BY <1>1, <1>2
<1>5. e - i + 1 = Len(d) /\ (i <= e <=> Len(d) # 0)
  BY <1>1, <1>2
<1> HIDE DEF e
<1>6. /\ s \in Seq(Bytes)
      /\ Len(s) = IF i <= e THEN e - i + 1 ELSE 0
      /\ \A j \in 1..(e - i + 1) : s[j] = k[i + j - 1]
  BY <1>4, SubSeqProperties
<1> HIDE DEF s
<1>7. Len(s) = Len(d) /\ \A j \in 1..Len(d) : s[j] = k[i + j - 1]
  BY <1>1, <1>5, <1>6
<1>8. s = d <=> \A j \in 1..Len(d) : k[i + j - 1] = d[j]
  <2>1. ASSUME \A j \in 1..Len(d) : k[i + j - 1] = d[j]
        PROVE  s = d
    BY <1>1, <1>6, <1>7, <2>1, SeqEqual
  <2> QED BY <1>7, <2>1
<1> QED BY <1>3, <1>8 DEF s, e, d

\* Rollup: the key up to its first delimiter.
LEMMA RollupCases ==
  ASSUME NEW q, IsQuery(q), NEW k \in Strings
  PROVE  \/ /\ Rollup(q, k) = <<>>
            /\ Len(q.delimiter) = 0 \/ \A i : ~Hit(q, k, i)
         \/ /\ Len(q.delimiter) # 0
            /\ \E i : /\ Hit(q, k, i)
                      /\ \A j : Hit(q, k, j) => i <= j
                      /\ Rollup(q, k) = SubSeq(k, 1, i + Len(q.delimiter) - 1)
<1> DEFINE m == Len(q.delimiter)
           n == Len(q.prefix)
           hits == {i \in n + 1..Len(k) - m + 1 : SubSeq(k, i, i + m - 1) = q.delimiter}
           first == CHOOSE i \in hits : \A j \in hits : i <= j
<1>1. m \in Nat /\ n \in Nat /\ Len(k) \in Nat
  BY StringBytes DEF IsQuery
<1>2. \A i : i \in hits <=> Hit(q, k, i)
  <2>1. ASSUME NEW i \in n + 1..Len(k) - m + 1
        PROVE  SubSeq(k, i, i + m - 1) = q.delimiter <=> Hit(q, k, i)
    BY HitBytes
  <2>2. ASSUME NEW i, Hit(q, k, i)
        PROVE  i \in n + 1..Len(k) - m + 1
    BY <2>2 DEF Hit
  <2> HIDE DEF m, n
  <2> QED BY <2>1, <2>2
<1>3. Rollup(q, k) = IF m = 0 \/ hits = {} THEN <<>> ELSE SubSeq(k, 1, first + m - 1)
  BY DEF Rollup
<1> HIDE DEF m, n
<1>4. hits \in SUBSET Nat
  <2>1. n + 1..Len(k) - m + 1 \subseteq Nat
    BY <1>1
  <2> QED BY <2>1
<1> HIDE DEF hits
<1>5. CASE m = 0 \/ hits = {}
  BY <1>2, <1>3, <1>5 DEF m
<1>6. CASE m # 0 /\ hits # {}
  <2>1. \E i \in hits : \A j \in hits : i <= j
    BY <1>4, <1>6, LeastNumber
  <2>2. first \in hits /\ \A j \in hits : first <= j
    BY <2>1
  <2> HIDE DEF first
  <2> QED BY <1>2, <1>3, <1>6, <2>2 DEF m
<1> QED BY <1>5, <1>6

\* A common prefix begins the key and is not empty.
LEMMA RollupPrefix ==
  ASSUME NEW q, IsQuery(q), NEW k \in Strings, NEW i, Hit(q, k, i), Len(q.delimiter) # 0,
         NEW p, p = SubSeq(k, 1, i + Len(q.delimiter) - 1)
  PROVE  /\ p \in Strings /\ p # <<>>
         /\ HasPrefix(k, p)
         /\ Len(p) = i + Len(q.delimiter) - 1
<1> DEFINE m == Len(q.delimiter)
           n == Len(q.prefix)
           e == i + m - 1
           s == SubSeq(k, 1, e)
<1>1. /\ m \in Nat /\ n \in Nat /\ Len(k) \in Nat
      /\ \A j \in 1..Len(k) : k[j] \in Bytes
  BY StringBytes DEF IsQuery, Strings
<1>2. i \in n + 1..Len(k) - m + 1 /\ m # 0
  BY DEF Hit
<1>3. p = s /\ e = i + Len(q.delimiter) - 1
  OBVIOUS
<1> HIDE DEF m, n
<1>4. e \in 1..Len(k)
  BY <1>1, <1>2
<1> HIDE DEF e
<1>5. e \in Int /\ 1 \in Int /\ \A j \in 1..e : k[j] \in Bytes
  BY <1>1, <1>4
<1>6. /\ s \in Seq(Bytes)
      /\ Len(s) = IF 1 <= e THEN e - 1 + 1 ELSE 0
      /\ \A j \in 1..(e - 1 + 1) : s[j] = k[1 + j - 1]
  BY <1>5, SubSeqProperties
<1> HIDE DEF s
<1>7. Len(s) = e /\ \A j \in 1..e : s[j] = k[j]
  BY <1>1, <1>4, <1>6
<1>8. s \in Strings /\ s # <<>>
  BY <1>1, <1>4, <1>6, <1>7 DEF Strings
<1>9. HasPrefix(k, s)
  BY <1>1, <1>4, <1>7, <1>8, HasPrefixBytes
<1> QED BY <1>3, <1>7, <1>8, <1>9

\* The type of Rollup.
LEMMA RollupType ==
  ASSUME NEW q, IsQuery(q), NEW k \in Strings
  PROVE  /\ Rollup(q, k) \in Strings
         /\ Rollup(q, k) # <<>> => HasPrefix(k, Rollup(q, k))
<1>1. CASE Rollup(q, k) = <<>>
  <2>1. <<>> \in Strings
    BY DEF Strings
  <2> QED BY <1>1, <2>1
<1>2. CASE Rollup(q, k) # <<>>
  BY <1>2, RollupCases, RollupPrefix
<1> QED BY <1>1, <1>2

\* Every key that starts with a common prefix is rolled into it.
LEMMA RollupSame ==
  ASSUME NEW q, IsQuery(q), NEW k \in Strings, NEW l \in Strings, Rollup(q, k) # <<>>,
         HasPrefix(l, Rollup(q, k))
  PROVE  Rollup(q, l) = Rollup(q, k)
<1> DEFINE m == Len(q.delimiter)
           n == Len(q.prefix)
           p == Rollup(q, k)
<1>1. PICK i : /\ m # 0 /\ Hit(q, k, i) /\ \A j : Hit(q, k, j) => i <= j
               /\ p = SubSeq(k, 1, i + m - 1)
  BY RollupCases
<1>2. p \in Strings /\ HasPrefix(k, p) /\ Len(p) = i + m - 1
  BY <1>1, RollupPrefix
<1>3. /\ m \in Nat /\ n \in Nat /\ Len(k) \in Nat /\ Len(l) \in Nat
      /\ i \in n + 1..Len(k) - m + 1
  BY <1>1, StringBytes DEF IsQuery, Hit
<1>4. /\ Len(p) <= Len(l) /\ \A j \in 1..Len(p) : l[j] = p[j]
      /\ Len(p) <= Len(k) /\ \A j \in 1..Len(p) : k[j] = p[j]
  BY <1>2, HasPrefixBytes
<1> HIDE DEF m, n, p
<1>5. \A j \in 1..i + m - 1 : l[j] = k[j]
  BY <1>2, <1>3, <1>4
<1>6. i + m - 1 <= Len(l)
  BY <1>2, <1>3, <1>4
<1>7. ASSUME NEW t \in n + 1..i
      PROVE  Hit(q, l, t) <=> Hit(q, k, t)
  <2>1. \A j \in 1..m : l[t + j - 1] = k[t + j - 1]
    BY <1>3, <1>5, <1>7
  <2>2. t \in n + 1..Len(l) - m + 1 /\ t \in n + 1..Len(k) - m + 1
    BY <1>3, <1>6, <1>7
  <2> QED BY <2>1, <2>2 DEF Hit, m, n
<1>8. Hit(q, l, i) /\ i \in Int
  BY <1>1, <1>3, <1>7
<1>9. PICK h : /\ Hit(q, l, h) /\ \A j : Hit(q, l, j) => h <= j
               /\ Rollup(q, l) = SubSeq(l, 1, h + m - 1)
  BY <1>1, <1>8, RollupCases DEF m
<1>10. h \in n + 1..Len(l) - m + 1 /\ h <= i
  BY <1>8, <1>9 DEF Hit, m, n
<1>11. h = i
  <2>1. h \in n + 1..i
    BY <1>3, <1>10
  <2>2. i <= h
    BY <1>1, <1>7, <1>9, <2>1
  <2> QED BY <1>3, <1>10, <2>2
<1> DEFINE p2 == Rollup(q, l)
<1>12. p2 \in Strings /\ HasPrefix(l, p2) /\ Len(p2) = i + m - 1
  BY <1>1, <1>9, <1>11, RollupPrefix DEF m
<1>13. \A j \in 1..Len(p2) : l[j] = p2[j]
  BY <1>12, HasPrefixBytes
<1> HIDE DEF p2
<1>14. p2 = p
  BY <1>2, <1>3, <1>4, <1>12, <1>13, SeqEqual DEF Strings
<1> QED BY <1>14 DEF p, p2

\* Between two keys rolled into one common prefix, every key is rolled into it.
LEMMA RollupConvex ==
  ASSUME NEW q, IsQuery(q), NEW a \in Strings, NEW b \in Strings, NEW c \in Strings,
         Rollup(q, a) # <<>>, Rollup(q, c) = Rollup(q, a), Less(a, b), Less(b, c)
  PROVE  Rollup(q, b) = Rollup(q, a)
BY RollupType, RollupSame, PrefixConvex


----------------------------------------------------------------------------
(* Tokens, sequences and queries                                           *)

\* A continuation token decodes to the key it was made from; a token that is
\* not one of the server's does not decode.
LEMMA TokenRoundTrip ==
  ASSUME NEW k \in Strings
  PROVE  /\ encodeListToken(k) \in Seq(0..2 * MaxByte + 1)
         /\ IsListToken(encodeListToken(k))
         /\ decodeListToken(encodeListToken(k)) = k
         /\ encodeListToken(k) = <<>> => k = <<>>
<1> DEFINE t == encodeListToken(k)
           d == decodeListToken(t)
<1>1. /\ DOMAIN k = 1..Len(k) /\ Len(k) \in Nat
      /\ \A i \in 1..Len(k) : k[i] \in Nat /\ k[i] <= MaxByte
  BY StringBytes
<1>2. MaxByte \in Nat
  BY ListAssumption
<1>3. DOMAIN t = 1..Len(k) /\ \A i \in 1..Len(k) : t[i] = k[i] + MaxByte + 1
  BY <1>1 DEF encodeListToken
<1>4. \A i \in 1..Len(k) : t[i] \in 0..2 * MaxByte + 1 /\ t[i] > MaxByte
  BY <1>1, <1>2, <1>3
<1>5. t = [i \in 1..Len(k) |-> t[i]]
  BY <1>1, <1>3 DEF encodeListToken
<1> HIDE DEF t
<1> DEFINE B == 0..2 * MaxByte + 1
<1>6. t \in Seq(B)
  <2>1. \A i \in 1..Len(k) : t[i] \in B
    BY <1>4
  <2> HIDE DEF B
  <2> QED BY <1>1, <1>5, <2>1
<1>7. IsListToken(t)
  BY <1>3, <1>4 DEF IsListToken
<1>8. d = [i \in 1..Len(k) |-> t[i] - MaxByte - 1]
  BY <1>3 DEF decodeListToken
<1> HIDE DEF d
<1>9. \A i \in 1..Len(k) : t[i] - MaxByte - 1 = k[i]
  BY <1>1, <1>2, <1>3
<1>10. d = k
  <2>1. k = [i \in 1..Len(k) |-> k[i]]
    BY <1>1 DEF Strings
  <2> QED BY <1>8, <1>9, <2>1
<1>11. t = <<>> => k = <<>>
  BY <1>1, <1>3 DEF Strings
<1> QED BY <1>6, <1>7, <1>10, <1>11 DEF t, d

\* The elements of two sequences in a row.
LEMMA RangeConcat ==
  ASSUME NEW S, NEW s \in Seq(S), NEW t \in Seq(S)
  PROVE  /\ s \o t \in Seq(S)
         /\ Range(s \o t) = Range(s) \cup Range(t)
<1>1. /\ s \o t \in Seq(S) /\ Len(s \o t) = Len(s) + Len(t)
      /\ \A i \in 1..Len(s) + Len(t) :
           (s \o t)[i] = IF i <= Len(s) THEN s[i] ELSE t[i - Len(s)]
  BY ConcatProperties
<1> DEFINE u == s \o t
<1> HIDE DEF u
<1>2. /\ DOMAIN u = 1..Len(s) + Len(t) /\ DOMAIN s = 1..Len(s) /\ DOMAIN t = 1..Len(t)
      /\ Len(s) \in Nat /\ Len(t) \in Nat
  BY <1>1 DEF u
<1>3. ASSUME NEW i \in DOMAIN u
      PROVE  u[i] \in Range(s) \cup Range(t)
  <2>1. CASE i <= Len(s)
    <3>1. i \in DOMAIN s /\ u[i] = s[i]
      BY <1>1, <1>2, <2>1 DEF u
    <3> QED BY <3>1 DEF Range
  <2>2. CASE ~(i <= Len(s))
    <3>1. i - Len(s) \in DOMAIN t /\ u[i] = t[i - Len(s)]
      BY <1>1, <1>2, <2>2 DEF u
    <3> QED BY <3>1 DEF Range
  <2> QED BY <2>1, <2>2
<1>4. ASSUME NEW i \in DOMAIN s
      PROVE  i \in DOMAIN u /\ u[i] = s[i]
  BY <1>1, <1>2 DEF u
<1>5. ASSUME NEW i \in DOMAIN t
      PROVE  Len(s) + i \in DOMAIN u /\ u[Len(s) + i] = t[i]
  BY <1>1, <1>2 DEF u
<1>6. Range(u) = Range(s) \cup Range(t)
  BY <1>3, <1>4, <1>5 DEF Range
<1> QED BY <1>1, <1>6 DEF u

\* Two positions of the same value in two sequences in a row: in one of the
\* two, or one in each.
LEMMA ConcatRepeats ==
  ASSUME NEW S, NEW s \in Seq(S), NEW t \in Seq(S), NEW i \in DOMAIN (s \o t),
         NEW j \in DOMAIN (s \o t), i # j, (s \o t)[i] = (s \o t)[j]
  PROVE  \/ \E a, b \in DOMAIN s : a # b /\ s[a] = s[b] /\ s[a] = (s \o t)[i]
         \/ \E a, b \in DOMAIN t : a # b /\ t[a] = t[b] /\ t[a] = (s \o t)[i]
         \/ (s \o t)[i] \in Range(s) \cap Range(t)
<1>1. /\ s \o t \in Seq(S) /\ Len(s \o t) = Len(s) + Len(t)
      /\ \A l \in 1..Len(s) + Len(t) :
           (s \o t)[l] = IF l <= Len(s) THEN s[l] ELSE t[l - Len(s)]
  BY ConcatProperties
<1> DEFINE u == s \o t
<1> HIDE DEF u
<1>2. /\ DOMAIN u = 1..Len(s) + Len(t) /\ DOMAIN s = 1..Len(s) /\ DOMAIN t = 1..Len(t)
      /\ Len(s) \in Nat /\ Len(t) \in Nat
  BY <1>1 DEF u
<1>3. i \in DOMAIN u /\ j \in DOMAIN u /\ u[i] = u[j]
  BY DEF u
<1>4. \A l \in DOMAIN u : l <= Len(s) => l \in DOMAIN s /\ u[l] = s[l]
  BY <1>1, <1>2 DEF u
<1>5. \A l \in DOMAIN u : ~(l <= Len(s)) => l - Len(s) \in DOMAIN t /\ u[l] = t[l - Len(s)]
  BY <1>1, <1>2 DEF u
<1>6. CASE i <= Len(s) /\ j <= Len(s)
  <2>1. i \in DOMAIN s /\ j \in DOMAIN s /\ s[i] = s[j] /\ s[i] = u[i]
    BY <1>3, <1>4, <1>6
  <2> QED BY <2>1 DEF u
<1>7. CASE ~(i <= Len(s)) /\ ~(j <= Len(s))
  <2>1. /\ i - Len(s) \in DOMAIN t /\ j - Len(s) \in DOMAIN t
        /\ t[i - Len(s)] = t[j - Len(s)] /\ t[i - Len(s)] = u[i]
    BY <1>3, <1>5, <1>7
  <2>2. i - Len(s) # j - Len(s)
    BY <1>2, <1>3
  <2> QED BY <2>1, <2>2 DEF u
<1>8. CASE (i <= Len(s)) # (j <= Len(s))
  <2>1. u[i] \in Range(s) /\ u[i] \in Range(t)
    BY <1>3, <1>4, <1>5, <1>8 DEF Range
  <2> QED BY <2>1 DEF u
<1> QED BY <1>6, <1>7, <1>8

\* Two sequences without repetition and nothing in common.
LEMMA InjectiveConcat ==
  ASSUME NEW S, NEW s \in Seq(S), NEW t \in Seq(S), IsInjective(s), IsInjective(t),
         Range(s) \cap Range(t) = {}
  PROVE  IsInjective(s \o t)
BY ConcatRepeats DEF IsInjective

\* One more element.
LEMMA AppendOne ==
  ASSUME NEW S, NEW s \in Seq(S), NEW x \in S
  PROVE  /\ Append(s, x) \in Seq(S)
         /\ Range(Append(s, x)) = Range(s) \cup {x}
         /\ IsInjective(s) /\ x \notin Range(s) => IsInjective(Append(s, x))
<1>1. /\ Append(s, x) \in Seq(S) /\ DOMAIN Append(s, x) = 1..Len(s) + 1
      /\ DOMAIN s = 1..Len(s) /\ Len(s) \in Nat
  OBVIOUS
<1>2. /\ \A i \in 1..Len(s) : Append(s, x)[i] = s[i]
      /\ Append(s, x)[Len(s) + 1] = x
  OBVIOUS
<1> DEFINE u == Append(s, x)
<1> HIDE DEF u
<1>3. ASSUME NEW i \in DOMAIN u
      PROVE  (i \in DOMAIN s /\ u[i] = s[i]) \/ (i = Len(s) + 1 /\ u[i] = x)
  <2>1. i \in 1..Len(s) + 1
    BY <1>1 DEF u
  <2>2. i \in 1..Len(s) \/ i = Len(s) + 1
    BY <1>1, <2>1
  <2> QED BY <1>1, <1>2, <2>2 DEF u
<1>4. \A i \in DOMAIN s : i \in DOMAIN u /\ u[i] = s[i]
  BY <1>1, <1>2 DEF u
<1>5. Len(s) + 1 \in DOMAIN u /\ u[Len(s) + 1] = x
  BY <1>1, <1>2 DEF u
<1>6. Range(u) = Range(s) \cup {x}
  BY <1>3, <1>4, <1>5 DEF Range
<1>7. IsInjective(s) /\ x \notin Range(s) => IsInjective(u)
  BY <1>3 DEF IsInjective, Range
<1> QED BY <1>1, <1>6, <1>7 DEF u

\* The parameters of a listing.
LEMMA QueryType ==
  ASSUME NEW q \in Queries \cup {NoQuery}
  PROVE  /\ IsQuery(q)
         /\ q.v2 \in BOOLEAN /\ q.start \in Strings
         /\ q.maxKeys \in Nat \ {0}
<1>1. CASE q \in Queries
  <2>1. \A n \in PageSizes : maxKeysOrDefault(n) \in Nat \ {0}
    BY ListAssumption DEF maxKeysOrDefault
  <2>2. q.maxKeys \in Nat \ {0}
    BY <1>1, <2>1 DEF Queries
  <2>3. q.prefix \in Prefixes /\ q.delimiter \in Delimiters /\ q.start \in StartKeys
        /\ q.v2 \in BOOLEAN
    BY <1>1 DEF Queries
  <2>4. Prefixes \cup Delimiters \cup StartKeys \subseteq Strings
    BY ListAssumption
  <2> QED BY <2>2, <2>3, <2>4 DEF IsQuery
<1>2. CASE q = NoQuery
  <2>1. <<>> \in Strings
    BY DEF Strings
  <2> QED BY <1>2, <2>1 DEF NoQuery, IsQuery
<1> QED BY <1>1, <1>2

\* Keys are strings that are not empty.
LEMMA KeyType == \A k \in Keys : k \in Strings /\ k # <<>>
BY ListAssumption


----------------------------------------------------------------------------
(* Type correctness                                                        *)

\* The locals before the first row.
LEMMA NoScanType == NoScan \in Scans
<1>1. <<>> \in Seq(Keys) /\ <<>> \in Seq(Strings)
  OBVIOUS
<1> QED BY <1>1 DEF NoScan, Scans

\* The page with one more result.
LEMMA WithRowFields ==
  ASSUME TypeInv, NEW k \in Keys
  PROVE  /\ WithRow(k) \in Scans
         /\ WithRow(k).rest = scan.rest \ {k}
         /\ WithRow(k).count = scan.count + 1
         /\ WithRow(k).next = k
         /\ Rollup(query, k) = <<>> =>
              /\ WithRow(k).objects = Append(scan.objects, k)
              /\ WithRow(k).prefixes = scan.prefixes
              /\ WithRow(k).seen = scan.seen
         /\ Rollup(query, k) # <<>> =>
              /\ WithRow(k).objects = scan.objects
              /\ WithRow(k).prefixes = Append(scan.prefixes, Rollup(query, k))
              /\ WithRow(k).seen = scan.seen \cup {Rollup(query, k)}
<1> DEFINE cp == Rollup(query, k)
           os == Append(scan.objects, k)
           ps == Append(scan.prefixes, cp)
           r == scan.rest \ {k}
           c == scan.count + 1
           s == scan.seen \cup {cp}
<1>1. scan \in Scans /\ query \in Queries \cup {NoQuery}
  BY DEF TypeInv, TypeOK
<1>2. cp \in Strings
  BY <1>1, QueryType, KeyType, RollupType
<1>3. /\ r \in SUBSET Keys /\ c \in Nat /\ s \in SUBSET Strings
      /\ os \in Seq(Keys) /\ ps \in Seq(Strings)
  <2>1. /\ scan.rest \in SUBSET Keys /\ scan.count \in Nat /\ scan.seen \in SUBSET Strings
        /\ scan.objects \in Seq(Keys) /\ scan.prefixes \in Seq(Strings)
    BY <1>1 DEF Scans
  <2> QED BY <1>2, <2>1, AppendOne
<1>4. CASE cp = <<>>
  <2>1. WithRow(k) = [scan EXCEPT !.rest = r, !.count = c, !.next = k, !.objects = os]
    BY <1>4 DEF WithRow
  <2> HIDE DEF cp, os, r, c
  <2>2. /\ WithRow(k) \in Scans
        /\ WithRow(k).rest = r /\ WithRow(k).count = c /\ WithRow(k).next = k
        /\ WithRow(k).objects = os /\ WithRow(k).prefixes = scan.prefixes
        /\ WithRow(k).seen = scan.seen
    BY <1>1, <1>3, <2>1 DEF Scans
  <2> QED BY <1>4, <2>2 DEF cp, os, r, c
<1>5. CASE cp # <<>>
  <2>1. WithRow(k) = [scan EXCEPT !.rest = r, !.count = c, !.next = k, !.prefixes = ps,
                                  !.seen = s]
    BY <1>5 DEF WithRow
  <2> HIDE DEF cp, ps, r, c, s
  <2>2. /\ WithRow(k) \in Scans
        /\ WithRow(k).rest = r /\ WithRow(k).count = c /\ WithRow(k).next = k
        /\ WithRow(k).objects = scan.objects /\ WithRow(k).prefixes = ps
        /\ WithRow(k).seen = s
    BY <1>1, <1>3, <2>1 DEF Scans
  <2> QED BY <1>5, <2>2 DEF cp, ps, r, c, s
<1> QED BY <1>4, <1>5

\* The conjuncts of TypeInv that a page under way does not touch.
Surroundings ==
  /\ present \subseteq Keys
  /\ query \in Queries \cup {NoQuery}
  /\ cursor \in Seq(0..2 * MaxByte + 1)
  /\ objects \in Seq(Keys)
  /\ prefixes \in Seq(Strings)
  /\ began \cup added \cup removed \subseteq Keys
  /\ disturbances \in 0..MaxDisturbances

\* TypeInv in terms of the record.
LEMMA TypeInvParts ==
  TypeInv <=> /\ Surroundings
              /\ client \in {"idle", "ask", "wait", "done"}
              /\ scan \in Scans
              /\ scan.count \in 0..query.maxKeys
              /\ client # "wait" => scan = NoScan
BY DEF TypeInv, TypeOK, Surroundings, Scans

\* The same after a step.
LEMMA TypeInvNext ==
  ASSUME Surroundings', client' \in {"idle", "ask", "wait", "done"}, scan' \in Scans,
         scan'.count \in 0..query'.maxKeys, client' # "wait" => scan' = NoScan
  PROVE  TypeInv'
BY DEF TypeInv, TypeOK, Surroundings, Scans, NoScan

\* A cursor: none, a key, or a token.
LEMMA CursorType ==
  ASSUME NEW k \in Keys \cup {<<>>}
  PROVE  k \in Seq(0..2 * MaxByte + 1) /\ encodeListToken(k) \in Seq(0..2 * MaxByte + 1)
<1> DEFINE B == 0..2 * MaxByte + 1
<1>1. k \in Strings
  <2>1. <<>> \in Strings
    BY DEF Strings
  <2> QED BY <2>1, KeyType
<1>2. encodeListToken(k) \in Seq(B)
  BY <1>1, TokenRoundTrip
<1>3. \A i \in 1..Len(k) : k[i] \in B
  <2>1. MaxByte \in Nat
    BY ListAssumption
  <2> QED BY <1>1, <2>1, StringBytes
<1>4. k \in Seq(B)
  <2>1. k \in Seq(Bytes) /\ Len(k) \in Nat
    BY <1>1 DEF Strings
  <2> HIDE DEF B
  <2> QED BY <1>3, <2>1
<1> QED BY <1>2, <1>4

\* The client is through with a listing.
LEMMA ForgetType ==
  ASSUME TypeInv, client # "wait", Forget
  PROVE  TypeInv'
<1>1. Surroundings /\ scan \in Scans /\ scan = NoScan
  BY TypeInvParts
<1>2. <<>> \in Seq(0..2 * MaxByte + 1) /\ <<>> \in Seq(Keys) /\ <<>> \in Seq(Strings)
  OBVIOUS
<1>3. 0 \in 0..MaxDisturbances
  BY ListAssumption
<1>4. Surroundings'
  BY <1>1, <1>2, <1>3 DEF Surroundings, Forget
<1>5. scan'.count \in 0..query'.maxKeys
  BY <1>1 DEF Forget, NoScan, NoQuery
<1>6. client' = "idle" /\ scan' = scan
  BY DEF Forget
<1> QED BY <1>1, <1>4, <1>5, <1>6, TypeInvNext

\* TypeInv is inductive.
LEMMA TypeInvStep ==
  ASSUME TypeInv, [Next]_vars
  PROVE  TypeInv'
<1>1. /\ Surroundings /\ client \in {"idle", "ask", "wait", "done"} /\ scan \in Scans
      /\ scan.count \in 0..query.maxKeys
      /\ client # "wait" => scan = NoScan
  BY TypeInvParts
<1>2. query.maxKeys \in Nat \ {0}
  BY <1>1, QueryType DEF Surroundings
<1>3. NoScan \in Scans /\ NoScan.count = 0
  BY NoScanType DEF NoScan
<1>4. ASSUME UNCHANGED <<query, present, cursor, objects, prefixes, history>>
      PROVE  Surroundings'
  BY <1>1, <1>4 DEF Surroundings, history
<1>5. ASSUME NEW q \in Queries, Begin(q)
      PROVE  TypeInv'
  <2>1. StrayToken \in Seq(0..2 * MaxByte + 1) /\ <<>> \in Seq(0..2 * MaxByte + 1)
    BY ListAssumption DEF StrayToken
  <2>2. cursor' \in Seq(0..2 * MaxByte + 1)
    BY <1>5, <2>1 DEF Begin
  <2>3. Surroundings'
    BY <1>1, <1>5, <2>2 DEF Begin, Surroundings
  <2>4. scan' = NoScan /\ client' = "ask" /\ query' = q
    BY <1>1, <1>5 DEF Begin
  <2>5. q.maxKeys \in Nat
    BY QueryType
  <2> QED BY <1>3, <2>3, <2>4, <2>5, TypeInvNext
<1>6. CASE listObjects
  <2> DEFINE s == Selected(query, After(query, cursor))
  <2>1. s \in SUBSET Keys
    BY <1>1 DEF Selected, Surroundings
  <2>2. scan' = [NoScan EXCEPT !.rest = s] /\ client' = "wait"
    BY <1>6 DEF listObjects
  <2> HIDE DEF s
  <2>3. scan' \in Scans /\ scan'.count = 0
    BY <1>3, <2>1, <2>2 DEF Scans
  <2>4. Surroundings' /\ query' = query
    BY <1>4, <1>6 DEF listObjects
  <2> QED BY <1>2, <2>2, <2>3, <2>4, TypeInvNext
<1>7. CASE refuseToken \/ dismiss
  BY <1>7, ForgetType DEF refuseToken, dismiss
<1>8. CASE failPage
  <2>1. disturbances' \in 0..MaxDisturbances
    BY <1>1, <1>8, ListAssumption DEF failPage, Disturb, Surroundings
  <2>2. Surroundings' /\ query' = query
    BY <1>1, <1>8, <2>1 DEF failPage, Surroundings
  <2>3. client' = "ask" /\ scan' = NoScan
    BY <1>8 DEF failPage
  <2> QED BY <1>2, <1>3, <2>2, <2>3, TypeInvNext
<1>9. ASSUME NEW k \in Keys, rollRow(k)
      PROVE  TypeInv'
  <2> DEFINE r == scan.rest \ {k}
  <2>1. r \in SUBSET Keys
    BY <1>1 DEF Scans
  <2>2. scan' = [scan EXCEPT !.rest = r, !.next = k]
    BY <1>9 DEF rollRow
  <2> HIDE DEF r
  <2>3. scan' \in Scans /\ scan'.count = scan.count
    BY <1>1, <2>1, <2>2 DEF Scans
  <2>4. Surroundings' /\ query' = query /\ client' = "wait"
    BY <1>4, <1>9 DEF rollRow
  <2> QED BY <1>1, <2>3, <2>4, TypeInvNext
<1>10. ASSUME NEW k \in Keys, emitRow(k)
       PROVE  TypeInv'
  <2>1. scan' \in Scans /\ scan'.count = scan.count + 1
    BY <1>10, WithRowFields DEF emitRow
  <2>2. scan'.count \in 0..query.maxKeys
    BY <1>1, <1>2, <1>10, <2>1 DEF emitRow
  <2>3. Surroundings' /\ query' = query /\ client' = "wait"
    BY <1>4, <1>10 DEF emitRow
  <2> QED BY <2>1, <2>2, <2>3, TypeInvNext
<1>11. ASSUME Deliver, UNCHANGED <<present, query, history>>, client' \in {"ask", "done"},
              cursor' \in Seq(0..2 * MaxByte + 1)
       PROVE  TypeInv'
  <2>1. /\ scan.objects \in Seq(Keys) /\ scan.prefixes \in Seq(Strings)
        /\ objects \in Seq(Keys) /\ prefixes \in Seq(Strings)
    BY <1>1 DEF Scans, Surroundings
  <2>2. objects' \in Seq(Keys) /\ prefixes' \in Seq(Strings) /\ scan' = NoScan
    BY <1>11, <2>1, RangeConcat DEF Deliver
  <2>3. Surroundings'
    BY <1>1, <1>11, <2>2 DEF Surroundings, history
  <2>4. scan'.count \in 0..query'.maxKeys
    BY <1>2, <1>3, <1>11, <2>2
  <2> QED BY <1>3, <1>11, <2>2, <2>3, <2>4, TypeInvNext
<1>12. ASSUME NEW k \in Keys, truncatePage(k)
       PROVE  TypeInv'
  <2>1. scan.next \in Keys \cup {<<>>}
    BY <1>1 DEF Scans
  <2>2. cursor' \in Seq(0..2 * MaxByte + 1)
    BY <1>12, <2>1, CursorType DEF truncatePage
  <2> QED BY <1>11, <1>12, <2>2 DEF truncatePage
<1>13. CASE lastPage
  <2>1. <<>> \in Seq(0..2 * MaxByte + 1)
    OBVIOUS
  <2> QED BY <1>11, <1>13, <2>1 DEF lastPage
<1>14. ASSUME NEW k \in Keys, createKey(k) \/ deleteKey(k)
       PROVE  TypeInv'
  <2>1. disturbances' \in 0..MaxDisturbances
    BY <1>1, <1>14, ListAssumption DEF createKey, deleteKey, Disturb, Surroundings
  <2>2. Surroundings'
    BY <1>1, <1>14, <2>1 DEF createKey, deleteKey, Surroundings
  <2>3. UNCHANGED <<client, query, scan>>
    BY <1>14 DEF createKey, deleteKey
  <2> QED BY <1>1, <2>2, <2>3, TypeInvNext
<1>15. CASE UNCHANGED vars
  BY <1>15 DEF vars, TypeInv, TypeOK, IsListToken
<1> QED BY <1>5, <1>6, <1>7, <1>8, <1>9, <1>10, <1>12, <1>13, <1>14, <1>15 DEF Next, PageStep

\* TypeInv holds in the initial state.
LEMMA TypeInvInit == Init => TypeInv
<1> SUFFICES ASSUME Init PROVE TypeInv
  OBVIOUS
<1>1. <<>> \in Seq(0..2 * MaxByte + 1) /\ <<>> \in Seq(Keys) /\ <<>> \in Seq(Strings)
  OBVIOUS
<1>2. 0 \in 0..MaxDisturbances
  BY ListAssumption
<1>3. Surroundings
  BY <1>1, <1>2 DEF Init, Surroundings
<1>4. scan \in Scans /\ scan = NoScan /\ scan.count = 0 /\ query.maxKeys = 1 /\ client = "idle"
  BY NoScanType DEF Init, NoScan, NoQuery
<1> QED BY <1>3, <1>4, TypeInvParts

\* A listing is type correct: no page, retry or concurrent change leaves the
\* cursor, the locals of ListObjectsPage or the answers outside their types; in
\* particular no page takes more than maxKeys results.
THEOREM ListingTypeCorrect == Spec => []TypeOK
<1>1. TypeInv => TypeOK
  BY DEF TypeInv
<1> QED BY <1>1, TypeInvInit, TypeInvStep, PTL DEF Spec


----------------------------------------------------------------------------
(* Nothing is listed twice, nothing is left out                            *)

\* The query and the cursor stay: so does what is ahead and what is wanted.
LEMMA SameCursor ==
  ASSUME UNCHANGED <<query, cursor>>
  PROVE  /\ Resumed' <=> Resumed
         /\ Position' = Position
         /\ \A k : (Ahead(k)' <=> Ahead(k)) /\ (Wanted(k)' <=> Wanted(k))
BY DEF Resumed, Position, Ahead, Wanted


\* The types the arguments below use.
LEMMA StateFacts ==
  ASSUME TypeInv
  PROVE  /\ IsQuery(query) /\ query.start \in Strings /\ query.maxKeys \in Nat \ {0}
         /\ present \subseteq Strings /\ began \cup added \subseteq Strings
         /\ Ever \subseteq Keys /\ Ever \subseteq Strings /\ <<>> \notin Ever
         /\ scan.rest \subseteq Keys /\ scan.rest \subseteq Strings
         /\ scan.objects \in Seq(Keys) /\ scan.prefixes \in Seq(Strings)
         /\ scan.next \in Strings
         /\ objects \in Seq(Keys) /\ prefixes \in Seq(Strings)
<1>1. /\ Surroundings /\ scan \in Scans
  BY TypeInvParts
<1>2. IsQuery(query) /\ query.start \in Strings /\ query.maxKeys \in Nat \ {0}
  BY <1>1, QueryType DEF Surroundings
<1>3. Keys \subseteq Strings /\ <<>> \notin Keys /\ <<>> \in Strings
  BY KeyType DEF Strings
<1>4. /\ present \subseteq Keys /\ began \cup added \subseteq Keys
      /\ objects \in Seq(Keys) /\ prefixes \in Seq(Strings)
  BY <1>1 DEF Surroundings
<1>5. /\ scan.rest \subseteq Keys
      /\ scan.objects \in Seq(Keys) /\ scan.prefixes \in Seq(Strings)
      /\ scan.next \in Keys \cup {<<>>}
  BY <1>1 DEF Scans
<1>6. Ever \subseteq Keys
  BY <1>4 DEF Ever
<1> QED BY <1>2, <1>3, <1>4, <1>5, <1>6

\* Two keys are not on both sides of each other.
LEMMA LessAsymmetric ==
  ASSUME NEW a \in Strings, NEW b \in Strings, Less(a, b)
  PROVE  a # b /\ ~Less(b, a)
BY LessIrreflexive, LessTransitive

\* The empty sequence lists nothing.
LEMMA EmptyRange == Range(<<>>) = {} /\ IsInjective(<<>>)
BY DEF Range, IsInjective

\* The delivered pages stay in order when keys come and go.
LEMMA PagesKept ==
  ASSUME PagesOK, UNCHANGED <<query, cursor, objects, prefixes, began>>,
         added \subseteq added', removed \subseteq removed',
         present' \ added' \subseteq present \ added
  PROVE  PagesOK'
<1>1. /\ Resumed' <=> Resumed
      /\ Position' = Position
      /\ \A k : (Ahead(k)' <=> Ahead(k)) /\ (Wanted(k)' <=> Wanted(k))
  BY SameCursor
<1>2. Ever \subseteq Ever'
  BY <1>1 DEF Ever
<1>3. ListedOnce'
  BY DEF PagesOK, ListedOnce
<1>4. \A k \in Range(objects') : /\ k \in Ever' /\ Rollup(query', k) = <<>>
                                 /\ k = Position' \/ Less(k, Position')
  BY <1>1, <1>2 DEF PagesOK
<1>5. \A p \in Range(prefixes') : p # <<>> /\ \E k \in Ever' : Rollup(query', k) = p
  BY <1>2 DEF PagesOK
<1>6. \A k \in present' \ added' :
        Wanted(k)' /\ Ahead(k)' => Rollup(query', k) \notin Range(prefixes')
  BY <1>1 DEF PagesOK
<1>7. \A k \in began' \ removed' :
        Wanted(k)' /\ ~Covered(query', k, Range(objects'), Range(prefixes')) => Ahead(k)'
  BY <1>1 DEF PagesOK
<1>8. query' \in Queries /\ (~Resumed' => objects' = <<>> /\ prefixes' = <<>>)
      /\ (Resumed' => Position' \in Ever')
  BY <1>1, <1>2 DEF PagesOK
<1> QED BY <1>3, <1>4, <1>5, <1>6, <1>7, <1>8 DEF PagesOK

\* The first page of a listing.
LEMMA BeginStep ==
  ASSUME TypeInv, ListInv, NEW q \in Queries, Begin(q)
  PROVE  ListInv'
<1>1. /\ objects' = <<>> /\ prefixes' = <<>> /\ query' = q /\ client' = "ask"
      /\ began' = present' /\ cursor' \in {<<>>} \cup (IF q.v2 THEN {StrayToken} ELSE {})
  BY DEF Begin, ListInv
<1>2. ~IsListToken(StrayToken)
  BY ListAssumption DEF IsListToken, StrayToken
<1>3. ~Resumed'
  BY <1>1, <1>2 DEF Resumed
<1>4. \A k : Ahead(k)'
  BY <1>3 DEF Ahead
<1>5. ListedOnce'
  BY <1>1, EmptyRange DEF ListedOnce
<1>6. Range(objects') = {} /\ Range(prefixes') = {}
  BY <1>1, EmptyRange
<1>7. PagesOK'
  BY <1>1, <1>3, <1>4, <1>5, <1>6 DEF PagesOK
<1>8. History'
  BY <1>1 DEF History
<1> QED BY <1>1, <1>7, <1>8 DEF ListInv, Active

\* The query selects the keys that are wanted and ahead.
LEMMA SelectedRows ==
  ASSUME TypeInv, PagesOK, query.v2 => IsListToken(cursor)
  PROVE  Selected(query, Position) = {k \in present : Wanted(k) /\ Ahead(k)}
<1>1. /\ IsQuery(query) /\ query.start \in Strings /\ present \subseteq Strings
      /\ Ever \subseteq Strings /\ <<>> \notin Ever
  BY StateFacts
<1> SUFFICES ASSUME NEW k \in present
             PROVE  (/\ Position # <<>> => Less(Position, k)
                     /\ query.prefix # <<>> =>
                          /\ ~Less(k, query.prefix)
                          /\ prefixUpperBound(query.prefix) # <<>> =>
                               Less(k, prefixUpperBound(query.prefix)))
                    <=> Wanted(k) /\ Ahead(k)
  BY DEF Selected
<1>2. k \in Strings /\ query.prefix \in Strings
  BY <1>1 DEF IsQuery
<1>3. HasPrefix(k, query.prefix) <=>
        (query.prefix # <<>> =>
           /\ ~Less(k, query.prefix)
           /\ prefixUpperBound(query.prefix) # <<>> =>
                Less(k, prefixUpperBound(query.prefix)))
  <2>1. CASE query.prefix = <<>>
    <3>1. Len(query.prefix) = 0 /\ Len(k) \in Nat
      BY <1>2, <2>1, StringBytes
    <3>2. HasPrefix(k, query.prefix)
      BY <1>2, <3>1, HasPrefixBytes
    <3> QED BY <2>1, <3>2
  <2>2. CASE query.prefix # <<>>
    BY <1>2, <2>2, PrefixRange
  <2> QED BY <2>1, <2>2
<1>4. (Position # <<>> => Less(Position, k))
        <=> (query.start # <<>> => Less(query.start, k)) /\ Ahead(k)
  <2>1. CASE cursor = <<>>
    <3>1. ~Resumed /\ Position = query.start
      BY <2>1 DEF Resumed, Position, After
    <3> QED BY <3>1 DEF Ahead
  <2>2. CASE cursor # <<>>
    <3>1. Resumed /\ Position \in Ever
      BY <2>2 DEF Resumed, PagesOK
    <3>2. Position \in Strings /\ Position # <<>>
      BY <1>1, <3>1
    <3>3. query.start # <<>> => Less(query.start, Position)
      BY <3>1 DEF Ever, Wanted
    <3>4. Less(Position, k) => (query.start # <<>> => Less(query.start, k))
      BY <1>1, <1>2, <3>2, <3>3, LessTransitive
    <3> QED BY <3>1, <3>2, <3>4 DEF Ahead
  <2> QED BY <2>1, <2>2
<1> QED BY <1>3, <1>4 DEF Wanted

\* The query of a page.
LEMMA ListStep ==
  ASSUME TypeInv, ListInv, listObjects
  PROVE  ListInv'
<1>1. /\ client' = "wait" /\ (query.v2 => IsListToken(cursor))
      /\ UNCHANGED <<present, query, cursor, objects, prefixes, began, added, removed>>
      /\ scan' = [NoScan EXCEPT !.rest = Selected(query, Position)]
  BY DEF listObjects, history, Position
<1>2. History /\ PagesOK
  BY DEF ListInv, Active, listObjects
<1>3. PagesOK'
  BY <1>1, <1>2, PagesKept
<1>4. History'
  BY <1>1, <1>2 DEF History
<1>5. /\ scan'.rest = {k \in present : Wanted(k) /\ Ahead(k)}
      /\ scan'.objects = <<>> /\ scan'.prefixes = <<>> /\ scan'.seen = {} /\ scan'.count = 0
      /\ scan'.next = <<>>
  BY <1>1, <1>2, SelectedRows DEF NoScan
<1>6. /\ \A k : (Ahead(k)' <=> Ahead(k)) /\ (Wanted(k)' <=> Wanted(k))
  BY <1>1, SameCursor
<1>7. Ever' = Ever
  BY <1>1, <1>6 DEF Ever
<1>8. RowsOK'
  <2>1. \A k \in scan'.rest : k \in Ever /\ Ahead(k)
    BY <1>2, <1>5 DEF Ever, History
  <2>2. \A k \in scan'.rest \ added : Rollup(query, k) \notin Range(prefixes)
    BY <1>2, <1>5 DEF PagesOK
  <2> QED BY <1>1, <1>5, <1>6, <1>7, <2>1, <2>2 DEF RowsOK
<1>9. ResultsOK'
  BY <1>5, EmptyRange DEF ResultsOK
<1>10. NoneSkipped'
  <2>1. \A k \in present \ added : Wanted(k) /\ Ahead(k) => k \in scan'.rest
    BY <1>5
  <2>2. \A k \in began \ removed :
          Wanted(k) => k \in scan'.rest \/ Covered(query, k, Range(objects), Range(prefixes))
    BY <1>2, <1>5 DEF PagesOK, History
  <2>3. Range(scan'.objects) = {} /\ Range(scan'.prefixes) = {}
    BY <1>5, EmptyRange
  <2>4. \A k \in began' \ removed' :
          Wanted(k)' => \/ k \in scan'.rest
                        \/ Covered(query', k, Range(objects') \cup Range(scan'.objects),
                                              Range(prefixes') \cup Range(scan'.prefixes))
    BY <1>1, <1>6, <2>2, <2>3
  <2> QED BY <1>1, <1>6, <2>1, <2>4 DEF NoneSkipped
<1> QED BY <1>1, <1>3, <1>4, <1>8, <1>9, <1>10 DEF ListInv, Active, PageOK


\* A step of the scan that consumes row k and changes nothing but the locals.
Consumes(k) ==
  /\ client = "wait" /\ client' = "wait"
  /\ NextRow(k)
  /\ scan'.rest = scan.rest \ {k}
  /\ scan'.next = k
  /\ UNCHANGED <<present, query, cursor, objects, prefixes, began, added, removed>>

\* What consuming a row keeps: the rows left come after it, nothing that was
\* there all the time is skipped.
LEMMA ConsumeRow ==
  ASSUME TypeInv, PagesOK, PageOK, NEW k \in Keys, Consumes(k)
  PROVE  /\ RowsOK'
         /\ \A x \in present' \ added' :
              Wanted(x)' /\ Ahead(x)' /\ (scan'.next # <<>> => Less(scan'.next, x))
                => x \in scan'.rest
         /\ \A x \in Range(scan.objects) : Less(x, k)
         /\ \A x \in scan'.rest : Less(k, x)
<1>1. /\ k \in scan.rest /\ \A j \in scan.rest : j = k \/ Less(k, j)
      /\ scan'.rest = scan.rest \ {k} /\ scan'.next = k
      /\ UNCHANGED <<present, query, cursor, objects, prefixes, began, added, removed>>
  BY DEF Consumes, NextRow
<1>2. /\ scan.rest \subseteq Strings /\ Ever \subseteq Strings /\ scan.next \in Strings
      /\ present \subseteq Strings
  BY StateFacts
<1>3. k \in Strings /\ k # <<>>
  BY KeyType
<1>4. \A x : (Ahead(x)' <=> Ahead(x)) /\ (Wanted(x)' <=> Wanted(x))
  BY <1>1, SameCursor
<1>5. Ever' = Ever
  BY <1>1, <1>4 DEF Ever
<1>6. RowsOK /\ ResultsOK /\ NoneSkipped
  BY DEF PageOK
<1>7. \A x \in scan'.rest : Less(k, x)
  BY <1>1
<1>8. scan.next # <<>> => Less(scan.next, k)
  BY <1>1, <1>6 DEF RowsOK
<1>9. RowsOK'
  <2>1. \A x \in scan'.rest : x \in Ever /\ Ahead(x)
    BY <1>1, <1>6 DEF RowsOK
  <2>2. \A x \in scan'.rest \ added : Rollup(query, x) \notin Range(prefixes)
    BY <1>1, <1>6 DEF RowsOK
  <2>3. k \in Ever /\ Ahead(k)
    BY <1>1, <1>6 DEF RowsOK
  <2> QED BY <1>1, <1>3, <1>4, <1>5, <1>7, <2>1, <2>2, <2>3 DEF RowsOK
<1>10. ASSUME NEW x \in present \ added, Wanted(x), Ahead(x), Less(k, x)
       PROVE  x \in scan'.rest
  <2>1. scan.next # <<>> => Less(scan.next, x)
    BY <1>2, <1>3, <1>8, <1>10, LessTransitive
  <2>2. x \in scan.rest
    BY <1>6, <1>10, <2>1 DEF NoneSkipped
  <2>3. x # k
    BY <1>3, <1>10, LessIrreflexive
  <2> QED BY <1>1, <2>2, <2>3
<1>11. ASSUME NEW x \in Range(scan.objects)
       PROVE  Less(x, k)
  <2>1. x \in Ever /\ (x = scan.next \/ Less(x, scan.next))
    BY <1>6 DEF ResultsOK
  <2>2. scan.next # <<>>
    BY <1>6, EmptyRange DEF RowsOK
  <2> QED BY <1>2, <1>3, <1>8, <2>1, <2>2, LessTransitive
<1> QED BY <1>1, <1>3, <1>4, <1>7, <1>9, <1>10, <1>11

\* A row below a common prefix the page already lists.
LEMMA RollStep ==
  ASSUME TypeInv, ListInv, NEW k \in Keys, rollRow(k)
  PROVE  ListInv'
<1>1. History /\ PagesOK /\ PageOK /\ scan \in Scans
  BY TypeInvParts DEF ListInv, Active, rollRow
<1>2. scan' = [scan EXCEPT !.rest = @ \ {k}, !.next = k]
  BY DEF rollRow
<1>3. /\ scan'.rest = scan.rest \ {k} /\ scan'.next = k
      /\ scan'.objects = scan.objects /\ scan'.prefixes = scan.prefixes
      /\ scan'.seen = scan.seen
  BY <1>1, <1>2 DEF Scans
<1>4. Consumes(k)
  BY <1>3 DEF rollRow, Consumes, history
<1>5. /\ RowsOK'
      /\ \A x \in present' \ added' :
           Wanted(x)' /\ Ahead(x)' /\ (scan'.next # <<>> => Less(scan'.next, x))
             => x \in scan'.rest
      /\ \A x \in Range(scan.objects) : Less(x, k)
  BY <1>1, <1>4, ConsumeRow
<1>6. UNCHANGED <<present, query, cursor, objects, prefixes, began, added, removed>>
  BY <1>4 DEF Consumes
<1>7. PagesOK' /\ History'
  BY <1>1, <1>6, PagesKept DEF History
<1>8. \A x : (Ahead(x)' <=> Ahead(x)) /\ (Wanted(x)' <=> Wanted(x))
  BY <1>6, SameCursor
<1>9. Ever' = Ever
  BY <1>6, <1>8 DEF Ever
<1>10. ResultsOK'
  <2>1. ResultsOK
    BY <1>1 DEF PageOK
  <2>2. \A p \in scan.seen : \E x \in Ever : /\ Rollup(query, x) = p
                                             /\ \A j \in scan'.rest : Less(x, j)
    BY <1>3, <2>1 DEF ResultsOK
  <2> QED BY <1>3, <1>5, <1>6, <1>8, <1>9, <2>1, <2>2 DEF ResultsOK
<1>11. ASSUME NEW x \in began \ removed, Wanted(x)
       PROVE  \/ x \in scan'.rest
              \/ Covered(query, x, Range(objects) \cup Range(scan'.objects),
                                   Range(prefixes) \cup Range(scan'.prefixes))
  <2>1. CASE x = k
    <3>1. Rollup(query, k) # <<>> /\ Rollup(query, k) \in scan.seen
      BY DEF rollRow, Emits
    <3>2. Range(scan'.prefixes) = scan.seen
      BY <1>1, <1>3 DEF PageOK, ResultsOK
    <3> QED BY <2>1, <3>1, <3>2 DEF Covered
  <2>2. CASE x # k
    BY <1>1, <1>3, <1>11, <2>2 DEF PageOK, NoneSkipped
  <2> QED BY <2>1, <2>2
<1>12. NoneSkipped'
  BY <1>5, <1>6, <1>8, <1>11 DEF NoneSkipped
<1>13. (query'.v2 => IsListToken(cursor')) /\ client' = "wait"
  BY <1>1, <1>4, <1>6 DEF PageOK, Consumes
<1> QED BY <1>5, <1>7, <1>10, <1>12, <1>13 DEF ListInv, Active, PageOK

\* A new result.
LEMMA EmitStep ==
  ASSUME TypeInv, ListInv, NEW k \in Keys, emitRow(k)
  PROVE  ListInv'
<1>1. History /\ PagesOK /\ PageOK
  BY DEF ListInv, Active, emitRow
<1>2. /\ scan'.rest = scan.rest \ {k}
      /\ scan'.next = k
      /\ Rollup(query, k) = <<>> =>
           /\ scan'.objects = Append(scan.objects, k)
           /\ scan'.prefixes = scan.prefixes
           /\ scan'.seen = scan.seen
      /\ Rollup(query, k) # <<>> =>
           /\ scan'.objects = scan.objects
           /\ scan'.prefixes = Append(scan.prefixes, Rollup(query, k))
           /\ scan'.seen = scan.seen \cup {Rollup(query, k)}
  BY WithRowFields DEF emitRow
<1>3. Consumes(k)
  BY <1>2 DEF emitRow, Consumes, history
<1>4. /\ RowsOK'
      /\ \A x \in present' \ added' :
           Wanted(x)' /\ Ahead(x)' /\ (scan'.next # <<>> => Less(scan'.next, x))
             => x \in scan'.rest
      /\ \A x \in Range(scan.objects) : Less(x, k)
      /\ \A x \in scan'.rest : Less(k, x)
  BY <1>1, <1>3, ConsumeRow
<1>5. UNCHANGED <<present, query, cursor, objects, prefixes, began, added, removed>>
  BY <1>3 DEF Consumes
<1>6. PagesOK' /\ History'
  BY <1>1, <1>5, PagesKept DEF History
<1>7. \A x : (Ahead(x)' <=> Ahead(x)) /\ (Wanted(x)' <=> Wanted(x))
  BY <1>5, SameCursor
<1>8. Ever' = Ever
  BY <1>5, <1>7 DEF Ever
<1>9. k \in scan.rest /\ k \in Ever /\ Ahead(k)
      /\ (k \notin added => Rollup(query, k) \notin Range(prefixes))
  BY <1>1, <1>3 DEF Consumes, NextRow, PageOK, RowsOK
<1>10. ResultsOK /\ scan.objects \in Seq(Keys) /\ scan.prefixes \in Seq(Strings)
       /\ IsQuery(query) /\ k \in Strings
  BY <1>1, StateFacts, KeyType DEF PageOK
<1>11. \A p \in scan.seen : /\ p # <<>>
                            /\ p \in Range(prefixes) => \E x \in added : Rollup(query, x) = p
                            /\ \E x \in Ever : /\ Rollup(query, x) = p
                                               /\ \A j \in scan'.rest : Less(x, j)
  BY <1>2, <1>10 DEF ResultsOK
<1>12. /\ ResultsOK'
       /\ Covered(query, k, Range(scan'.objects), Range(scan'.prefixes))
       /\ Range(scan.objects) \subseteq Range(scan'.objects)
       /\ Range(scan.prefixes) \subseteq Range(scan'.prefixes)
  <2>1. CASE Rollup(query, k) = <<>>
    <3>1. k \notin Range(scan.objects)
      BY <1>4, <1>10, LessIrreflexive
    <3>2. Range(scan'.objects) = Range(scan.objects) \cup {k} /\ IsInjective(scan'.objects)
      <4>1. scan'.objects = Append(scan.objects, k) /\ IsInjective(scan.objects)
        BY <1>2, <1>10, <2>1 DEF ResultsOK
      <4> QED BY <1>10, <3>1, <4>1, AppendOne
    <3>3. Range(scan'.prefixes) = scan.seen /\ scan'.seen = scan.seen
          /\ IsInjective(scan'.prefixes)
      BY <1>2, <1>10, <2>1 DEF ResultsOK
    <3>4. \A x \in Range(scan'.objects) : /\ x \in Ever /\ Rollup(query, x) = <<>> /\ Ahead(x)
                                          /\ x = k \/ Less(x, k)
      BY <1>4, <1>9, <1>10, <2>1, <3>2 DEF ResultsOK
    <3>5. ResultsOK'
      BY <1>2, <1>5, <1>7, <1>8, <1>11, <3>2, <3>3, <3>4 DEF ResultsOK
    <3>6. Covered(query, k, Range(scan'.objects), Range(scan'.prefixes))
      BY <2>1, <3>2 DEF Covered
    <3>7. Range(scan.objects) \subseteq Range(scan'.objects)
          /\ Range(scan.prefixes) \subseteq Range(scan'.prefixes)
      BY <1>10, <3>2, <3>3 DEF ResultsOK
    <3> QED BY <3>5, <3>6, <3>7
  <2>2. CASE Rollup(query, k) # <<>>
    <3> DEFINE cp == Rollup(query, k)
    <3>1. cp \in Strings /\ cp \notin scan.seen
      BY <1>10, <2>2, RollupType DEF emitRow, Emits
    <3>2. Range(scan'.prefixes) = scan.seen \cup {cp} /\ IsInjective(scan'.prefixes)
          /\ scan'.seen = scan.seen \cup {cp}
      <4>1. /\ scan'.prefixes = Append(scan.prefixes, cp) /\ IsInjective(scan.prefixes)
            /\ Range(scan.prefixes) = scan.seen
        BY <1>2, <1>10, <2>2 DEF ResultsOK
      <4>2. scan'.seen = scan.seen \cup {cp}
        BY <1>2, <2>2
      <4> HIDE DEF cp
      <4> QED BY <1>10, <3>1, <4>1, <4>2, AppendOne
    <3>3. \A x \in Range(scan'.objects) : /\ x \in Ever /\ Rollup(query, x) = <<>> /\ Ahead(x)
                                          /\ x = k \/ Less(x, k)
      BY <1>2, <1>4, <1>10, <2>2 DEF ResultsOK
    <3>4. /\ cp # <<>>
          /\ cp \in Range(prefixes) => \E x \in added : Rollup(query, x) = cp
          /\ \E x \in Ever : Rollup(query, x) = cp /\ \A j \in scan'.rest : Less(x, j)
      BY <1>4, <1>9, <2>2
    <3>5. IsInjective(scan'.objects) /\ scan'.objects = scan.objects
      BY <1>2, <1>10, <2>2 DEF ResultsOK
    <3> HIDE DEF cp
    <3>6. ResultsOK'
      BY <1>2, <1>5, <1>7, <1>8, <1>11, <3>2, <3>3, <3>4, <3>5 DEF ResultsOK
    <3>7. Covered(query, k, Range(scan'.objects), Range(scan'.prefixes))
      BY <2>2, <3>2 DEF Covered, cp
    <3>8. Range(scan.objects) \subseteq Range(scan'.objects)
          /\ Range(scan.prefixes) \subseteq Range(scan'.prefixes)
      BY <1>10, <3>2, <3>5 DEF ResultsOK
    <3> QED BY <3>6, <3>7, <3>8
  <2> QED BY <2>1, <2>2
<1>13. ASSUME NEW x \in began \ removed, Wanted(x)
       PROVE  \/ x \in scan'.rest
              \/ Covered(query, x, Range(objects) \cup Range(scan'.objects),
                                   Range(prefixes) \cup Range(scan'.prefixes))
  <2>1. \/ x \in scan.rest
        \/ Covered(query, x, Range(objects) \cup Range(scan.objects),
                             Range(prefixes) \cup Range(scan.prefixes))
    BY <1>1, <1>13 DEF PageOK, NoneSkipped
  <2> QED BY <1>2, <1>12, <2>1 DEF Covered
<1>14. NoneSkipped'
  BY <1>4, <1>5, <1>7, <1>13 DEF NoneSkipped
<1>15. (query'.v2 => IsListToken(cursor')) /\ client' = "wait"
  BY <1>1, <1>3, <1>5 DEF PageOK, Consumes
<1> QED BY <1>4, <1>6, <1>12, <1>14, <1>15 DEF ListInv, Active, PageOK


\* An answer adds the page to what is listed: nothing twice, and nothing that was
\* not asked for.
LEMMA DeliverPage ==
  ASSUME TypeInv, PagesOK, PageOK, Deliver, UNCHANGED <<query, began, added>>
  PROVE  /\ Range(objects') = Range(objects) \cup Range(scan.objects)
         /\ Range(prefixes') = Range(prefixes) \cup scan.seen
         /\ ListedOnce'
<1>1. /\ scan.objects \in Seq(Keys) /\ scan.prefixes \in Seq(Strings)
      /\ objects \in Seq(Keys) /\ prefixes \in Seq(Strings)
      /\ Ever \subseteq Strings
  BY StateFacts
<1>2. objects' = objects \o scan.objects /\ prefixes' = prefixes \o scan.prefixes
  BY DEF Deliver
<1>3. ResultsOK /\ ListedOnce
  BY DEF PageOK, PagesOK
<1>4. Range(scan.prefixes) = scan.seen
  BY <1>3 DEF ResultsOK
<1>5. Range(objects') = Range(objects) \cup Range(scan.objects)
  BY <1>1, <1>2, RangeConcat
<1>6. Range(prefixes') = Range(prefixes) \cup scan.seen
  BY <1>1, <1>2, <1>4, RangeConcat
<1>7. IsInjective(objects')
  <2>1. ASSUME NEW x \in Range(objects) \cap Range(scan.objects)
        PROVE  FALSE
    <3>1. Resumed
      BY EmptyRange DEF PagesOK
    <3>2. x \in Ever /\ (x = Position \/ Less(x, Position)) /\ Position \in Ever
      BY <3>1 DEF PagesOK
    <3>3. Less(Position, x)
      BY <1>3, <3>1 DEF ResultsOK, Ahead
    <3> QED BY <1>1, <3>2, <3>3, LessAsymmetric
  <2>2. IsInjective(objects) /\ IsInjective(scan.objects)
    BY <1>3 DEF ListedOnce, ResultsOK
  <2>3. Range(objects) \cap Range(scan.objects) = {}
    BY <2>1
  <2> QED BY <1>1, <1>2, <2>2, <2>3, InjectiveConcat
<1>8. ASSUME NEW i \in DOMAIN prefixes', NEW j \in DOMAIN prefixes', i # j,
             prefixes'[i] = prefixes'[j]
      PROVE  \E k \in added : Rollup(query, k) = prefixes'[i]
  <2> DEFINE p == prefixes'[i]
  <2>1. \/ \E a, b \in DOMAIN prefixes : a # b /\ prefixes[a] = prefixes[b] /\ prefixes[a] = p
        \/ \E a, b \in DOMAIN scan.prefixes :
             a # b /\ scan.prefixes[a] = scan.prefixes[b] /\ scan.prefixes[a] = p
        \/ p \in Range(prefixes) \cap Range(scan.prefixes)
    BY <1>1, <1>2, <1>8, ConcatRepeats
  <2> HIDE DEF p
  <2>2. CASE \E a, b \in DOMAIN prefixes :
               a # b /\ prefixes[a] = prefixes[b] /\ prefixes[a] = p
    BY <1>3, <2>2 DEF ListedOnce, p
  <2>3. CASE \E a, b \in DOMAIN scan.prefixes :
               a # b /\ scan.prefixes[a] = scan.prefixes[b] /\ scan.prefixes[a] = p
    BY <1>3, <2>3 DEF ResultsOK, IsInjective
  <2>4. CASE p \in Range(prefixes) \cap Range(scan.prefixes)
    BY <1>3, <1>4, <2>4 DEF ResultsOK, p
  <2> QED BY <2>1, <2>2, <2>3, <2>4
<1>9. ListedOnce'
  BY <1>7, <1>8 DEF ListedOnce
<1> QED BY <1>5, <1>6, <1>9

\* The cursor of a truncated answer is the last key consumed, for v1 and v2.
LEMMA NextCursor ==
  ASSUME TypeInv, scan.next # <<>>, query' = query,
         cursor' = IF query.v2 THEN encodeListToken(scan.next) ELSE scan.next
  PROVE  Resumed' /\ Position' = scan.next
<1>1. scan.next \in Strings
  BY StateFacts
<1>2. CASE query.v2
  <2>1. cursor' = encodeListToken(scan.next)
    BY <1>2
  <2>2. cursor' # <<>> /\ IsListToken(cursor') /\ decodeListToken(cursor') = scan.next
    BY <1>1, <2>1, TokenRoundTrip
  <2> QED BY <1>2, <2>2 DEF Resumed, Position, After
<1>3. CASE ~query.v2
  BY <1>3 DEF Resumed, Position, After
<1> QED BY <1>2, <1>3

\* A full page and a new result beyond it.  The keys below the page's common
\* prefixes are all consumed: one of them beyond the new result would put the
\* new result below the same prefix.
LEMMA TruncateStep ==
  ASSUME TypeInv, ListInv, NEW k \in Keys, truncatePage(k)
  PROVE  ListInv'
<1>1. /\ k \in scan.rest /\ \A j \in scan.rest : j = k \/ Less(k, j)
      /\ Emits(k) /\ scan.count = query.maxKeys /\ client = "wait" /\ client' = "ask"
      /\ cursor' = IF query.v2 THEN encodeListToken(scan.next) ELSE scan.next
      /\ Deliver
      /\ UNCHANGED <<present, query, began, added, removed>>
  BY DEF truncatePage, NextRow, history
<1>2. /\ History /\ PagesOK /\ PageOK
  BY <1>1 DEF ListInv, Active
<1>3. RowsOK /\ ResultsOK /\ NoneSkipped
  BY <1>2 DEF PageOK
<1>4. /\ IsQuery(query) /\ query.maxKeys \in Nat \ {0}
      /\ Ever \subseteq Strings /\ scan.rest \subseteq Strings /\ scan.next \in Strings
      /\ present \subseteq Strings
  BY StateFacts
<1>5. scan.next # <<>>
  BY <1>1, <1>3, <1>4 DEF RowsOK
<1>6. /\ scan.next \in Ever /\ Ahead(scan.next)
      /\ \A j \in scan.rest : Less(scan.next, j)
  BY <1>3, <1>5 DEF RowsOK
<1>7. Resumed' /\ Position' = scan.next
  BY <1>1, <1>5, NextCursor
<1>8. \A x : Ahead(x)' <=> Less(scan.next, x)
  BY <1>7 DEF Ahead
<1>9. \A x : Wanted(x)' <=> Wanted(x)
  BY <1>1 DEF Wanted
<1>10. Ever' = Ever
  BY <1>1, <1>9 DEF Ever
<1>11. /\ Range(objects') = Range(objects) \cup Range(scan.objects)
       /\ Range(prefixes') = Range(prefixes) \cup scan.seen
       /\ ListedOnce'
  BY <1>1, <1>2, DeliverPage
<1>12. ASSUME NEW x \in Strings, Less(scan.next, x)
       PROVE  Ahead(x)
  <2>1. Resumed => Less(Position, scan.next) /\ Position \in Strings
    BY <1>2, <1>4, <1>6 DEF Ahead, PagesOK
  <2> QED BY <1>4, <1>12, <2>1, LessTransitive DEF Ahead
<1>13. ASSUME NEW x \in Range(objects')
       PROVE  /\ x \in Ever /\ Rollup(query, x) = <<>>
              /\ x = scan.next \/ Less(x, scan.next)
  <2>1. CASE x \in Range(scan.objects)
    BY <1>3, <2>1 DEF ResultsOK
  <2>2. CASE x \in Range(objects)
    <3>1. Resumed
      BY <1>2, <2>2, EmptyRange DEF PagesOK
    <3>2. /\ x \in Ever /\ Rollup(query, x) = <<>> /\ Position \in Ever
          /\ x = Position \/ Less(x, Position)
      BY <1>2, <2>2, <3>1 DEF PagesOK
    <3>3. Less(Position, scan.next)
      BY <1>6, <3>1 DEF Ahead
    <3> QED BY <1>4, <3>2, <3>3, LessTransitive
  <2> QED BY <1>11, <2>1, <2>2
<1>14. ASSUME NEW p \in Range(prefixes')
       PROVE  p # <<>> /\ \E x \in Ever : Rollup(query, x) = p
  <2>1. CASE p \in Range(prefixes)
    BY <1>2, <2>1 DEF PagesOK
  <2>2. CASE p \in scan.seen
    BY <1>3, <2>2 DEF ResultsOK
  <2> QED BY <1>11, <2>1, <2>2
<1>15. ASSUME NEW x \in present \ added, Wanted(x), Less(scan.next, x)
       PROVE  Rollup(query, x) \notin Range(prefixes')
  <2>1. x \in Strings /\ x \in scan.rest
    BY <1>3, <1>4, <1>12, <1>15 DEF NoneSkipped
  <2>2. Rollup(query, x) \notin Range(prefixes)
    BY <1>3, <1>15, <2>1 DEF RowsOK
  <2>3. ASSUME Rollup(query, x) \in scan.seen
        PROVE  FALSE
    <3>1. PICK y \in Ever : /\ Rollup(query, y) = Rollup(query, x)
                            /\ \A j \in scan.rest : Less(y, j)
      BY <1>3, <2>3 DEF ResultsOK
    <3>2. Rollup(query, y) # <<>>
      BY <1>3, <2>3, <3>1 DEF ResultsOK
    <3>3. k # x
      BY <1>1, <2>3, <3>1, <3>2 DEF Emits
    <3>4. Less(y, k) /\ Less(k, x) /\ y \in Strings /\ k \in Strings
      BY <1>1, <1>4, <2>1, <3>1, <3>3
    <3>5. Rollup(query, k) = Rollup(query, y)
      BY <1>4, <2>1, <3>1, <3>2, <3>4, RollupConvex
    <3> QED BY <1>1, <2>3, <3>1, <3>2, <3>5 DEF Emits
  <2> QED BY <1>11, <2>2, <2>3
<1>16. ASSUME NEW x \in began \ removed, Wanted(x),
              ~Covered(query, x, Range(objects'), Range(prefixes'))
       PROVE  Less(scan.next, x)
  <2>1. Range(scan.prefixes) = scan.seen
    BY <1>3 DEF ResultsOK
  <2>2. x \in scan.rest
    BY <1>3, <1>11, <1>16, <2>1 DEF NoneSkipped
  <2> QED BY <1>6, <2>2
<1>17. query' \in Queries
  BY <1>1, <1>2 DEF PagesOK
<1>18. PagesOK'
  BY <1>1, <1>6, <1>7, <1>8, <1>9, <1>10, <1>11, <1>13, <1>14, <1>15, <1>16, <1>17 DEF PagesOK
<1>19. History'
  BY <1>1, <1>2 DEF History
<1> QED BY <1>1, <1>18, <1>19 DEF ListInv, Active

\* The last page.
LEMMA LastStep ==
  ASSUME TypeInv, ListInv, lastPage
  PROVE  ListInv'
<1>1. /\ client = "wait" /\ client' = "done" /\ scan.rest = {} /\ Deliver
      /\ UNCHANGED <<present, query, began, added, removed>>
  BY DEF lastPage, history
<1>2. PagesOK /\ PageOK
  BY <1>1 DEF ListInv, Active
<1>3. /\ Range(objects') = Range(objects) \cup Range(scan.objects)
      /\ Range(prefixes') = Range(prefixes) \cup scan.seen
      /\ ListedOnce'
  BY <1>1, <1>2, DeliverPage
<1>4. ResultsOK /\ NoneSkipped /\ Range(scan.prefixes) = scan.seen
  BY <1>2 DEF PageOK, ResultsOK
<1>5. \A k \in began \ removed :
        Wanted(k) => Covered(query, k, Range(objects'), Range(prefixes'))
  BY <1>1, <1>3, <1>4 DEF NoneSkipped
<1>6. \A k \in Range(objects') : k \in Ever /\ Rollup(query, k) = <<>>
  BY <1>2, <1>3, <1>4 DEF PagesOK, ResultsOK
<1>7. \A p \in Range(prefixes') : \E k \in Ever : Rollup(query, k) = p
  BY <1>2, <1>3, <1>4 DEF PagesOK, ResultsOK
<1>8. \A k : Wanted(k)' <=> Wanted(k)
  BY <1>1 DEF Wanted
<1>9. CompleteListing'
  BY <1>1, <1>5, <1>6, <1>7, <1>8 DEF CompleteListing, Covered, Ever
<1> QED BY <1>1, <1>3, <1>9 DEF ListInv, Active

\* A key is created or deleted while a listing is under way.
LEMMA DisturbStep ==
  ASSUME TypeInv, ListInv, NEW k \in Keys, createKey(k) \/ deleteKey(k)
  PROVE  ListInv'
<1>1. /\ Active /\ UNCHANGED <<client, query, cursor, scan, objects, prefixes, began>>
      /\ added \subseteq added' /\ removed \subseteq removed'
      /\ present' \ added' \subseteq present \ added
  BY DEF createKey, deleteKey, Active
<1>2. History /\ PagesOK
  BY <1>1 DEF ListInv
<1>3. History'
  <2>1. CASE createKey(k)
    BY <1>2, <2>1 DEF createKey, History
  <2>2. CASE deleteKey(k)
    BY <1>2, <2>2 DEF deleteKey, History
  <2> QED BY <2>1, <2>2
<1>4. PagesOK'
  BY <1>1, <1>2, PagesKept
<1>5. \A x : (Ahead(x)' <=> Ahead(x)) /\ (Wanted(x)' <=> Wanted(x))
  BY <1>1, SameCursor
<1>6. Ever \subseteq Ever'
  BY <1>1, <1>5 DEF Ever
<1>7. ASSUME client = "wait"
      PROVE  PageOK'
  <2>1. RowsOK /\ ResultsOK /\ NoneSkipped /\ (query.v2 => IsListToken(cursor))
    BY <1>7 DEF ListInv, PageOK
  <2>2. RowsOK'
    BY <1>1, <1>5, <1>6, <2>1 DEF RowsOK
  <2>3. ResultsOK'
    BY <1>1, <1>5, <1>6, <2>1 DEF ResultsOK
  <2>4. NoneSkipped'
    BY <1>1, <1>5, <2>1 DEF NoneSkipped
  <2> QED BY <1>1, <2>1, <2>2, <2>3, <2>4 DEF PageOK
<1> QED BY <1>1, <1>3, <1>4, <1>7 DEF ListInv, Active

\* ListInv is inductive, together with the types.
LEMMA ListInvStep ==
  ASSUME TypeInv, ListInv, [Next]_vars
  PROVE  ListInv'
<1>1. ASSUME Forget
      PROVE  ListInv'
  BY <1>1 DEF Forget, ListInv, Active
<1>2. CASE failPage
  <2>1. /\ client' = "ask" /\ History /\ PagesOK
        /\ UNCHANGED <<present, query, cursor, objects, prefixes, began, added, removed>>
    BY <1>2 DEF failPage, ListInv, Active
  <2>2. PagesOK' /\ History'
    BY <2>1, PagesKept DEF History
  <2> QED BY <2>1, <2>2 DEF ListInv, Active
<1>3. CASE UNCHANGED vars
  <2>1. UNCHANGED <<present, client, query, cursor, scan, objects, prefixes, began, added,
                    removed>>
    BY <1>3 DEF vars
  <2>2. \A x : (Ahead(x)' <=> Ahead(x)) /\ (Wanted(x)' <=> Wanted(x))
    BY <2>1, SameCursor
  <2>3. Ever' = Ever
    BY <2>1, <2>2 DEF Ever
  <2>4. Active => History' /\ PagesOK'
    BY <2>1, PagesKept DEF ListInv, History
  <2>5. client = "wait" => PageOK'
    BY <2>1, <2>2, <2>3 DEF ListInv, PageOK, RowsOK, ResultsOK, NoneSkipped
  <2>6. client = "done" => ListedOnce' /\ CompleteListing'
    BY <2>1, <2>2 DEF ListInv, ListedOnce, CompleteListing
  <2> QED BY <2>1, <2>4, <2>5, <2>6 DEF ListInv, Active
<1> QED BY <1>1, <1>2, <1>3, BeginStep, ListStep, RollStep, EmitStep, TruncateStep, LastStep,
           DisturbStep DEF Next, PageStep, refuseToken, dismiss

\* ListInv holds in the initial state, where nobody lists.
LEMMA ListInvInit == Init => ListInv
BY DEF Init, ListInv, Active

\* The properties follow from ListInv, during a listing and between two.
LEMMA ListInvImplies == TypeInv /\ ListInv => ListedOnce /\ CompleteListing
<1> SUFFICES ASSUME TypeInv, ListInv PROVE ListedOnce /\ CompleteListing
  OBVIOUS
<1>1. CASE client = "idle"
  <2>1. objects = <<>> /\ prefixes = <<>>
    BY <1>1 DEF ListInv
  <2> QED BY <1>1, <2>1, EmptyRange DEF ListedOnce, CompleteListing
<1>2. CASE Active
  <2>1. PagesOK
    BY <1>2 DEF ListInv
  <2> QED BY <1>2, <2>1 DEF PagesOK, CompleteListing, Ever, Active
<1>3. CASE client = "done"
  BY <1>3 DEF ListInv
<1> QED BY <1>1, <1>2, <1>3 DEF TypeInv, TypeOK, Active

\* Over all the pages of a listing (ListObjectsPage, NextAfter) no key is listed
\* twice, and a common prefix only when a key below it was created meanwhile.
THEOREM NothingListedTwice == Spec => []ListedOnce
<1>1. TypeInv /\ ListInv => ListedOnce
  BY ListInvImplies
<1> QED BY <1>1, TypeInvInit, TypeInvStep, ListInvInit, ListInvStep, PTL DEF Spec

\* A listing that ends has covered every key that was there all the time and
\* names nothing that was not asked for or never there (listObjects,
\* ListObjectsPage, prefixUpperBound), whatever the page size, the prefix, the
\* delimiter, the retried pages and the keys that come and go meanwhile.
THEOREM ListingIsComplete == Spec => []CompleteListing
<1>1. TypeInv /\ ListInv => CompleteListing
  BY ListInvImplies
<1> QED BY <1>1, TypeInvInit, TypeInvStep, ListInvInit, ListInvStep, PTL DEF Spec
=============================================================================
