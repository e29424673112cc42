------------------------ MODULE PrefetchReaderProofs ------------------------
(***************************************************************************)
(* Proofs about PrefetchReader, for every object size, range, chunk size,  *)
(* number of workers and capacity of the delivery channel: the reader      *)
(* implements ByteStream, and Prime surfaces a failure of chunk 0.         *)
(*                                                                         *)
(* Argument.  The chunks of the range meet at the offsets Bound(0) = start *)
(* .. Bound(NumChunks) = end (PieceFacts).  A chunk is claimed once, held  *)
(* by one worker or in its slot, and passes the drainer in order (FetchInv *)
(* and SlotInv), so that the delivery channel holds the trimmed chunks     *)
(* that follow the consumer's position, without a gap (Flow).              *)
(***************************************************************************)
EXTENDS PrefetchReader, TLAPS

----------------------------------------------------------------------------
(* The inductive invariant                                                 *)

\* Where chunk i begins inside the range, and where the last one ends.
Bound(i) == IF i = 0 THEN range.start
            ELSE IF i = NumChunks THEN range.end ELSE ChunkOffset(i)

\* What the fetch of chunk i returns, and what the drainer makes of it.
Fetched(i) == LET limit == ChunkOffset(i) + ChunkSize IN
              Data(ChunkOffset(i), IF limit > ObjectSize THEN ObjectSize ELSE limit)

Piece(i) == Data(Bound(i), Bound(i + 1))

\* Worker w is between its claim and its send.
Holds(w) == worker[w].pc \in {"check", "fetch", "send"}

\* The drainer has not come to chunk i yet.
Ahead(i) == /\ drainer.pc = "recv" => drainer.i <= i
            /\ drainer.pc = "send" => drainer.i < i

\* A chunk that is held was claimed, by nobody else, is in no slot and has not
\* passed the drainer; it is among the failed ones only with its error in hand.
FetchInv(w) ==
  Holds(w) =>
    /\ worker[w].i \in Chunks
    /\ worker[w].i < idx
    /\ results[worker[w].i] = Nil
    /\ Ahead(worker[w].i)
    /\ worker[w].pc = "send" => worker[w].buf \in {Error, Fetched(worker[w].i)}
    /\ worker[w].i \in failed => worker[w].pc = "send" /\ worker[w].buf = Error
    /\ \A v \in Workers : v # w /\ Holds(v) => worker[v].i # worker[w].i

\* A slot holds the result of its chunk.
SlotInv(i) ==
  /\ results[i] \in {Nil, Error, Fetched(i)}
  /\ results[i] # Nil => i < idx /\ Ahead(i)
  /\ results[i] = Fetched(i) => i \notin failed
  /\ i \in failed => i < idx

\* Nobody will fetch chunk i again, and it did not fail.
Settled(i) == /\ i < idx
              /\ i \notin failed
              /\ \A w \in Workers : Holds(w) => worker[w].i # i

\* The drainer is behind the claims, and it alone closes the channel.
DrainerInv ==
  /\ outClosed <=> drainer.pc = "exit"
  /\ drainer.pc = "recv" => drainer.i <= idx /\ drainer.i <= NumChunks
  /\ drainer.pc = "send" => /\ drainer.i < idx
                            /\ drainer.i \in Chunks
                            /\ drainer.buf \in {Error, Piece(drainer.i)}
                            /\ drainer.buf # Error => drainer.i \notin failed

\* k chunks have left the delivery channel; it holds the next ones, the drainer
\* has the one after them, and it stops early only for an error or a cancellation.
Flow(k) ==
  /\ consumer = "prime" => k = 0
  /\ \A j \in 1..Len(out) : \/ out[j] = Piece(k + j - 1) /\ k + j <= NumChunks
                            \/ out[j] = Error /\ j = Len(out) /\ drainer.pc = "exit"
  /\ drainer.pc # "exit" => drainer.i = k + Len(out)
  /\ drainer.pc = "exit" => \/ cancelled
                            \/ k + Len(out) = NumChunks
                            \/ out # <<>> /\ out[Len(out)] = Error
  /\ ~cur.err
  /\ \/ cur.lo >= cur.hi /\ range.start + Len(delivered) = Bound(k)
     \/ cur.lo < cur.hi /\ range.start + Len(delivered) = cur.lo /\ cur.hi = Bound(k)

\* The consumer: it reads from an open stream and empties a cancelled one; the
\* status line waits for chunk 0.
ConsumerInv ==
  /\ emptying => cancelled /\ consumer \in {"close", "closed"}
  /\ consumer = "closed" => emptying
  /\ consumer = "prime" => ~headers /\ delivered = <<>> /\ cur = Nil
  /\ consumer \in {"prime", "read"} => end = "open" /\ \E k \in 0..NumChunks : Flow(k)
  /\ consumer = "prime" /\ out # <<>> /\ out[1] # Error => Settled(0)
  /\ headers => cancelled \/ NumChunks = 0 \/ Settled(0)

Inv == /\ TypeOK
       /\ \A w \in Workers : FetchInv(w)
       /\ \A i \in Chunks : SlotInv(i)
       /\ DrainerInv
       /\ ConsumerInv

----------------------------------------------------------------------------
(* The chunks of a range                                                   *)

\* Euclidean division by the chunk size.
LEMMA Division ==
  ASSUME NEW C \in Nat, C > 0, NEW n \in Nat
  PROVE  /\ n \div C \in Nat
         /\ n % C \in 0..C - 1
         /\ n = (n \div C) * C + (n % C)
<1>1. n = (n \div C) * C + (n % C)
  BY SMTT(30)
<1>2. n \div C \in Nat /\ n % C \in 0..C - 1
  BY SMT
<1> QED BY <1>1, <1>2

\* A multiple of the chunk size divides back.
LEMMA MultipleDivides ==
  ASSUME NEW C \in Nat, C > 0, NEW q \in Nat
  PROVE  (q * C) \div C = q
OBVIOUS

\* Chunk windows do not overlap.
LEMMA Spacing ==
  ASSUME NEW C \in Nat, C > 0, NEW i \in Nat, NEW j \in Nat, i < j
  PROVE  i * C + C <= j * C /\ i * C \in Nat /\ j * C \in Nat
OBVIOUS

\* The aligned window of a range is a whole number of chunks that covers it: the
\* first chunk holds start, the last one the byte before end.
LEMMA AlignedWindow ==
  ASSUME range \in Ranges, range.start < range.end
  PROVE  /\ AlignedStart \in Nat
         /\ AlignedStart <= range.start /\ range.start < AlignedStart + ChunkSize
         /\ NumChunks \in Nat \ {0}
         /\ range.end <= AlignedStart + NumChunks * ChunkSize
         /\ AlignedStart + NumChunks * ChunkSize < range.end + ChunkSize
<1> DEFINE C == ChunkSize
           s == range.start
           e == range.end
           p == s \div C
           q == e \div C
           m == IF e % C = 0 THEN q ELSE q + 1
<1>1. s \in Nat /\ e \in Nat /\ C \in Nat /\ C > 0 /\ s < e
  BY ReaderAssumption
<1>2. /\ p \in Nat /\ s % C \in 0..C - 1 /\ s = p * C + (s % C)
      /\ q \in Nat /\ e % C \in 0..C - 1 /\ e = q * C + (e % C)
  BY <1>1, Division
<1>3. AlignedStart = p * C /\ p * C \in Nat /\ p * C <= s /\ s < p * C + C
  <2> HIDE DEF C, p
  <2>1. AlignedStart = s - (s % C)
    BY DEF AlignedStart, C
  <2> HIDE DEF s
  <2>2. p * C \in Nat
    BY <1>1, <1>2
  <2> QED BY <1>1, <1>2, <2>1, <2>2
<1>4. AlignedEnd = m * C /\ m \in Nat /\ e <= m * C /\ m * C < e + C
  <2> HIDE DEF C, q
  <2>1. AlignedEnd = IF e % C = 0 THEN e ELSE e + (C - (e % C))
    BY DEF AlignedEnd, C
  <2> HIDE DEF e
  <2>2. q * C \in Nat /\ (q + 1) * C = q * C + C
    BY <1>1, <1>2
  <2> QED BY <1>1, <1>2, <2>1, <2>2
<1>5. p < m
  <2> HIDE DEF C, p, m, s, e
  <2>1. p * C < m * C
    BY <1>1, <1>3, <1>4
  <2> QED BY <1>1, <1>2, <1>4, <2>1, Spacing
<1>6. NumChunks = m - p /\ (m - p) * C = m * C - p * C
  <2>1. NumChunks = (AlignedEnd - AlignedStart) \div C
    BY <1>1 DEF NumChunks
  <2> HIDE DEF C, p, m
  <2>2. (m - p) * C = m * C - p * C
    BY <1>1, <1>2, <1>4
  <2>3. m - p \in Nat
    BY <1>2, <1>4, <1>5
  <2> QED BY <1>1, <1>3, <1>4, <2>1, <2>2, <2>3, MultipleDivides
<1> QED
  <2> HIDE DEF C, p, m, s, e
  <2>1. NumChunks \in Nat \ {0}
    BY <1>2, <1>4, <1>5, <1>6
  <2>2. AlignedStart + NumChunks * C = m * C
    BY <1>1, <1>2, <1>3, <1>4, <1>6
  <2> QED BY <1>1, <1>3, <1>4, <2>1, <2>2 DEF C, s, e

\* The piece of chunk i is the part of its window inside the range; the pieces
\* are not empty, meet at their bounds, and are what trim leaves of the fetch.
LEMMA PieceFacts ==
  ASSUME range \in Ranges, NEW i \in Chunks
  PROVE  /\ i \in Nat /\ i + 1 \in 0..NumChunks
         /\ Bound(i) \in Nat /\ Bound(i + 1) \in Nat
         /\ Bound(i) < Bound(i + 1) /\ Bound(i + 1) <= range.end
         /\ Fetched(i) \in Buffers /\ Fetched(i) # Nil /\ Fetched(i) # Error
         /\ ~Fetched(i).err
         /\ Piece(i) \in Buffers /\ Piece(i) # Error /\ ~Piece(i).err
         /\ trim(Fetched(i)) = Piece(i)
<1> DEFINE C == ChunkSize
           A == AlignedStart
           n == NumChunks
           off == ChunkOffset(i)
           min(x, y) == IF x > y THEN y ELSE x
<1>1. range.start < range.end
  <2> SUFFICES ASSUME range.start >= range.end PROVE FALSE
    BY ReaderAssumption
  <2>1. NumChunks = 0
    BY DEF NumChunks
  <2> QED BY <2>1 DEF Chunks
<1>2. /\ range.start \in Nat /\ range.end \in Nat /\ C \in Nat /\ C > 0
      /\ ObjectSize \in Nat /\ range.end <= ObjectSize
  BY ReaderAssumption
<1>3. /\ A \in Nat /\ A <= range.start /\ range.start < A + C
      /\ n \in Nat \ {0} /\ range.end <= A + n * C /\ A + n * C < range.end + C
  BY <1>1, AlignedWindow
<1>4. i \in Nat /\ i < n
  BY <1>3 DEF Chunks
<1> HIDE DEF n, C, A
<1>5. i * C + C <= n * C /\ i * C \in Nat /\ n * C \in Nat
  BY <1>2, <1>3, <1>4, Spacing
<1>6. off = A + i * C /\ ChunkOffset(i + 1) = off + C
  <2>1. ChunkOffset(i + 1) = A + (i + 1) * C
    BY DEF ChunkOffset, A, C
  <2>2. off = A + i * C
    BY DEF ChunkOffset, A, C
  <2>3. (i + 1) * C = i * C + C
    BY <1>2, <1>4
  <2> QED BY <1>2, <1>3, <1>5, <2>1, <2>2, <2>3
<1> HIDE DEF off
<1>7. off \in Nat /\ off < range.end
  BY <1>2, <1>3, <1>5, <1>6
<1>8. Bound(i) = IF off < range.start THEN range.start ELSE off
  <2>1. CASE i = 0
    <3>1. off = A
      BY <1>2, <1>3, <1>6, <2>1
    <3>2. Bound(i) = range.start
      BY <2>1 DEF Bound
    <3> QED BY <1>2, <1>3, <3>1, <3>2
  <2>2. CASE i # 0
    <3>1. C <= i * C
      BY <1>2, <1>4, <2>2
    <3>2. off > range.start
      BY <1>2, <1>3, <1>5, <1>6, <3>1
    <3>3. Bound(i) = off
      BY <1>4, <2>2 DEF Bound, n, off
    <3> QED BY <1>2, <1>7, <3>2, <3>3
  <2> QED BY <2>1, <2>2
<1>9. Bound(i + 1) = IF off + C > range.end THEN range.end ELSE off + C
  <2>1. CASE i + 1 = n
    <3>1. i * C + C = n * C
      BY <1>2, <1>4, <2>1
    <3>2. off + C >= range.end
      BY <1>2, <1>3, <1>5, <1>6, <3>1
    <3>3. Bound(i + 1) = range.end
      BY <1>4, <2>1 DEF Bound, n
    <3> QED BY <1>2, <1>7, <3>2, <3>3
  <2>2. CASE i + 1 # n
    <3>1. i + 1 \in Nat /\ i + 1 < n
      BY <1>3, <1>4, <2>2
    <3>2. (i + 1) * C + C <= n * C /\ (i + 1) * C = i * C + C
      BY <1>2, <1>3, <1>4, <3>1, Spacing
    <3>3. off + C <= range.end
      BY <1>2, <1>3, <1>5, <1>6, <3>2
    <3>4. Bound(i + 1) = off + C
      BY <1>4, <1>6, <3>1 DEF Bound, n
    <3> QED BY <1>2, <1>7, <3>3, <3>4
  <2> QED BY <2>1, <2>2
<1>10. /\ Bound(i) \in Nat /\ Bound(i + 1) \in Nat
       /\ Bound(i) < Bound(i + 1) /\ Bound(i + 1) <= range.end
  BY <1>1, <1>2, <1>3, <1>5, <1>6, <1>7, <1>8, <1>9
<1>11. Fetched(i) = [err |-> FALSE, lo |-> off, hi |-> min(off + C, ObjectSize)]
  BY DEF Fetched, Data, off, C
<1>12. min(off + C, ObjectSize) \in Nat /\ off < min(off + C, ObjectSize)
  BY <1>2, <1>7
<1>13. Piece(i) = [err |-> FALSE, lo |-> Bound(i), hi |-> Bound(i + 1)]
  BY DEF Piece, Data
<1>14. /\ Fetched(i) \in Buffers /\ Fetched(i) # Nil /\ Fetched(i) # Error /\ ~Fetched(i).err
       /\ Fetched(i).lo = off /\ Fetched(i).hi = min(off + C, ObjectSize)
  BY <1>7, <1>11, <1>12 DEF Buffers, Nil, Error
<1>15. Piece(i) \in Buffers /\ Piece(i) # Error /\ ~Piece(i).err
  BY <1>10, <1>13 DEF Buffers, Error
<1>16. trim(Fetched(i)) = Piece(i)
  <2> DEFINE b == Fetched(i)
             lo == IF b.lo < range.start THEN range.start ELSE b.lo
             hi == IF b.hi > range.end THEN range.end ELSE b.hi
  <2>1. lo = Bound(i)
    BY <1>8, <1>14
  <2>2. hi = Bound(i + 1)
    BY <1>2, <1>7, <1>9, <1>14
  <2>3. trim(b) = IF hi <= lo THEN Nil ELSE [err |-> FALSE, lo |-> lo, hi |-> hi]
    BY DEF trim, Data
  <2> HIDE DEF lo, hi
  <2> QED BY <1>10, <1>13, <2>1, <2>2, <2>3
<1> QED
  <2>1. i + 1 \in 0..NumChunks
    BY <1>3, <1>4 DEF n
  <2> QED BY <1>4, <1>10, <1>14, <1>15, <1>16, <2>1

\* The ends of the range, and the type of the bounds.
LEMMA RangeFacts ==
  ASSUME range \in Ranges
  PROVE  /\ NumChunks \in Nat
         /\ range.start \in Nat /\ range.end \in Nat /\ range.start <= range.end
         /\ Bound(0) = range.start /\ Bound(NumChunks) = range.end
         /\ \A k \in 0..NumChunks : Bound(k) \in Nat /\ Bound(k) <= range.end
<1>1. range.start \in Nat /\ range.end \in Nat /\ range.start <= range.end
  BY ReaderAssumption
<1>2. NumChunks \in Nat
  BY <1>1, AlignedWindow DEF NumChunks
<1>3. Bound(0) = range.start
  BY DEF Bound
<1>4. Bound(NumChunks) = range.end
  <2>1. CASE range.start < range.end
    BY <2>1, AlignedWindow DEF Bound
  <2>2. CASE range.start = range.end
    BY <1>1, <2>2 DEF Bound, NumChunks
  <2> QED BY <1>1, <2>1, <2>2
<1>5. ASSUME NEW k \in 0..NumChunks PROVE Bound(k) \in Nat /\ Bound(k) <= range.end
  <2>1. CASE k = NumChunks
    BY <1>1, <1>4, <2>1
  <2>2. CASE k # NumChunks
    <3>1. k \in Chunks
      BY <1>2, <2>2 DEF Chunks
    <3> QED BY <1>1, <3>1, PieceFacts
  <2> QED BY <2>1, <2>2
<1> QED BY <1>1, <1>2, <1>3, <1>4, <1>5

----------------------------------------------------------------------------
(* The steps of the workers                                                *)

\* The range never changes, and with it the chunks and their bounds.
LEMMA RangeKept ==
  ASSUME range' = range
  PROVE  /\ NumChunks' = NumChunks /\ Chunks' = Chunks
         /\ \A i : Bound(i)' = Bound(i) /\ Fetched(i)' = Fetched(i) /\ Piece(i)' = Piece(i)
<1>1. NumChunks' = NumChunks /\ \A i : ChunkOffset(i)' = ChunkOffset(i)
  BY DEF NumChunks, AlignedStart, AlignedEnd, ChunkOffset
<1>2. \A i : Bound(i)' = Bound(i) /\ Fetched(i)' = Fetched(i)
  BY <1>1 DEF Bound, Fetched, Data
<1>3. Chunks' = Chunks
  BY <1>1 DEF Chunks
<1> QED BY <1>1, <1>2, <1>3 DEF Piece, Data

\* The invariant of New: nothing is claimed and everything is empty.
LEMMA InvInit == Init => Inv
<1> SUFFICES ASSUME Init PROVE Inv
  OBVIOUS
<1>1. range \in Ranges
  BY DEF Init
<1>2. NumChunks \in Nat /\ Bound(0) = range.start /\ range.start \in Nat
  BY <1>1, RangeFacts
<1>3. Nil \in Buffers
  BY DEF Nil, Buffers
<1>4. TypeOK
  <2>1. worker \in [Workers -> [pc : {"next", "check", "fetch", "send", "exit"}, i : Nat,
                                buf : Buffers]]
    BY <1>3 DEF Init
  <2>2. results \in [Chunks -> Buffers] /\ cur \in Buffers
        /\ drainer \in [pc : {"recv", "send", "exit"}, i : Nat, buf : Buffers]
    BY <1>3 DEF Init
  <2>3. {outClosed, cancelled, emptying, headers} \subseteq BOOLEAN
    BY DEF Init
  <2>4. out \in Seq(Buffers) /\ Len(out) <= OutBuffers /\ delivered \in Seq(Nat)
    BY ReaderAssumption DEF Init
  <2> QED BY <1>1, <2>1, <2>2, <2>3, <2>4 DEF Init, TypeOK
<1>5. \A w \in Workers : FetchInv(w)
  BY DEF Init, FetchInv, Holds
<1>6. \A i \in Chunks : SlotInv(i)
  BY <1>1, PieceFacts DEF Init, SlotInv
<1>7. DrainerInv
  <2>1. CASE NumChunks = 0
    <3>1. outClosed /\ drainer.pc = "exit"
      BY <2>1 DEF Init
    <3> QED BY <3>1 DEF DrainerInv
  <2>2. CASE NumChunks # 0
    <3>1. ~outClosed /\ drainer.pc = "recv" /\ drainer.i = 0 /\ idx = 0
      BY <2>2 DEF Init
    <3> QED BY <1>2, <3>1 DEF DrainerInv
  <2> QED BY <2>1, <2>2
<1>8. ConsumerInv
  <2>1. Flow(0)
    BY <1>2 DEF Init, Flow, Nil
  <2> QED BY <1>2, <2>1 DEF Init, ConsumerInv
<1> QED BY <1>4, <1>5, <1>6, <1>7, <1>8 DEF Inv

WorkerStates == [pc : {"next", "check", "fetch", "send", "exit"}, i : Nat, buf : Buffers]

\* The end of a fetch: only worker w moves, with its buffer.
LEMMA BufferSet ==
  ASSUME worker \in [Workers -> WorkerStates], NEW w \in Workers, NEW b \in Buffers,
         worker' = [worker EXCEPT ![w].pc = "send", ![w].buf = b]
  PROVE  /\ worker' \in [Workers -> WorkerStates]
         /\ worker'[w].pc = "send" /\ worker'[w].buf = b /\ worker'[w].i = worker[w].i
         /\ \A v \in Workers : v # w => worker'[v] = worker[v]
<1> DEFINE x == worker[w]
           y == [x EXCEPT !.pc = "send"]
           z == [y EXCEPT !.buf = b]
           p == [worker EXCEPT ![w].pc = "send"]
           g == [p EXCEPT ![w].buf = b]
<1>1. x \in WorkerStates
  OBVIOUS
<1>2. y \in WorkerStates /\ y.pc = "send" /\ y.i = x.i
  BY <1>1 DEF WorkerStates
<1>3. p = [worker EXCEPT ![w] = y]
  OBVIOUS
<1> HIDE DEF x, y
<1>4. p \in [Workers -> WorkerStates] /\ p[w] = y /\ \A v \in Workers : v # w => p[v] = worker[v]
  BY <1>2, <1>3
<1>5. worker' = g
  OBVIOUS
<1> HIDE DEF p
<1>6. z \in WorkerStates /\ z.pc = "send" /\ z.buf = b /\ z.i = x.i
  BY <1>2 DEF WorkerStates
<1>7. g = [p EXCEPT ![w] = z]
  BY <1>4
<1> HIDE DEF z
<1>8. g \in [Workers -> WorkerStates] /\ g[w] = z /\ \A v \in Workers : v # w => g[v] = worker[v]
  BY <1>4, <1>6, <1>7
<1> QED BY <1>5, <1>6, <1>8 DEF x

\* What a step of worker w may do: it moves alone, it holds what it held or the
\* chunk it has just claimed, and it touches the slot of no other chunk.
WorkerEffect(w) ==
  /\ UNCHANGED <<shared, drainer, out, outClosed, side>>
  /\ worker' \in [Workers -> WorkerStates]
  /\ \A v \in Workers : v # w => worker'[v] = worker[v]
  /\ idx' \in {idx, idx + 1}
  /\ Holds(w)' => \/ worker'[w].i = idx /\ idx' = idx + 1
                  \/ Holds(w) /\ worker'[w].i = worker[w].i
  /\ results' \in [Chunks -> Buffers]
  /\ failed' \subseteq Chunks
  /\ failed \subseteq failed'
  /\ \A i \in Chunks : results'[i] # results[i] => Holds(w) /\ ~Holds(w)' /\ i = worker[w].i
  /\ \A i \in failed' \ failed : Holds(w) /\ i = worker[w].i

\* The drainer and the consumer do not notice such a step.
LEMMA WorkerElsewhere ==
  ASSUME Inv, NEW w \in Workers, WorkerEffect(w)
  PROVE  TypeOK' /\ DrainerInv' /\ ConsumerInv'
<1>1. TypeOK /\ DrainerInv /\ ConsumerInv
  BY DEF Inv
<1>2. /\ range' = range /\ NumChunks' = NumChunks /\ Chunks' = Chunks
      /\ \A i : Bound(i)' = Bound(i) /\ Piece(i)' = Piece(i)
  BY RangeKept DEF shared, WorkerEffect
<1>3. range \in Ranges /\ NumChunks \in Nat /\ idx \in Nat /\ drainer.i \in Nat
  BY <1>1, RangeFacts DEF TypeOK
<1>4. idx' \in Nat /\ idx' >= idx
  BY <1>3 DEF WorkerEffect
<1>5. DrainerInv'
  <2>1. ASSUME drainer.pc = "send", drainer.i \in failed' PROVE drainer.i \in failed
    <3> SUFFICES ASSUME drainer.i \notin failed PROVE FALSE
      OBVIOUS
    <3>1. Holds(w) /\ worker[w].i = drainer.i
      BY <2>1 DEF WorkerEffect
    <3>2. drainer.i < drainer.i
      BY <2>1, <3>1 DEF Inv, FetchInv, Ahead
    <3> QED BY <1>3, <3>2
  <2> QED BY <1>1, <1>2, <1>3, <1>4, <2>1 DEF DrainerInv, WorkerEffect
<1>6. ASSUME Settled(0) PROVE Settled(0)'
  <2>1. 0 < idx /\ 0 \notin failed /\ \A v \in Workers : Holds(v) => worker[v].i # 0
    BY <1>6 DEF Settled
  <2>2. 0 \notin failed'
    BY <2>1 DEF WorkerEffect
  <2>3. \A v \in Workers : Holds(v)' => worker'[v].i # 0
    BY <1>3, <2>1 DEF WorkerEffect, Holds
  <2> QED BY <1>3, <1>4, <2>1, <2>2, <2>3 DEF Settled
<1>7. \A k : Flow(k) => Flow(k)'
  BY <1>2 DEF Flow, shared, side, WorkerEffect
<1>8. ConsumerInv'
  BY <1>1, <1>2, <1>6, <1>7 DEF ConsumerInv, shared, side, WorkerEffect
<1>9. TypeOK'
  BY <1>1, <1>2, <1>4 DEF TypeOK, shared, side, WorkerStates, WorkerEffect
<1> QED BY <1>5, <1>8, <1>9

\* Nor do the other workers: their chunks are not the one w holds or claims.
LEMMA OtherWorkers ==
  ASSUME Inv, NEW w \in Workers, WorkerEffect(w), NEW v \in Workers, v # w
  PROVE  FetchInv(v)'
<1>1. FetchInv(v) /\ FetchInv(w) /\ (Holds(v)' <=> Holds(v)) /\ worker'[v] = worker[v]
  BY DEF Inv, WorkerEffect, Holds
<1>2. /\ range' = range /\ NumChunks' = NumChunks /\ Chunks' = Chunks
      /\ \A i : Fetched(i)' = Fetched(i)
  BY RangeKept DEF shared, WorkerEffect
<1>3. idx \in Nat /\ idx' \in Nat /\ idx' >= idx /\ \A i \in Chunks : i \in Nat
  BY DEF Inv, TypeOK, WorkerEffect, Chunks
<1> SUFFICES ASSUME Holds(v) PROVE FetchInv(v)'
  BY <1>1 DEF FetchInv
<1>4. worker[v].i \in Chunks /\ worker[v].i < idx /\ (Holds(w) => worker[v].i # worker[w].i)
  BY <1>1 DEF FetchInv
<1>5. results'[worker[v].i] = Nil /\ (worker[v].i \in failed' => worker[v].i \in failed)
  BY <1>1, <1>4 DEF WorkerEffect, FetchInv
<1>6. Ahead(worker[v].i)'
  BY <1>1 DEF FetchInv, Ahead, WorkerEffect
<1>7. ASSUME NEW u \in Workers, u # v, Holds(u)' PROVE worker'[u].i # worker[v].i
  <2>1. CASE u = w
    BY <1>3, <1>4, <1>7, <2>1 DEF WorkerEffect
  <2>2. CASE u # w
    BY <1>1, <1>7, <2>2 DEF WorkerEffect, FetchInv, Holds
  <2> QED BY <2>1, <2>2
<1> QED BY <1>1, <1>2, <1>3, <1>4, <1>5, <1>6, <1>7 DEF FetchInv, WorkerEffect

\* The steps of a worker.
LEMMA WorkerInvStep ==
  ASSUME Inv, NEW w \in Workers, WorkerStep(w)
  PROVE  Inv'
<1>1. /\ TypeOK /\ FetchInv(w) /\ (\A i \in Chunks : SlotInv(i))
      /\ DrainerInv /\ range \in Ranges /\ idx \in Nat
      /\ worker \in [Workers -> WorkerStates] /\ results \in [Chunks -> Buffers]
      /\ failed \subseteq Chunks /\ drainer.i \in Nat
  BY DEF Inv, TypeOK, WorkerStates
<1>2. UNCHANGED <<shared, drainer, out, outClosed, side>>
  BY DEF WorkerStep, claim, checkCancelled, fetch, publish
<1>3. /\ range' = range /\ NumChunks' = NumChunks /\ Chunks' = Chunks
      /\ \A i : Fetched(i)' = Fetched(i)
  BY <1>2, RangeKept DEF shared
<1>4. /\ NumChunks \in Nat /\ Nil \in Buffers /\ Error \in Buffers
      /\ Error # Nil
      /\ \A i \in Chunks : /\ i \in Nat /\ Fetched(i) \in Buffers
                           /\ Fetched(i) # Nil /\ Fetched(i) # Error
  BY <1>1, RangeFacts, PieceFacts DEF Nil, Error, Buffers
<1>5. ASSUME WorkerEffect(w), FetchInv(w)', \A i \in Chunks : SlotInv(i)' PROVE Inv'
  BY <1>3, <1>5, WorkerElsewhere, OtherWorkers DEF Inv
<1>6. \A i : Ahead(i)' <=> Ahead(i)
  BY <1>2 DEF Ahead
<1>7. ASSUME UNCHANGED <<results, failed>>, idx' \in {idx, idx + 1}, NEW i \in Chunks
      PROVE  SlotInv(i)'
  BY <1>1, <1>3, <1>4, <1>6, <1>7 DEF SlotInv
<1>8. CASE claim(w)
  <2>1. idx' = idx + 1 /\ UNCHANGED <<results, failed>>
    BY <1>8 DEF claim
  <2>2. CASE idx < NumChunks
    <3>1. worker' = [worker EXCEPT ![w] = [pc |-> "check", i |-> idx, buf |-> Nil]]
      BY <1>8, <2>2 DEF claim
    <3>2. worker' \in [Workers -> WorkerStates] /\ worker'[w].pc = "check" /\ worker'[w].i = idx
          /\ \A v \in Workers : v # w => worker'[v] = worker[v]
      BY <1>1, <1>4, <3>1 DEF WorkerStates
    <3>3. WorkerEffect(w)
      BY <1>1, <1>2, <2>1, <3>2 DEF WorkerEffect
    <3>4. idx \in Chunks
      BY <1>1, <1>4, <2>2 DEF Chunks
    <3>5. results[idx] = Nil /\ idx \notin failed /\ Ahead(idx)
      BY <1>1, <3>4 DEF SlotInv, DrainerInv, Ahead
    <3>6. ASSUME NEW v \in Workers, v # w, Holds(v)' PROVE worker'[v].i # idx
      BY <1>1, <3>2, <3>6 DEF Inv, FetchInv, Holds
    <3>7. FetchInv(w)'
      BY <1>1, <1>3, <1>6, <2>1, <3>2, <3>4, <3>5, <3>6 DEF FetchInv
    <3> QED BY <1>5, <1>7, <2>1, <3>3, <3>7
  <2>3. CASE ~(idx < NumChunks)
    <3>1. worker' = [worker EXCEPT ![w] = [pc |-> "exit", i |-> 0, buf |-> Nil]]
      BY <1>8, <2>3 DEF claim
    <3>2. worker' \in [Workers -> WorkerStates] /\ worker'[w].pc = "exit"
          /\ \A v \in Workers : v # w => worker'[v] = worker[v]
      BY <1>1, <1>4, <3>1 DEF WorkerStates
    <3>3. WorkerEffect(w) /\ FetchInv(w)'
      BY <1>1, <1>2, <2>1, <3>2 DEF WorkerEffect, FetchInv, Holds
    <3> QED BY <1>5, <1>7, <2>1, <3>3
  <2> QED BY <2>2, <2>3
<1>9. ASSUME Holds(w), UNCHANGED <<idx, results>>, worker' \in [Workers -> WorkerStates],
             \A v \in Workers : v # w => worker'[v] = worker[v],
             worker'[w].i = worker[w].i, worker'[w].pc \in {"fetch", "send"},
             worker'[w].pc = "send" => worker'[w].buf \in {Error, Fetched(worker[w].i)},
             worker[w].i \notin failed,
             \/ UNCHANGED failed
             \/ /\ failed' = failed \cup {worker[w].i}
                /\ worker'[w].pc = "send" /\ worker'[w].buf = Error
      PROVE  Inv'
  <2>1. worker[w].i \in Chunks /\ worker[w].i < idx /\ results[worker[w].i] = Nil
        /\ Ahead(worker[w].i)
    BY <1>1, <1>9 DEF FetchInv
  <2>2. WorkerEffect(w)
    BY <1>1, <1>2, <1>9, <2>1 DEF WorkerEffect, Holds
  <2>3. ASSUME NEW v \in Workers, v # w, Holds(v)' PROVE worker'[v].i # worker'[w].i
    BY <1>1, <1>9, <2>3 DEF FetchInv, Holds
  <2>4. FetchInv(w)'
    BY <1>1, <1>3, <1>6, <1>9, <2>1, <2>3 DEF FetchInv
  <2>5. ASSUME NEW i \in Chunks PROVE SlotInv(i)'
    BY <1>1, <1>3, <1>4, <1>6, <1>9, <2>1, <2>5 DEF SlotInv
  <2> QED BY <1>5, <2>2, <2>4, <2>5
<1>10. ASSUME Holds(w), UNCHANGED <<idx, failed>>, worker' \in [Workers -> WorkerStates],
              \A v \in Workers : v # w => worker'[v] = worker[v],
              worker'[w].pc \in {"next", "exit"},
              \/ UNCHANGED results
              \/ results' = [results EXCEPT ![worker[w].i] = Error]
              \/ /\ results' = [results EXCEPT ![worker[w].i] = worker[w].buf]
                 /\ worker[w].pc = "send"
       PROVE  Inv'
  <2>1. /\ worker[w].i \in Chunks /\ worker[w].i < idx /\ Ahead(worker[w].i)
        /\ worker[w].pc = "send" => /\ worker[w].buf \in {Error, Fetched(worker[w].i)}
                                    /\ worker[w].i \in failed => worker[w].buf = Error
    BY <1>1, <1>10 DEF FetchInv
  <2>2. /\ results' \in [Chunks -> Buffers]
        /\ \A i \in Chunks : i # worker[w].i => results'[i] = results[i]
        /\ \/ results'[worker[w].i] \in {results[worker[w].i], Error}
           \/ /\ worker[w].pc = "send"
              /\ results'[worker[w].i] = worker[w].buf
    BY <1>1, <1>4, <1>10, <2>1
  <2>3. WorkerEffect(w) /\ FetchInv(w)'
    BY <1>1, <1>2, <1>10, <2>1, <2>2 DEF WorkerEffect, Holds, FetchInv
  <2>4. ASSUME NEW i \in Chunks PROVE SlotInv(i)'
    <3>1. SlotInv(i) /\ Fetched(i) # Error
      BY <1>1, <1>4
    <3>2. CASE i = worker[w].i
      BY <1>3, <1>6, <1>10, <2>1, <2>2, <3>1, <3>2 DEF SlotInv
    <3>3. CASE i # worker[w].i
      BY <1>3, <1>6, <1>10, <2>2, <3>1, <3>3 DEF SlotInv
    <3> QED BY <3>2, <3>3
  <2> QED BY <1>5, <2>3, <2>4
<1>11. CASE checkCancelled(w)
  <2>1. worker[w].pc = "check" /\ Holds(w) /\ UNCHANGED <<idx, failed>>
    BY <1>11 DEF checkCancelled, Holds
  <2>2. CASE cancelled
    <3>1. /\ worker' = [worker EXCEPT ![w] = [pc |-> "exit", i |-> 0, buf |-> Nil]]
          /\ results' = results \/ results' = [results EXCEPT ![worker[w].i] = Error]
      BY <1>11, <2>2 DEF checkCancelled
    <3>2. worker' \in [Workers -> WorkerStates] /\ worker'[w].pc = "exit"
          /\ \A v \in Workers : v # w => worker'[v] = worker[v]
      BY <1>1, <1>4, <3>1 DEF WorkerStates
    <3> QED BY <1>10, <2>1, <3>1, <3>2
  <2>3. CASE ~cancelled
    <3>1. worker' = [worker EXCEPT ![w].pc = "fetch"] /\ UNCHANGED results
      BY <1>11, <2>3 DEF checkCancelled
    <3>2. /\ worker' \in [Workers -> WorkerStates] /\ worker'[w].pc = "fetch"
          /\ worker'[w].i = worker[w].i
          /\ \A v \in Workers : v # w => worker'[v] = worker[v]
      <4> DEFINE x == worker[w]
                 y == [x EXCEPT !.pc = "fetch"]
      <4>1. x \in WorkerStates
        BY <1>1
      <4>2. worker' = [worker EXCEPT ![w] = y]
        BY <3>1
      <4> HIDE DEF x
      <4>3. y \in WorkerStates /\ y.pc = "fetch" /\ y.i = x.i
        BY <4>1 DEF WorkerStates
      <4> HIDE DEF y
      <4> QED BY <1>1, <4>2, <4>3 DEF x
    <3>3. worker[w].i \notin failed
      BY <1>1, <2>1 DEF FetchInv
    <3> QED BY <1>9, <2>1, <3>1, <3>2, <3>3
  <2> QED BY <2>2, <2>3
<1>12. CASE fetch(w)
  <2>1. worker[w].pc = "fetch" /\ Holds(w) /\ UNCHANGED <<idx, results>>
    BY <1>12 DEF fetch, Holds
  <2>2. worker[w].i \in Chunks /\ worker[w].i \notin failed
    BY <1>1, <2>1 DEF FetchInv
  <2>3. \/ /\ worker' = [worker EXCEPT ![w].pc = "send", ![w].buf = Fetched(worker[w].i)]
           /\ UNCHANGED failed
        \/ /\ worker' = [worker EXCEPT ![w].pc = "send", ![w].buf = Error]
           /\ failed' = failed \cup {worker[w].i}
    BY <1>12 DEF fetch, Fetched
  <2>4. PICK b \in {Error, Fetched(worker[w].i)} :
          /\ worker' = [worker EXCEPT ![w].pc = "send", ![w].buf = b]
          /\ UNCHANGED failed \/ (failed' = failed \cup {worker[w].i} /\ b = Error)
    BY <2>3
  <2>5. b \in Buffers
    BY <1>4, <2>2
  <2>6. /\ worker' \in [Workers -> WorkerStates]
        /\ worker'[w].pc = "send" /\ worker'[w].buf = b /\ worker'[w].i = worker[w].i
        /\ \A v \in Workers : v # w => worker'[v] = worker[v]
    <3>1. worker \in [Workers -> WorkerStates]
      BY <1>1
    <3>2. worker' = [worker EXCEPT ![w].pc = "send", ![w].buf = b]
      BY <2>4
    <3> QED BY <2>5, <3>1, <3>2, BufferSet
  <2> QED BY <1>9, <2>1, <2>2, <2>4, <2>6
<1>13. CASE publish(w)
  <2>1. worker[w].pc = "send" /\ Holds(w) /\ UNCHANGED <<idx, failed>>
    BY <1>13 DEF publish, Holds
  <2>2. PICK p \in {"next", "exit"} :
          worker' = [worker EXCEPT ![w] = [pc |-> p, i |-> 0, buf |-> Nil]]
    BY <1>13 DEF publish
  <2>3. worker' \in [Workers -> WorkerStates] /\ worker'[w].pc = p
        /\ \A v \in Workers : v # w => worker'[v] = worker[v]
    BY <1>1, <1>4, <2>2 DEF WorkerStates
  <2>4. results' = results \/ results' = [results EXCEPT ![worker[w].i] = worker[w].buf]
    BY <1>13 DEF publish
  <2> QED BY <1>10, <2>1, <2>3, <2>4
<1> QED BY <1>8, <1>11, <1>12, <1>13 DEF WorkerStep

----------------------------------------------------------------------------
(* The steps of the drainer                                                *)

\* A step that leaves the workers, the slots and their chunks alone.
LEMMA FetchKept ==
  ASSUME Inv, UNCHANGED <<range, idx, worker, failed>>, results' \in [Chunks -> Buffers],
         \A i \in Chunks : /\ results'[i] \in {results[i], Nil}
                           /\ Ahead(i) /\ results'[i] # Nil => Ahead(i)',
         \A w \in Workers : Holds(w) /\ Ahead(worker[w].i) => Ahead(worker[w].i)'
  PROVE  (\A w \in Workers : FetchInv(w)') /\ (\A i \in Chunks' : SlotInv(i)')
<1>1. /\ NumChunks' = NumChunks /\ Chunks' = Chunks
      /\ \A i : Fetched(i)' = Fetched(i)
      /\ \A w \in Workers : Holds(w)' <=> Holds(w)
  BY RangeKept DEF Holds
<1>2. ASSUME NEW w \in Workers PROVE FetchInv(w)'
  BY <1>1 DEF Inv, FetchInv
<1>3. ASSUME NEW i \in Chunks PROVE SlotInv(i)'
  <2>1. SlotInv(i) /\ Fetched(i) # Nil
    BY PieceFacts DEF Inv, TypeOK
  <2> QED BY <1>1, <2>1 DEF SlotInv
<1> QED BY <1>1, <1>2, <1>3

\* The drainer.
LEMMA DrainerInvStep ==
  ASSUME Inv, DrainerStep
  PROVE  Inv'
<1>1. /\ TypeOK /\ (\A w \in Workers : FetchInv(w)) /\ (\A i \in Chunks : SlotInv(i))
      /\ DrainerInv /\ ConsumerInv
      /\ range \in Ranges /\ idx \in Nat /\ results \in [Chunks -> Buffers]
      /\ drainer \in [pc : {"recv", "send", "exit"}, i : Nat, buf : Buffers]
      /\ drainer.i \in Nat /\ out \in Seq(Buffers) /\ Len(out) <= OutBuffers
      /\ Len(out) \in Nat
  BY DEF Inv, TypeOK
<1>2. /\ range' = range /\ UNCHANGED <<idx, worker, failed, cancelled>>
      /\ UNCHANGED <<consumer, cur, delivered, end, headers, emptying>>
  BY DEF DrainerStep, drainRecv, drainSend, shared, side
<1>3. /\ NumChunks' = NumChunks /\ Chunks' = Chunks
      /\ \A i : Bound(i)' = Bound(i) /\ Piece(i)' = Piece(i)
  BY <1>2, RangeKept
<1>4. /\ NumChunks \in Nat /\ Nil \in Buffers /\ Error \in Buffers /\ Error # Nil
      /\ \A i \in Chunks : /\ i \in Nat /\ Piece(i) \in Buffers /\ Piece(i) # Error
                           /\ ~Piece(i).err
                           /\ Fetched(i) # Nil /\ ~Fetched(i).err
                           /\ trim(Fetched(i)) = Piece(i)
  BY <1>1, RangeFacts, PieceFacts DEF Nil, Error, Buffers
<1>5. Settled(0)' <=> Settled(0)
  BY <1>2 DEF Settled, Holds
<1>6. ASSUME drainer' \in [pc : {"recv", "send", "exit"}, i : Nat, buf : Buffers],
             results' \in [Chunks -> Buffers], out' \in Seq(Buffers),
             Len(out') <= OutBuffers, outClosed' \in BOOLEAN
      PROVE  TypeOK'
  BY <1>1, <1>2, <1>3, <1>6 DEF TypeOK
<1>7. ASSUME \A k \in 0..NumChunks :
               consumer \in {"prime", "read"} /\ Flow(k) => Flow(k)',
             consumer = "prime" /\ out' # <<>> /\ out'[1] # Error => Settled(0)
      PROVE  ConsumerInv'
  BY <1>1, <1>2, <1>3, <1>5, <1>7 DEF ConsumerInv
<1>8. ASSUME drainer.pc # "exit", drainerExit, UNCHANGED <<results, out>>,
             cancelled \/ (drainer.pc = "recv" /\ drainer.i >= NumChunks)
      PROVE  Inv'
  <2>1. /\ drainer' \in [pc : {"recv", "send", "exit"}, i : Nat, buf : Buffers]
        /\ drainer'.pc = "exit" /\ outClosed' = TRUE
    BY <1>4, <1>8 DEF drainerExit
  <2>2. (\A w \in Workers : FetchInv(w)') /\ (\A i \in Chunks' : SlotInv(i)')
    BY <1>1, <1>2, <1>8, <2>1, FetchKept DEF Ahead
  <2>3. DrainerInv'
    BY <2>1 DEF DrainerInv
  <2>4. ASSUME NEW k \in 0..NumChunks, Flow(k) PROVE Flow(k)'
    <3>1. drainer.pc = "recv" => drainer.i <= NumChunks
      BY <1>1 DEF DrainerInv
    <3>2. cancelled \/ k + Len(out) = NumChunks
      BY <1>1, <1>4, <1>8, <2>4, <3>1 DEF Flow
    <3> QED BY <1>2, <1>3, <1>8, <2>1, <2>4, <3>2 DEF Flow
  <2>5. ConsumerInv'
    BY <1>1, <1>7, <1>8, <2>4 DEF ConsumerInv
  <2> QED BY <1>1, <1>6, <1>8, <2>1, <2>2, <2>3, <2>5 DEF Inv
<1>9. CASE drainRecv
  <2>1. drainer.pc = "recv" /\ UNCHANGED out
    BY <1>9 DEF drainRecv
  <2>2. CASE (cancelled \/ drainer.i >= NumChunks) /\ drainerExit /\ UNCHANGED results
    BY <1>8, <2>1, <2>2
  <2> DEFINE b == results[drainer.i]
             c == IF b.err THEN b ELSE trim(b)
  <2>3. CASE /\ drainer.i < NumChunks /\ Full(b)
             /\ drainer' = [drainer EXCEPT !.pc = "send", !.buf = c]
             /\ results' = [results EXCEPT ![drainer.i] = Nil]
             /\ UNCHANGED outClosed
    <3>1. drainer.i \in Chunks /\ SlotInv(drainer.i) /\ b # Nil
      BY <1>1, <1>4, <2>3 DEF Chunks, Full
    <3>2. /\ c \in {Error, Piece(drainer.i)} /\ c \in Buffers
          /\ c # Error => drainer.i \notin failed
      <4>1. b = Error \/ (b = Fetched(drainer.i) /\ drainer.i \notin failed)
        BY <3>1 DEF SlotInv
      <4> QED BY <1>4, <3>1, <4>1 DEF Error
    <3> HIDE DEF c
    <3>3. /\ drainer' \in [pc : {"recv", "send", "exit"}, i : Nat, buf : Buffers]
          /\ drainer'.pc = "send" /\ drainer'.i = drainer.i /\ drainer'.buf = c
      <4> DEFINE y == [drainer EXCEPT !.pc = "send"]
                 z == [y EXCEPT !.buf = c]
      <4>1. /\ y \in [pc : {"recv", "send", "exit"}, i : Nat, buf : Buffers]
            /\ y.pc = "send" /\ y.i = drainer.i
        BY <1>1
      <4>2. drainer' = z
        BY <2>3
      <4> HIDE DEF y
      <4> QED BY <3>2, <4>1, <4>2
    <3>4. drainer.i < idx
      BY <3>1 DEF SlotInv
    <3>5. results' \in [Chunks -> Buffers] /\ results'[drainer.i] = Nil
          /\ \A i \in Chunks : i # drainer.i => results'[i] = results[i]
      BY <1>1, <1>4, <2>3, <3>1
    <3>6. (\A w \in Workers : FetchInv(w)') /\ (\A i \in Chunks' : SlotInv(i)')
      <4>1. ASSUME NEW i \in Chunks, Ahead(i), i # drainer.i PROVE Ahead(i)'
        BY <1>1, <1>4, <2>1, <3>3, <4>1 DEF Ahead
      <4>2. ASSUME NEW w \in Workers, Holds(w) PROVE worker[w].i \in Chunks /\ worker[w].i # drainer.i
        BY <1>1, <3>1, <4>2 DEF FetchInv
      <4> QED BY <1>2, <3>5, <4>1, <4>2, FetchKept
    <3>7. DrainerInv'
      BY <1>1, <1>2, <1>3, <2>1, <2>3, <3>1, <3>2, <3>3, <3>4 DEF DrainerInv
    <3>8. ASSUME NEW k \in 0..NumChunks, Flow(k) PROVE Flow(k)'
      BY <1>2, <1>3, <2>1, <3>3, <3>8 DEF Flow
    <3>9. ConsumerInv'
      BY <1>1, <1>7, <2>1, <3>8 DEF ConsumerInv
    <3>10. TypeOK'
      BY <1>1, <1>6, <2>1, <2>3, <3>3, <3>5 DEF TypeOK
    <3> QED BY <3>6, <3>7, <3>9, <3>10 DEF Inv
  <2> QED BY <1>9, <2>2, <2>3 DEF drainRecv
<1>10. CASE drainSend
  <2>1. drainer.pc = "send" /\ UNCHANGED results
    BY <1>10 DEF drainSend
  <2>2. CASE cancelled /\ drainerExit /\ UNCHANGED out
    BY <1>8, <2>1, <2>2
  <2>3. CASE /\ Len(out) < OutBuffers /\ out' = Append(out, drainer.buf)
             /\ IF drainer.buf.err
                  THEN drainerExit
                  ELSE /\ drainer' = [pc |-> "recv", i |-> drainer.i + 1, buf |-> Nil]
                       /\ UNCHANGED outClosed
    <3>1. /\ drainer.i \in Chunks /\ drainer.i < idx /\ drainer.buf \in {Error, Piece(drainer.i)}
          /\ drainer.buf # Error => drainer.i \notin failed
          /\ drainer.buf.err <=> drainer.buf = Error
          /\ drainer.i < NumChunks
      BY <1>1, <1>4, <2>1 DEF DrainerInv, Error, Chunks
    <3>2. /\ out' \in Seq(Buffers) /\ Len(out') = Len(out) + 1 /\ Len(out') <= OutBuffers
          /\ out'[Len(out) + 1] = drainer.buf /\ out' # <<>>
          /\ \A j \in 1..Len(out) : out'[j] = out[j]
      BY <1>1, <2>3, ReaderAssumption
    <3>3. /\ drainer' \in [pc : {"recv", "send", "exit"}, i : Nat, buf : Buffers]
          /\ outClosed' \in BOOLEAN
          /\ IF drainer.buf = Error
               THEN drainer'.pc = "exit" /\ outClosed' = TRUE
               ELSE drainer'.pc = "recv" /\ drainer'.i = drainer.i + 1 /\ outClosed' = outClosed
      <4>1. outClosed \in BOOLEAN
        BY <1>1 DEF TypeOK
      <4>2. CASE drainer.buf = Error
        <5>1. drainerExit
          BY <2>3, <3>1, <4>2
        <5>2. drainer' = [pc |-> "exit", i |-> 0, buf |-> Nil] /\ outClosed' = TRUE
          BY <5>1 DEF drainerExit
        <5> QED BY <1>4, <4>2, <5>2
      <4>3. CASE drainer.buf # Error
        BY <1>1, <1>4, <2>3, <3>1, <4>1, <4>3
      <4> QED BY <4>2, <4>3
    <3>4. TypeOK'
      BY <1>1, <1>6, <2>1, <3>2, <3>3
    <3>5. (\A w \in Workers : FetchInv(w)') /\ (\A i \in Chunks' : SlotInv(i)')
      <4>1. ASSUME NEW i \in Chunks, Ahead(i) PROVE Ahead(i)'
        BY <1>1, <1>4, <2>1, <3>3, <4>1 DEF Ahead
      <4>2. ASSUME NEW w \in Workers, Holds(w) PROVE worker[w].i \in Chunks
        BY <1>1, <4>2 DEF FetchInv
      <4> QED BY <1>1, <1>2, <2>1, <4>1, <4>2, FetchKept
    <3>6. DrainerInv'
      BY <1>1, <1>2, <1>3, <1>4, <2>1, <3>1, <3>3 DEF DrainerInv
    <3>7. ASSUME NEW k \in 0..NumChunks, Flow(k) PROVE Flow(k)'
      <4>1. k \in Nat /\ drainer.i = k + Len(out)
        BY <1>4, <2>1, <3>7 DEF Flow
      <4>2. ASSUME NEW j \in 1..Len(out')
            PROVE  \/ out'[j] = Piece(k + j - 1) /\ k + j <= NumChunks
                   \/ out'[j] = Error /\ j = Len(out') /\ drainer'.pc = "exit"
        <5>1. CASE j = Len(out) + 1
          <6>1. k + j - 1 = drainer.i /\ k + j <= NumChunks
            BY <1>1, <1>4, <3>1, <4>1, <5>1
          <6> QED BY <3>1, <3>2, <3>3, <5>1, <6>1
        <5>2. CASE j # Len(out) + 1
          <6>1. j \in 1..Len(out)
            BY <1>1, <3>2, <5>2
          <6>2. drainer.pc # "exit"
            BY <2>1
          <6> QED BY <3>2, <3>7, <6>1, <6>2 DEF Flow
        <5> QED BY <5>1, <5>2
      <4>3. drainer'.pc # "exit" => drainer'.i = k + Len(out')
        BY <1>1, <3>2, <3>3, <4>1
      <4>4. drainer'.pc = "exit" => out' # <<>> /\ out'[Len(out')] = Error
        BY <3>2, <3>3
      <4> QED BY <1>2, <1>3, <3>7, <4>2, <4>3, <4>4 DEF Flow
    <3>8. ASSUME consumer = "prime", out'[1] # Error PROVE Settled(0)
      <4>1. CASE out = <<>>
        <5>1. PICK k \in 0..NumChunks : Flow(k)
          BY <1>1, <3>8 DEF ConsumerInv
        <5>2. k = 0 /\ drainer.i = 0
          BY <2>1, <3>8, <4>1, <5>1 DEF Flow
        <5>3. drainer.buf # Error
          BY <3>2, <3>8, <4>1
        <5>4. \A w \in Workers : Holds(w) => worker[w].i # 0
          BY <1>1, <1>4, <2>1, <5>2 DEF FetchInv, Ahead
        <5> QED BY <3>1, <5>2, <5>3, <5>4 DEF Settled
      <4>2. CASE out # <<>>
        <5>1. 1 \in 1..Len(out)
          BY <1>1, <4>2
        <5> QED BY <1>1, <3>2, <3>8, <4>2, <5>1 DEF ConsumerInv
      <4> QED BY <4>1, <4>2
    <3>9. ConsumerInv'
      BY <1>7, <3>7, <3>8
    <3> QED BY <3>4, <3>5, <3>6, <3>9 DEF Inv
  <2> QED BY <1>10, <2>2, <2>3 DEF drainSend
<1> QED BY <1>9, <1>10 DEF DrainerStep

----------------------------------------------------------------------------
(* The steps of the consumer                                               *)

\* Taking a buffer: the channel moves up by one.
LEMMA TakeHead ==
  ASSUME out \in Seq(Buffers), out # <<>>, out' = Tail(out)
  PROVE  /\ out' \in Seq(Buffers) /\ Len(out) \in Nat /\ Len(out') = Len(out) - 1
         /\ Len(out) > 0 /\ Head(out) = out[1] /\ Head(out) \in Buffers
         /\ \A j \in 1..Len(out') : out'[j] = out[j + 1]
OBVIOUS

\* What a step of the consumer may leave to the goroutines.
LEMMA ConsumerElsewhere ==
  ASSUME Inv, UNCHANGED <<range, idx, worker, results, drainer, outClosed, failed>>
  PROVE  /\ \A w \in Workers : FetchInv(w)'
         /\ \A i \in Chunks' : SlotInv(i)'
         /\ DrainerInv'
         /\ Settled(0)' <=> Settled(0)
         /\ NumChunks' = NumChunks
         /\ \A i : Bound(i)' = Bound(i) /\ Piece(i)' = Piece(i)
<1>1. /\ NumChunks' = NumChunks /\ Chunks' = Chunks
      /\ \A i : Bound(i)' = Bound(i) /\ Piece(i)' = Piece(i)
  BY RangeKept
<1>2. (\A w \in Workers : FetchInv(w)') /\ (\A i \in Chunks' : SlotInv(i)')
  BY FetchKept DEF Inv, TypeOK, Ahead
<1>3. DrainerInv'
  BY <1>1 DEF Inv, DrainerInv
<1>4. Settled(0)' <=> Settled(0)
  BY DEF Settled, Holds
<1> QED BY <1>1, <1>2, <1>3, <1>4

\* The consumer takes the next piece: it is chunk k.
LEMMA TakePiece ==
  ASSUME Inv, NEW k \in 0..NumChunks, Flow(k), consumer \in {"prime", "read"},
         out # <<>>, out' = Tail(out), ~Head(out).err, cur' = Head(out), IsEmpty(cur),
         consumer' = "read",
         UNCHANGED <<range, drainer, cancelled, delivered>>
  PROVE  /\ k + 1 \in 0..NumChunks /\ Flow(k + 1)'
         /\ out[1] # Error /\ cur' \in Buffers
         /\ out' \in Seq(Buffers) /\ Len(out') <= OutBuffers
<1>1. /\ out \in Seq(Buffers) /\ Len(out) <= OutBuffers /\ range \in Ranges /\ cur \in Buffers
      /\ drainer.i \in Nat
  BY DEF Inv, TypeOK
<1>2. /\ out' \in Seq(Buffers) /\ Len(out) \in Nat /\ Len(out') = Len(out) - 1
      /\ Len(out) > 0 /\ Head(out) = out[1] /\ Head(out) \in Buffers
      /\ \A j \in 1..Len(out') : out'[j] = out[j + 1]
  BY <1>1, TakeHead
<1>3. NumChunks \in Nat /\ k \in Nat
  BY <1>1, RangeFacts
<1>4. out[1] # Error
  BY <1>2 DEF Error
<1>5. out[1] = Piece(k) /\ k + 1 <= NumChunks
  <2>1. 1 \in 1..Len(out) /\ k + 1 - 1 = k
    BY <1>2, <1>3
  <2> QED BY <1>4, <2>1 DEF Flow
<1>6. k \in Chunks
  BY <1>3, <1>5 DEF Chunks
<1>7. Bound(k) \in Nat /\ Bound(k + 1) \in Nat /\ Bound(k) < Bound(k + 1)
  BY <1>1, <1>6, PieceFacts
<1>8. cur' = [err |-> FALSE, lo |-> Bound(k), hi |-> Bound(k + 1)]
  BY <1>2, <1>5 DEF Piece, Data
<1>9. range.start + Len(delivered) = Bound(k)
  BY <1>1 DEF Flow, IsEmpty, Buffers
<1>10. /\ NumChunks' = NumChunks
       /\ \A i : Bound(i)' = Bound(i) /\ Piece(i)' = Piece(i)
  BY RangeKept
<1> DEFINE L == Len(out)
           M == Len(out')
<1>11. /\ L \in Nat /\ M \in Nat /\ L = M + 1
       /\ \A j \in 1..M : j + 1 \in 1..L /\ out'[j] = out[j + 1]
       /\ \A j \in 1..L : \/ out[j] = Piece(k + j - 1) /\ k + j <= NumChunks
                          \/ out[j] = Error /\ j = L /\ drainer.pc = "exit"
       /\ drainer.pc # "exit" => drainer.i = k + L
       /\ drainer.pc = "exit" => cancelled \/ k + L = NumChunks \/ out[L] = Error
  <2>1. /\ \A j \in 1..L : \/ out[j] = Piece(k + j - 1) /\ k + j <= NumChunks
                           \/ out[j] = Error /\ j = L /\ drainer.pc = "exit"
        /\ drainer.pc # "exit" => drainer.i = k + L
        /\ drainer.pc = "exit" => cancelled \/ k + L = NumChunks \/ out[L] = Error
    BY DEF Flow
  <2>2. L \in Nat /\ M = L - 1 /\ L > 0 /\ \A j \in 1..M : out'[j] = out[j + 1]
    BY <1>2
  <2> HIDE DEF L, M
  <2>3. M \in Nat /\ L = M + 1 /\ \A j \in 1..M : j + 1 \in 1..L
    BY <2>2
  <2> QED BY <2>1, <2>2, <2>3
<1> HIDE DEF L, M
<1>12. ASSUME NEW j \in 1..M
       PROVE  \/ out'[j] = Piece((k + 1) + j - 1) /\ (k + 1) + j <= NumChunks
              \/ out'[j] = Error /\ j = M /\ drainer.pc = "exit"
  <2>1. k + (j + 1) - 1 = (k + 1) + j - 1 /\ k + (j + 1) = (k + 1) + j
        /\ (j + 1 = L => j = M)
    BY <1>3, <1>11
  <2> QED BY <1>11, <2>1
<1>13. /\ drainer.pc # "exit" => drainer.i = (k + 1) + M
       /\ drainer.pc = "exit" => \/ cancelled
                                 \/ (k + 1) + M = NumChunks
                                 \/ out' # <<>> /\ out'[M] = Error
  <2>1. k + L = (k + 1) + M
    BY <1>3, <1>11
  <2>2. ASSUME out[L] = Error PROVE out' # <<>> /\ out'[M] = Error
    <3>1. L # 1
      BY <1>4, <2>2
    <3>2. M \in 1..M /\ M + 1 = L /\ M # 0
      BY <1>11, <3>1
    <3> QED BY <1>2, <1>11, <2>2, <3>2 DEF M
  <2> QED BY <1>11, <2>1, <2>2
<1>14. Flow(k + 1)'
  BY <1>7, <1>8, <1>9, <1>10, <1>12, <1>13, SMTT(60) DEF Flow, M
<1>15. Len(out') <= OutBuffers
  BY <1>1, <1>2, ReaderAssumption
<1> QED BY <1>2, <1>3, <1>4, <1>5, <1>14, <1>15

\* Appending n bytes.
LEMMA BytesAppended ==
  ASSUME NEW s \in Seq(Nat), NEW n \in Nat, NEW t \in [1..n -> Nat]
  PROVE  s \o t \in Seq(Nat) /\ Len(s \o t) = Len(s) + n /\ Len(s) \in Nat
<1>1. t \in Seq(Nat) /\ Len(t) = n
  OBVIOUS
<1> QED BY <1>1, SMTT(30)

\* Prime and Read.
LEMMA ReadInvStep ==
  ASSUME Inv, Prime \/ readNext \/ readBytes
  PROVE  Inv'
<1>1. /\ TypeOK /\ ConsumerInv /\ DrainerInv /\ range \in Ranges /\ cur \in Buffers
      /\ out \in Seq(Buffers) /\ Len(out) <= OutBuffers /\ delivered \in Seq(Nat)
  BY DEF Inv, TypeOK
<1>2. UNCHANGED <<range, idx, worker, results, drainer, outClosed, failed, cancelled, emptying>>
  BY DEF Prime, readNext, readBytes, shared
<1>3. /\ \A w \in Workers : FetchInv(w)'
      /\ \A i \in Chunks' : SlotInv(i)'
      /\ DrainerInv'
      /\ Settled(0)' <=> Settled(0)
      /\ NumChunks' = NumChunks /\ Chunks' = Chunks
      /\ \A i : Bound(i)' = Bound(i) /\ Piece(i)' = Piece(i)
  BY <1>2, ConsumerElsewhere, RangeKept
<1>4. consumer \in {"prime", "read"} /\ end = "open"
  BY <1>1 DEF Prime, readNext, readBytes, ConsumerInv
<1>5. PICK k \in 0..NumChunks : Flow(k)
  BY <1>1, <1>4 DEF ConsumerInv
<1>6. /\ ~emptying /\ NumChunks \in Nat /\ k \in Nat
      /\ range.start \in Nat /\ Bound(k) \in Nat
  BY <1>1, <1>4, <1>5, RangeFacts DEF ConsumerInv
<1>7. ASSUME out' \in Seq(Buffers), Len(out') <= OutBuffers, cur' \in Buffers,
             delivered' \in Seq(Nat), end' \in {"open", "eof", "error"}, headers' \in BOOLEAN,
             consumer' \in {"read", "close"}
      PROVE  TypeOK'
  BY <1>1, <1>2, <1>3, <1>7 DEF TypeOK
<1>8. headers \in BOOLEAN /\ headers' \in BOOLEAN
  BY <1>1 DEF TypeOK, Prime, readNext, readBytes
\* The stream ends, or the status line goes out without a piece.
<1>9. ASSUME consumer' = "close", ~headers' \/ headers' = headers, UNCHANGED <<cur, delivered>>,
             end' \in {"open", "eof", "error"}, out' \in Seq(Buffers), Len(out') <= OutBuffers
      PROVE  Inv'
  <2>1. ConsumerInv'
    BY <1>1, <1>2, <1>3, <1>6, <1>8, <1>9 DEF ConsumerInv
  <2> QED BY <1>1, <1>3, <1>7, <1>8, <1>9, <2>1 DEF Inv
<1>10. ASSUME out # <<>>, out' = Tail(out) PROVE out' \in Seq(Buffers) /\ Len(out') <= OutBuffers
  <2>1. out' \in Seq(Buffers) /\ Len(out) \in Nat /\ Len(out') = Len(out) - 1
    BY <1>1, <1>10, TakeHead
  <2> QED BY <1>1, <2>1, ReaderAssumption
<1>11. ASSUME out # <<>>, out' = Tail(out), ~Head(out).err, cur' = Head(out), IsEmpty(cur),
              consumer' = "read", UNCHANGED <<delivered, end>>,
              headers' = headers \/ consumer = "prime"
       PROVE  Inv'
  <2>1. /\ k + 1 \in 0..NumChunks /\ Flow(k + 1)' /\ out[1] # Error /\ cur' \in Buffers
    BY <1>2, <1>4, <1>5, <1>11, TakePiece
  <2>2. headers' => cancelled \/ NumChunks = 0 \/ Settled(0)
    BY <1>1, <1>11, <2>1 DEF ConsumerInv
  <2>3. ConsumerInv'
    BY <1>2, <1>3, <1>4, <1>6, <1>11, <2>1, <2>2 DEF ConsumerInv
  <2> QED BY <1>1, <1>3, <1>4, <1>7, <1>8, <1>10, <1>11, <2>1, <2>3 DEF Inv
<1>12. CASE Prime
  <2>1. consumer = "prime" /\ UNCHANGED delivered /\ IsEmpty(cur)
    BY <1>1, <1>12 DEF Prime, ConsumerInv, IsEmpty, Nil
  <2>2. CASE out # <<>> /\ out' = Tail(out) /\ Head(out).err /\ end' = "error"
             /\ consumer' = "close" /\ UNCHANGED <<cur, headers>>
    BY <1>9, <1>10, <2>1, <2>2
  <2>3. CASE out # <<>> /\ out' = Tail(out) /\ ~Head(out).err /\ cur' = Head(out)
             /\ consumer' = "read" /\ UNCHANGED end
    BY <1>11, <2>1, <2>3
  <2>4. CASE Drained /\ consumer' = "read" /\ UNCHANGED <<out, cur, end>>
    <3>1. k = 0 /\ Len(out) = 0 /\ drainer.pc = "exit"
      BY <1>1, <1>5, <2>1, <2>4 DEF Flow, Drained, DrainerInv
    <3>2. cancelled \/ NumChunks = 0
      BY <1>5, <2>4, <3>1 DEF Flow, Drained
    <3>3. Flow(k)'
      BY <1>2, <1>3, <1>5, <2>1, <2>4 DEF Flow
    <3>4. ConsumerInv'
      BY <1>2, <1>3, <1>4, <1>6, <2>1, <2>4, <3>2, <3>3 DEF ConsumerInv
    <3> QED BY <1>1, <1>3, <1>4, <1>7, <1>8, <2>1, <2>4, <3>4 DEF Inv
  <2> QED BY <1>12, <2>2, <2>3, <2>4 DEF Prime
<1>13. CASE readNext
  <2>1. consumer = "read" /\ UNCHANGED <<delivered, headers>> /\ IsEmpty(cur)
    BY <1>13 DEF readNext
  <2>2. CASE out # <<>> /\ out' = Tail(out) /\ Head(out).err /\ end' = "error"
             /\ consumer' = "close" /\ UNCHANGED cur
    BY <1>9, <1>10, <2>1, <2>2
  <2>3. CASE out # <<>> /\ out' = Tail(out) /\ ~Head(out).err /\ cur' = Head(out)
             /\ UNCHANGED <<end, consumer>>
    BY <1>11, <2>1, <2>3
  <2>4. CASE Drained /\ end' = "eof" /\ consumer' = "close" /\ UNCHANGED <<out, cur>>
    BY <1>1, <1>9, <2>1, <2>4
  <2> QED BY <1>13, <2>2, <2>3, <2>4 DEF readNext
<1>14. CASE readBytes
  <2>1. consumer = "read" /\ UNCHANGED <<out, consumer, end, headers>>
    BY <1>14 DEF readBytes
  <2>2. PICK n \in 1..cur.hi - cur.lo :
          /\ delivered' = delivered \o [i \in 1..n |-> cur.lo + i - 1]
          /\ cur' = [cur EXCEPT !.lo = @ + n]
    BY <1>14 DEF readBytes
  <2>3. /\ cur.lo \in Nat /\ cur.hi \in Nat /\ n \in Nat /\ n > 0 /\ n <= cur.hi - cur.lo
        /\ cur.lo < cur.hi
    BY <1>1 DEF Buffers
  <2>4. delivered' \in Seq(Nat) /\ Len(delivered') = Len(delivered) + n /\ Len(delivered) \in Nat
    <3> DEFINE t == [i \in 1..n |-> cur.lo + i - 1]
    <3>1. t \in [1..n -> Nat] /\ delivered' = delivered \o t
      BY <2>2, <2>3
    <3> HIDE DEF t
    <3> QED BY <1>1, <2>3, <3>1, BytesAppended
  <2>5. cur' \in Buffers /\ cur'.lo = cur.lo + n /\ cur'.hi = cur.hi /\ cur'.err = cur.err
    <3>1. cur' = [err |-> cur.err, lo |-> cur.lo + n, hi |-> cur.hi]
      BY <1>1, <2>2 DEF Buffers
    <3> QED BY <1>1, <2>3, <3>1 DEF Buffers
  <2>6. range.start + Len(delivered) = cur.lo /\ cur.hi = Bound(k) /\ ~cur.err
    BY <1>5, <2>3 DEF Flow
  <2>7. range.start + Len(delivered') = cur'.lo
    <3>1. range.start \in Nat
      BY <1>6
    <3> QED BY <2>3, <2>4, <2>5, <2>6, <3>1
  <2>8. Flow(k)'
    <3>1. \/ cur'.lo >= cur'.hi /\ range.start + Len(delivered') = Bound(k)
          \/ cur'.lo < cur'.hi /\ range.start + Len(delivered') = cur'.lo /\ cur'.hi = Bound(k)
      BY <2>3, <2>5, <2>6, <2>7
    <3> QED BY <1>2, <1>3, <1>5, <2>1, <2>5, <2>6, <3>1 DEF Flow
  <2>9. ConsumerInv'
    BY <1>1, <1>2, <1>3, <2>1, <2>8 DEF ConsumerInv
  <2> QED BY <1>1, <1>3, <1>4, <1>7, <1>8, <2>1, <2>4, <2>5, <2>9 DEF Inv
<1> QED BY <1>12, <1>13, <1>14

\* Close, a client that leaves, a cancelled request, and the goroutine of Close.
LEMMA CloseInvStep ==
  ASSUME Inv, CloseStep \/ clientGone \/ parentCancel \/ emptyOut \/ UNCHANGED vars
  PROVE  Inv'
<1>1. TypeOK /\ ConsumerInv /\ out \in Seq(Buffers) /\ Len(out) <= OutBuffers
  BY DEF Inv, TypeOK
<1>2. /\ UNCHANGED <<range, idx, worker, results, drainer, outClosed, failed>>
      /\ UNCHANGED <<cur, delivered, end, headers>>
  BY DEF CloseStep, closeBegin, closeEnd, clientGone, parentCancel, emptyOut, vars, shared, side
<1>3. /\ \A w \in Workers : FetchInv(w)'
      /\ \A i \in Chunks' : SlotInv(i)'
      /\ DrainerInv'
      /\ Settled(0)' <=> Settled(0)
      /\ NumChunks' = NumChunks /\ Chunks' = Chunks
      /\ \A i : Bound(i)' = Bound(i) /\ Piece(i)' = Piece(i)
  BY <1>2, ConsumerElsewhere, RangeKept
<1>4. \/ UNCHANGED <<out, consumer, emptying>> /\ cancelled' \in {cancelled, TRUE}
      \/ /\ UNCHANGED <<out, emptying, cancelled>> /\ consumer = "read" /\ consumer' = "close"
      \/ /\ UNCHANGED <<out, consumer>> /\ consumer = "close" /\ cancelled' = TRUE
         /\ emptying' = TRUE
      \/ /\ UNCHANGED <<out, emptying, cancelled>> /\ consumer = "close" /\ emptying
         /\ consumer' = "closed"
      \/ /\ UNCHANGED <<consumer, emptying, cancelled>> /\ emptying
         /\ out # <<>> /\ out' = Tail(out)
  BY DEF CloseStep, closeBegin, closeEnd, clientGone, parentCancel, emptyOut, vars, shared, side
<1>5. out' \in Seq(Buffers) /\ Len(out') <= OutBuffers
  <2>1. CASE out' = out
    BY <1>1, <2>1
  <2>2. CASE out # <<>> /\ out' = Tail(out)
    <3>1. out' \in Seq(Buffers) /\ Len(out) \in Nat /\ Len(out') = Len(out) - 1
      BY <1>1, <2>2, TakeHead
    <3> QED BY <1>1, <3>1, ReaderAssumption
  <2> QED BY <1>4, <2>1, <2>2
<1>6. {cancelled', emptying'} \subseteq BOOLEAN
      /\ consumer' \in {"prime", "read", "close", "closed"}
  BY <1>1, <1>4 DEF TypeOK
<1>7. TypeOK'
  BY <1>1, <1>2, <1>3, <1>5, <1>6 DEF TypeOK
<1>8. ASSUME UNCHANGED <<out, consumer>>, cancelled => cancelled', NEW k, Flow(k) PROVE Flow(k)'
  BY <1>2, <1>3, <1>8 DEF Flow
<1>9. ConsumerInv'
  <2>1. CASE UNCHANGED <<out, consumer, emptying>> /\ cancelled' \in {cancelled, TRUE}
    <3>1. cancelled => cancelled'
      BY <2>1
    <3>2. ASSUME consumer \in {"prime", "read"} PROVE \E k \in 0..NumChunks : Flow(k)'
      BY <1>1, <1>8, <2>1, <3>1, <3>2 DEF ConsumerInv
    <3> QED BY <1>1, <1>2, <1>3, <2>1, <3>1, <3>2 DEF ConsumerInv
  <2>2. CASE /\ UNCHANGED <<out, emptying, cancelled>> /\ consumer = "read" /\ consumer' = "close"
    BY <1>1, <1>2, <1>3, <2>2 DEF ConsumerInv
  <2>3. CASE /\ UNCHANGED <<out, consumer>> /\ consumer = "close" /\ cancelled' = TRUE
             /\ emptying' = TRUE
    BY <1>1, <1>2, <1>3, <2>3 DEF ConsumerInv
  <2>4. CASE /\ UNCHANGED <<out, emptying, cancelled>> /\ consumer = "close" /\ emptying
             /\ consumer' = "closed"
    BY <1>1, <1>2, <1>3, <2>4 DEF ConsumerInv
  <2>5. CASE /\ UNCHANGED <<consumer, emptying, cancelled>> /\ emptying
    BY <1>1, <1>2, <1>3, <2>5 DEF ConsumerInv
  <2> QED BY <1>4, <2>1, <2>2, <2>3, <2>4, <2>5
<1> QED BY <1>3, <1>7, <1>9 DEF Inv

----------------------------------------------------------------------------
(* The theorems                                                            *)

\* Every step keeps the invariant.
LEMMA InvStep == Inv /\ [Next]_vars => Inv'
<1> SUFFICES ASSUME Inv, [Next]_vars PROVE Inv'
  OBVIOUS
<1>1. ASSUME NEW w \in Workers, WorkerStep(w) PROVE Inv'
  BY <1>1, WorkerInvStep
<1>2. CASE DrainerStep
  BY <1>2, DrainerInvStep
<1>3. CASE Prime \/ ReadStep
  BY <1>3, ReadInvStep DEF ReadStep
<1>4. CASE CloseStep \/ clientGone \/ parentCancel \/ emptyOut \/ Terminated \/ UNCHANGED vars
  BY <1>4, CloseInvStep DEF Terminated
<1> QED BY <1>1, <1>2, <1>3, <1>4 DEF Next

\* The invariant holds in every reachable state.
LEMMA InvAlways == Spec => []Inv
BY InvInit, InvStep, PTL DEF Spec

\* Type correctness of the reader: in particular the delivery channel never holds
\* more than its capacity.
THEOREM ReaderTypeCorrect == Spec => []TypeOK
<1>1. Inv => TypeOK
  BY DEF Inv
<1> QED BY <1>1, InvAlways, PTL

\* Prime and streamObject: a status line is never written over a failure of the
\* first chunk, however the fetches, the drainer and Prime interleave.
THEOREM FirstFailureSurfaces == Spec => []PrimeSurfacesFirstFailure
<1>1. Inv => PrimeSurfacesFirstFailure
  <2> SUFFICES ASSUME Inv, headers, 0 \in failed, ~cancelled PROVE FALSE
    BY DEF PrimeSurfacesFirstFailure
  <2>1. NumChunks = 0
    BY DEF Inv, ConsumerInv, Settled
  <2>2. 0 \in 0..NumChunks - 1
    BY DEF Inv, TypeOK, Chunks
  <2> QED BY <2>1, <2>2
<1> QED BY <1>1, InvAlways, PTL

\* A step of the reader is a step of the stream, or none.
LEMMA StreamStep == Inv /\ [Next]_vars => [Stream!Next]_(Stream!streamVars)
<1> SUFFICES ASSUME Inv, [Next]_vars,
                    ~UNCHANGED <<range, delivered, end, cancelled>>
             PROVE  Stream!Next
  BY DEF Stream!streamVars
<1>1. ConsumerInv /\ DrainerInv /\ range \in Ranges /\ cur \in Buffers
  BY DEF Inv, TypeOK
<1>2. ASSUME NEW w \in Workers, WorkerStep(w) PROVE FALSE
  BY <1>2 DEF WorkerStep, claim, checkCancelled, fetch, publish, shared, side
<1>3. ~DrainerStep
  BY DEF DrainerStep, drainRecv, drainSend, shared, side
<1>4. CASE Prime
  <2>1. UNCHANGED <<range, delivered, cancelled>> /\ end' = "error" /\ end = "open"
    BY <1>1, <1>4 DEF Prime, shared, ConsumerInv
  <2> QED BY <2>1 DEF Stream!Next, Stream!Fail
<1>5. CASE readNext
  <2>1. UNCHANGED <<range, delivered, cancelled>> /\ end = "open" /\ consumer = "read"
    BY <1>5 DEF readNext, shared
  <2>2. CASE end' = "error"
    BY <2>1, <2>2 DEF Stream!Next, Stream!Fail
  <2>3. CASE Drained /\ end' = "eof"
    <3>1. PICK k \in 0..NumChunks : Flow(k)
      BY <1>1, <2>1 DEF ConsumerInv
    <3>2. Len(out) = 0 /\ out = <<>> /\ drainer.pc = "exit" /\ k + 0 = k
      BY <1>1, <2>3, RangeFacts DEF Drained, DrainerInv
    <3>3. cancelled \/ k = NumChunks
      BY <3>1, <3>2 DEF Flow
    <3>4. range.start + Len(delivered) = Bound(k)
      BY <1>1, <1>5, <3>1 DEF readNext, Flow, IsEmpty, Buffers
    <3>5. range.start + Len(delivered) = range.end \/ cancelled
      BY <1>1, <3>3, <3>4, RangeFacts
    <3> QED BY <2>1, <2>3, <3>5 DEF Stream!Next, Stream!EOF, Stream!Position
  <2> QED BY <1>5, <2>1, <2>2, <2>3 DEF readNext
<1>6. CASE readBytes
  <2>1. UNCHANGED <<range, end, cancelled>> /\ end = "open" /\ consumer = "read"
    BY <1>6 DEF readBytes, shared
  <2>2. PICK n \in 1..cur.hi - cur.lo :
          delivered' = delivered \o [i \in 1..n |-> cur.lo + i - 1]
    BY <1>6 DEF readBytes
  <2>3. PICK k \in 0..NumChunks : Flow(k)
    BY <1>1, <2>1 DEF ConsumerInv
  <2>4. cur.lo \in Nat /\ cur.hi \in Nat /\ cur.lo < cur.hi
    BY <1>1 DEF Buffers
  <2>5. Stream!Position = cur.lo /\ cur.hi = Bound(k)
    BY <2>3, <2>4 DEF Flow, Stream!Position
  <2>6. Bound(k) \in Nat /\ Bound(k) <= range.end /\ range.end \in Nat
    BY <1>1, <2>3, RangeFacts
  <2>7. n \in 1..range.end - Stream!Position
    BY <2>4, <2>5, <2>6
  <2>8. delivered' = delivered \o [i \in 1..n |-> Stream!Position + i - 1]
    BY <2>2, <2>5
  <2> QED BY <2>1, <2>7, <2>8 DEF Stream!Next, Stream!Deliver
<1>7. CASE parentCancel \/ closeBegin
  BY <1>7 DEF parentCancel, closeBegin, side, Stream!Next, Stream!Cancel
<1>8. ~(closeEnd \/ clientGone \/ emptyOut \/ Terminated \/ UNCHANGED vars)
  BY DEF closeEnd, clientGone, emptyOut, Terminated, vars, shared, side
<1> QED BY <1>2, <1>3, <1>4, <1>5, <1>6, <1>7, <1>8 DEF Next, ReadStep, CloseStep

\* The reader implements ByteStream: the bytes of the range in order, none lost
\* or twice, io.EOF only after the last byte or a cancellation, and nothing after
\* an end.
THEOREM ReaderImplementsStream == Spec => StreamSpec
<1>1. Init => Stream!Init
  BY DEF Init, Stream!Init
<1> QED BY <1>1, InvAlways, StreamStep, PTL DEF Spec, StreamSpec, Stream!Spec
=============================================================================
