--------------------------- MODULE PrefetchReader ---------------------------
(***************************************************************************)
(* The parallel prefetch reader (internal/reader/reader.go) and the        *)
(* handler that drains it (streamObject in internal/s3api/handler.go).     *)
(*                                                                         *)
(* Goroutines: Concurrency workers that fetch aligned chunks, the drainer  *)
(* that puts them in order, the consumer (Prime, Read, Close) and the      *)
(* goroutine Close starts to empty the delivery channel.  Every channel    *)
(* operation, every select and every atomic access is one step.  When two  *)
(* branches of a select are ready Go picks either, and so does the model.  *)
(*                                                                         *)
(* The byte at object offset o is modelled by o.  A buffer is the interval *)
(* [lo, hi) of offsets that is still unread, or an error.                  *)
(***************************************************************************)
EXTENDS Integers, Sequences, FiniteSets

CONSTANTS
  Ranges,       \* the [start, end) ranges requested
  ObjectSize,   \* bytes of the object
  ChunkSize,    \* the aligned fetch window
  Concurrency,  \* STREAM_CONCURRENCY: number of workers
  OutBuffers,   \* STREAM_BUFFERS: capacity of the delivery channel
  FetchFails,   \* TRUE: a fetch may fail (error or chunk timeout)
  ClientLeaves  \* TRUE: the request context may be cancelled, the client may stop reading

ASSUME ReaderAssumption ==
  /\ ObjectSize \in Nat
  /\ \A r \in Ranges : /\ r.start \in Nat
                       /\ r.end \in Nat
                       /\ r.start <= r.end
                       /\ r.end <= ObjectSize
  /\ ChunkSize \in Nat \ {0}
  /\ Concurrency \in Nat \ {0}
  /\ OutBuffers \in Nat \ {0}
  /\ FetchFails \in BOOLEAN
  /\ ClientLeaves \in BOOLEAN

VARIABLES
  range,      \* the range of this reader
  idx,        \* the workers' shared counter
  worker,     \* the state of each worker
  results,    \* the per-chunk channels, capacity 1
  drainer,    \* the state of the drainer
  out,        \* the ordered delivery channel
  outClosed,  \* close(r.out) happened
  cancelled,  \* the reader's context is done
  emptying,   \* Close's goroutine is draining out
  consumer,   \* the handler: "prime", "read", "close", "closed"
  cur,        \* r.cur
  delivered,  \* the bytes Read has returned
  end,        \* r.err: "open", "eof" or "error"
  headers,    \* the handler has written the 200/206 status line
  failed      \* the chunks whose fetch returned an error

vars == <<range, idx, worker, results, drainer, out, outClosed, cancelled, emptying,
          consumer, cur, delivered, end, headers, failed>>

shared == <<range, cancelled>>

side == <<consumer, cur, delivered, end, headers, emptying>>

Workers == 1..Concurrency

\* A buffer with the bytes [lo, hi), and one that carries an error.
Data(lo, hi) == [err |-> FALSE, lo |-> lo, hi |-> hi]

Error == [err |-> TRUE, lo |-> 0, hi |-> 0]

Buffers == [err : BOOLEAN, lo : Nat, hi : Nat]

\* An empty channel slot, no current buffer.
Nil == [err |-> FALSE, lo |-> 0, hi |-> 0]

Full(b) == b # Nil

IsEmpty(b) == b.lo >= b.hi

\* The aligned window of the range, and its chunks 0 .. NumChunks - 1.
AlignedStart == range.start - (range.start % ChunkSize)

AlignedEnd == IF range.end % ChunkSize = 0
                THEN range.end
                ELSE range.end + (ChunkSize - (range.end % ChunkSize))

NumChunks == IF range.start >= range.end THEN 0 ELSE (AlignedEnd - AlignedStart) \div ChunkSize

Chunks == 0..NumChunks - 1

ChunkOffset(i) == AlignedStart + i * ChunkSize

TypeOK ==
  /\ range \in Ranges
  /\ idx \in Nat
  /\ worker \in [Workers -> [pc : {"next", "check", "fetch", "send", "exit"}, i : Nat,
                             buf : Buffers]]
  /\ results \in [Chunks -> Buffers]
  /\ drainer \in [pc : {"recv", "send", "exit"}, i : Nat, buf : Buffers]
  /\ out \in Seq(Buffers)
  /\ Len(out) <= OutBuffers
  /\ {outClosed, cancelled, emptying, headers} \subseteq BOOLEAN
  /\ consumer \in {"prime", "read", "close", "closed"}
  /\ cur \in Buffers
  /\ delivered \in Seq(Nat)
  /\ end \in {"open", "eof", "error"}
  /\ failed \subseteq Chunks

----------------------------------------------------------------------------
(* The workers                                                             *)

\* idx.Add(1) - 1: claim the next chunk, or stop when there is none.
claim(w) ==
  /\ worker[w].pc = "next"
  /\ idx' = idx + 1
  /\ worker' = [worker EXCEPT ![w] = IF idx < NumChunks
                                       THEN [pc |-> "check", i |-> idx, buf |-> Nil]
                                       ELSE [pc |-> "exit", i |-> 0, buf |-> Nil]]
  /\ UNCHANGED <<shared, results, drainer, out, outClosed, side, failed>>

\* ctx.Err(): after a cancellation publish an error without blocking and stop.
checkCancelled(w) ==
  /\ worker[w].pc = "check"
  /\ IF cancelled
       THEN /\ results' = IF Full(results[worker[w].i])
                            THEN results
                            ELSE [results EXCEPT ![worker[w].i] = Error]
            /\ worker' = [worker EXCEPT ![w] = [pc |-> "exit", i |-> 0, buf |-> Nil]]
       ELSE /\ worker' = [worker EXCEPT ![w].pc = "fetch"]
            /\ UNCHANGED results
  /\ UNCHANGED <<shared, idx, drainer, out, outClosed, side, failed>>

\* src.Chunk(offset, chunkSize): the bytes up to the end of the object, or an
\* error: a failed download, the chunk timeout, a cancelled context.
fetch(w) ==
  /\ worker[w].pc = "fetch"
  /\ LET i == worker[w].i
         limit == ChunkOffset(i) + ChunkSize IN
       \/ /\ worker' = [worker EXCEPT ![w].pc = "send", ![w].buf =
                          Data(ChunkOffset(i), IF limit > ObjectSize THEN ObjectSize ELSE limit)]
          /\ UNCHANGED failed
       \/ /\ FetchFails \/ cancelled
          /\ worker' = [worker EXCEPT ![w].pc = "send", ![w].buf = Error]
          /\ failed' = failed \cup {i}
  /\ UNCHANGED <<shared, idx, results, drainer, out, outClosed, side>>

\* A worker that stops on a failed fetch without publishing the error.
publish_dropsError(w) ==
  /\ worker[w].pc = "send"
  /\ IF worker[w].buf.err
       THEN /\ worker' = [worker EXCEPT ![w] = [pc |-> "exit", i |-> 0, buf |-> Nil]]
            /\ UNCHANGED results
       ELSE /\ results' = [results EXCEPT ![worker[w].i] = worker[w].buf]
            /\ worker' = [worker EXCEPT ![w] = [pc |-> "next", i |-> 0, buf |-> Nil]]
  /\ UNCHANGED <<shared, idx, drainer, out, outClosed, side, failed>>

\* select { results[i] <- b; <-ctx.Done() }.  The slot has capacity 1 and gets
\* one send, so the send never has to wait.
publish(w) ==
  /\ worker[w].pc = "send"
  /\ \/ /\ ~Full(results[worker[w].i])
        /\ results' = [results EXCEPT ![worker[w].i] = worker[w].buf]
        /\ worker' = [worker EXCEPT ![w] = [pc |-> "next", i |-> 0, buf |-> Nil]]
     \/ /\ cancelled
        /\ worker' = [worker EXCEPT ![w] = [pc |-> "exit", i |-> 0, buf |-> Nil]]
        /\ UNCHANGED results
  /\ UNCHANGED <<shared, idx, drainer, out, outClosed, side, failed>>

----------------------------------------------------------------------------
(* The drainer                                                             *)

\* A trim that cuts on the right only.
trim_rightOnly(b) ==
  LET hi == IF b.hi > range.end THEN range.end ELSE b.hi IN
  IF hi <= b.lo THEN Nil ELSE Data(b.lo, hi)

\* The intersection of the chunk's window with [start, end): leftCut on the
\* first chunk, rightCut on the last, an empty buffer if nothing is left.
trim(b) ==
  LET lo == IF b.lo < range.start THEN range.start ELSE b.lo
      hi == IF b.hi > range.end THEN range.end ELSE b.hi IN
  IF hi <= lo THEN Nil ELSE Data(lo, hi)

\* return: deferred close(r.out) and drainerWG.Done().
drainerExit ==
  /\ drainer' = [pc |-> "exit", i |-> 0, buf |-> Nil]
  /\ outClosed' = TRUE

\* A drainer that takes whichever chunk is ready.
drainRecv_anyOrder ==
  /\ drainer.pc = "recv"
  /\ \/ /\ drainer.i < NumChunks
        /\ \E i \in Chunks :
             /\ Full(results[i])
             /\ drainer' = [drainer EXCEPT !.pc = "send", !.buf = trim(results[i])]
             /\ results' = [results EXCEPT ![i] = Nil]
        /\ UNCHANGED outClosed
     \/ (cancelled \/ drainer.i >= NumChunks) /\ drainerExit /\ UNCHANGED results
  /\ UNCHANGED <<shared, idx, worker, out, side, failed>>

\* A drainer that waits for the next chunk only, not for ctx.Done().
drainRecv_noCancel ==
  /\ drainer.pc = "recv"
  /\ \/ /\ drainer.i < NumChunks
        /\ Full(results[drainer.i])
        /\ drainer' = [drainer EXCEPT !.pc = "send", !.buf =
                         IF results[drainer.i].err THEN Error ELSE trim(results[drainer.i])]
        /\ results' = [results EXCEPT ![drainer.i] = Nil]
        /\ UNCHANGED outClosed
     \/ drainer.i >= NumChunks /\ drainerExit /\ UNCHANGED results
  /\ UNCHANGED <<shared, idx, worker, out, side, failed>>

\* The head of the loop: select { <-ctx.Done(); b = <-results[i] }, and the trim.
\* The loop ends after the last chunk.
drainRecv ==
  /\ drainer.pc = "recv"
  /\ \/ /\ drainer.i < NumChunks
        /\ LET b == results[drainer.i] IN
             /\ Full(b)
             /\ drainer' = [drainer EXCEPT !.pc = "send", !.buf = IF b.err THEN b ELSE trim(b)]
             /\ results' = [results EXCEPT ![drainer.i] = Nil]
        /\ UNCHANGED outClosed
     \/ /\ cancelled \/ drainer.i >= NumChunks
        /\ drainerExit
        /\ UNCHANGED results
  /\ UNCHANGED <<shared, idx, worker, out, side, failed>>

\* A delivery channel without a bound.
drainSend_unbounded ==
  /\ drainer.pc = "send"
  /\ out' = Append(out, drainer.buf)
  /\ IF drainer.buf.err
       THEN drainerExit
       ELSE /\ drainer' = [pc |-> "recv", i |-> drainer.i + 1, buf |-> Nil]
            /\ UNCHANGED outClosed
  /\ UNCHANGED <<shared, idx, worker, results, side, failed>>

\* select { out <- b; <-ctx.Done() }.  The drainer exits after an error and
\* after a cancellation.
drainSend ==
  /\ drainer.pc = "send"
  /\ \/ /\ Len(out) < OutBuffers
        /\ out' = Append(out, drainer.buf)
        /\ IF drainer.buf.err
             THEN drainerExit
             ELSE /\ drainer' = [pc |-> "recv", i |-> drainer.i + 1, buf |-> Nil]
                  /\ UNCHANGED outClosed
     \/ cancelled /\ drainerExit /\ UNCHANGED out
  /\ UNCHANGED <<shared, idx, worker, results, side, failed>>

----------------------------------------------------------------------------
(* The consumer                                                            *)

\* <-r.out returns !ok: the channel is closed and empty.
Drained == out = <<>> /\ outClosed

\* A handler that writes the status line before the first chunk is there.
Prime_headersFirst ==
  /\ consumer = "prime"
  /\ consumer' = "read"
  /\ headers' = TRUE
  /\ UNCHANGED <<shared, idx, worker, results, drainer, out, outClosed, emptying, cur,
                 delivered, end, failed>>

\* Prime: wait for the first buffer.  An error is answered with a 502; data and
\* io.EOF let the handler write the status line.
Prime ==
  /\ consumer = "prime"
  /\ \/ \E b \in {Head(o) : o \in {out} \ {<<>>}} :
          /\ out' = Tail(out)
          /\ IF b.err
               THEN end' = "error" /\ consumer' = "close" /\ UNCHANGED <<cur, headers>>
               ELSE cur' = b /\ consumer' = "read" /\ headers' = TRUE /\ UNCHANGED end
     \/ /\ Drained
        /\ consumer' = "read"
        /\ headers' = TRUE
        /\ UNCHANGED <<out, cur, end>>
  /\ UNCHANGED <<shared, idx, worker, results, drainer, outClosed, emptying, delivered, failed>>

\* Read, its wait for a buffer when the current one is used up.  io.EOF and
\* errors end the copy.
readNext ==
  /\ consumer = "read"
  /\ end = "open"
  /\ IsEmpty(cur)
  /\ \/ \E b \in {Head(o) : o \in {out} \ {<<>>}} :
          /\ out' = Tail(out)
          /\ IF b.err
               THEN end' = "error" /\ consumer' = "close" /\ UNCHANGED cur
               ELSE cur' = b /\ UNCHANGED <<end, consumer>>
     \/ /\ Drained
        /\ end' = "eof"
        /\ consumer' = "close"
        /\ UNCHANGED <<out, cur>>
  /\ UNCHANGED <<shared, idx, worker, results, drainer, outClosed, emptying, delivered,
                 headers, failed>>

\* Read, its copy: some of the current buffer, at least one byte.
readBytes ==
  /\ consumer = "read"
  /\ end = "open"
  /\ \E n \in 1..cur.hi - cur.lo :
       /\ delivered' = delivered \o [i \in 1..n |-> cur.lo + i - 1]
       /\ cur' = [cur EXCEPT !.lo = @ + n]
  /\ UNCHANGED <<shared, idx, worker, results, drainer, out, outClosed, emptying, consumer,
                 end, headers, failed>>

\* The write to the client failed: the handler stops reading and closes.
clientGone ==
  /\ ClientLeaves
  /\ consumer = "read"
  /\ consumer' = "close"
  /\ UNCHANGED <<shared, idx, worker, results, drainer, out, outClosed, emptying, cur,
                 delivered, end, headers, failed>>

\* The request context is cancelled under the reader.
parentCancel ==
  /\ ClientLeaves
  /\ consumer # "closed"
  /\ cancelled' = TRUE
  /\ UNCHANGED <<range, idx, worker, results, drainer, out, outClosed, side, failed>>

\* Close: cancel the context, start the goroutine that empties out.
closeBegin ==
  /\ consumer = "close"
  /\ ~emptying
  /\ cancelled' = TRUE
  /\ emptying' = TRUE
  /\ UNCHANGED <<range, idx, worker, results, drainer, out, outClosed, consumer, cur,
                 delivered, end, headers, failed>>

\* for range r.out {}.
emptyOut ==
  /\ emptying
  /\ out # <<>>
  /\ out' = Tail(out)
  /\ UNCHANGED <<shared, idx, worker, results, drainer, outClosed, side, failed>>

\* workersWG.Wait() and drainerWG.Wait() return.
closeEnd ==
  /\ consumer = "close"
  /\ emptying
  /\ \A w \in Workers : worker[w].pc = "exit"
  /\ drainer.pc = "exit"
  /\ consumer' = "closed"
  /\ UNCHANGED <<shared, idx, worker, results, drainer, out, outClosed, emptying, cur,
                 delivered, end, headers, failed>>

----------------------------------------------------------------------------
(* The specification                                                       *)

\* New: for an empty range no goroutine is started and out is closed at once;
\* never more workers than chunks.
Init ==
  /\ range \in Ranges
  /\ idx = 0
  /\ worker = [w \in Workers |-> [pc |-> IF w <= NumChunks THEN "next" ELSE "exit",
                                  i |-> 0, buf |-> Nil]]
  /\ results = [i \in Chunks |-> Nil]
  /\ drainer = [pc |-> IF NumChunks = 0 THEN "exit" ELSE "recv", i |-> 0, buf |-> Nil]
  /\ out = <<>>
  /\ outClosed = (NumChunks = 0)
  /\ cancelled = FALSE
  /\ emptying = FALSE
  /\ consumer = "prime"
  /\ cur = Nil
  /\ delivered = <<>>
  /\ end = "open"
  /\ headers = FALSE
  /\ failed = {}

WorkerStep(w) == claim(w) \/ checkCancelled(w) \/ fetch(w) \/ publish(w)

DrainerStep == drainRecv \/ drainSend

CloseStep == closeBegin \/ closeEnd

\* The client keeps taking bytes.
ReadStep == readNext \/ readBytes

\* The reader is closed and its goroutines are gone.
Terminated == consumer = "closed" /\ out = <<>> /\ UNCHANGED vars

Next ==
  \/ \E w \in Workers : WorkerStep(w)
  \/ DrainerStep
  \/ Prime
  \/ ReadStep
  \/ CloseStep
  \/ clientGone
  \/ parentCancel
  \/ emptyOut
  \/ Terminated

Spec == Init /\ [][Next]_vars

\* Go schedules every goroutine that can run, and a fetch returns because the
\* chunk timeout bounds it.  The handler itself always goes on with Prime and
\* Close.  A client that does not leave reads on until the end.
Fairness ==
  /\ \A w \in Workers : WF_vars(WorkerStep(w))
  /\ WF_vars(DrainerStep)
  /\ WF_vars(Prime)
  /\ WF_vars(CloseStep)
  /\ WF_vars(emptyOut)
  /\ WF_vars(ReadStep)

FairSpec == Spec /\ Fairness

----------------------------------------------------------------------------
(* Properties                                                              *)

\* The reader implements the abstract byte stream: the bytes of the range in
\* order, none lost or twice whatever order the fetches finish in, io.EOF only
\* after the last byte or a cancellation, and nothing after an error
\* (reader.go:10, 14-16).
Stream == INSTANCE ByteStream
  WITH Ranges <- Ranges, range <- range, delivered <- delivered, end <- end,
       cancelled <- cancelled

StreamSpec == Stream!Spec

\* The status line is written only when chunk 0 did not fail, unless the
\* context was cancelled under the reader (reader.go:11-13, streamObject).
PrimeSurfacesFirstFailure == headers /\ 0 \in failed => cancelled

\* The number of fetched chunks that wait in their slots for the drainer.
Prefetched == Cardinality({i \in Chunks : Full(results[i])})

\* "a worker blocks on send until the drainer reads - natural backpressure keeps
\* in-flight memory bounded by concurrency" (reader.go:50-52).
InFlightBounded == Prefetched <= Concurrency

\* Prime always returns: the drainer delivers chunk 0, an error or a close.
PrimeReturns == consumer = "prime" ~> consumer # "prime"

\* Close always returns, whatever the workers and the drainer are doing and
\* however full the delivery channel is, and the goroutines are gone.
CloseReturns ==
  consumer = "close" ~> /\ consumer = "closed"
                        /\ out = <<>>
                        /\ outClosed

\* With a client that reads on or leaves, the stream ends: no worker, drainer or Read
\* waits for ever on another.
StreamEnds == <>(consumer = "closed")
=============================================================================
