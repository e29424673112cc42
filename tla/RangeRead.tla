----------------------------- MODULE RangeRead -----------------------------
(***************************************************************************)
(* Which bytes a GET is served: conditional headers (objectmeta.go), the   *)
(* Range and If-Range headers and the read plan (handler.go), the windows  *)
(* of the prefetch reader (reader.go), their translation to messages       *)
(* (bot_source.go) and to aligned Telegram reads (download.go).            *)
(*                                                                         *)
(* The module has no state: how these steps interleave is the subject of   *)
(* PrefetchReader and ChunkDownload.  An object is a record                *)
(* [rows, size, etag, updated]; a row is a chunk of the object,            *)
(* [offset, size, data], where data is what its message really holds.      *)
(***************************************************************************)
EXTENDS Integers, Sequences, FiniteSets, FiniteSetsExt, SequencesExt

CONSTANTS
  StreamChunkSize,  \* STREAM_CHUNK_SIZE: the prefetch window
  WindowFloor,      \* 64 KiB: a window is not halved below it
  DownloadUnit      \* mtprotoDownloadChunk: 1 MiB

ASSUME RangeAssumption ==
  /\ StreamChunkSize \in Nat \ {0}
  /\ WindowFloor \in Nat \ {0}
  /\ DownloadUnit \in Nat \ {0}

----------------------------------------------------------------------------
(* Conditional headers                                                     *)

\* If-Match and If-None-Match: the set of ETags they list, all for "*", none
\* when absent.
etagMatches(tags, etag) == etag \in tags

\* Both date headers count, whether or not an ETag header is there.
conditionalStatus_datesToo(c, obj) ==
  CASE c.ifMatch # {} /\ ~etagMatches(c.ifMatch, obj.etag)   -> 412
    [] c.unmodifiedSince # 0 /\ obj.updated > c.unmodifiedSince -> 412
    [] c.ifNoneMatch # {} /\ etagMatches(c.ifNoneMatch, obj.etag) -> 304
    [] c.modifiedSince # 0 /\ obj.updated <= c.modifiedSince -> 304
    [] OTHER -> 0

\* The status that ends the request, or 0.  A date (0: absent, or no date) only
\* counts when the ETag header it goes with is absent.
conditionalStatus(c, obj) ==
  CASE c.ifMatch # {} /\ ~etagMatches(c.ifMatch, obj.etag) -> 412
    [] c.ifMatch = {} /\ c.unmodifiedSince # 0 /\ obj.updated > c.unmodifiedSince -> 412
    [] c.ifNoneMatch # {} /\ etagMatches(c.ifNoneMatch, obj.etag) -> 304
    [] c.ifNoneMatch = {} /\ c.modifiedSince # 0 /\ obj.updated <= c.modifiedSince -> 304
    [] OTHER -> 0

\* An If-Range that is taken for absent.
ifRangeAllows_always(ir, obj) == TRUE

\* If-Range: absent, an ETag, a date, or neither of these ("bad").
ifRangeAllows(ir, obj) ==
  \/ ir.kind = "absent"
  \/ ir.kind = "etag" /\ ir.etag = obj.etag
  \/ ir.kind = "date" /\ obj.updated <= ir.date

----------------------------------------------------------------------------
(* The Range header                                                        *)

\* What parseByteRange returns.
NoRange == [isRange |-> FALSE, satisfiable |-> FALSE, start |-> 0, end |-> 0]

Unsatisfiable == [NoRange EXCEPT !.isRange = TRUE]

Satisfiable(s, e) == [isRange |-> TRUE, satisfiable |-> TRUE, start |-> s, end |-> e]

\* A Range header: "bytes=first-", "bytes=first-last", "bytes=-n", or anything
\* else (absent, malformed, several ranges), which is ignored.
IsHeader(h) ==
  /\ h.kind \in {"from", "between", "suffix", "other"}
  /\ {h.n, h.first, h.last} \subseteq Nat

\* The bytes a header names in an object of the given size.
parseByteRange(h, size) ==
  CASE h.kind = "other" -> NoRange
    [] h.kind = "suffix" -> IF h.n = 0 THEN NoRange
                            ELSE IF size = 0 THEN Unsatisfiable
                            ELSE Satisfiable(size - Min({h.n, size}), size - 1)
    [] h.kind = "from" -> IF h.first >= size THEN Unsatisfiable
                          ELSE Satisfiable(h.first, size - 1)
    [] h.kind = "between" -> IF h.last < h.first THEN NoRange
                             ELSE IF h.first >= size THEN Unsatisfiable
                             ELSE Satisfiable(h.first, Min({h.last, size - 1}))

----------------------------------------------------------------------------
(* From messages to the stream                                             *)

\* The bytes of s from offset lo up to hi, as far as they exist.
Slice(s, lo, hi) == SubSeq(s, lo + 1, Min({hi, Len(s)}))

\* UploadGetFile, external: at most one unit of the document.
getFile(data, cur) == Slice(data, cur, cur + DownloadUnit)

\* One answer, and what follows unless it is short.
AndOn(got, rest) == IF Len(got) < DownloadUnit THEN got ELSE got \o rest

\* fetchRange: whole units from the one that holds offset, until end is reached
\* or an answer is short; then head and tail are trimmed.
fetchRange(data, offset, end) ==
  LET aligned == offset - (offset % DownloadUnit)
      pull[cur \in Nat] ==
        IF cur >= end THEN <<>> ELSE AndOn(getFile(data, cur), pull[cur + DownloadUnit])
  IN  Slice(pull[aligned], offset - aligned, end - aligned)

\* locate: the last row that begins at or before the offset, if it holds it; 0
\* otherwise.
locate(rows, cur) ==
  LET before == {i \in DOMAIN rows : rows[i].offset <= cur}
      i == IF before = {} THEN 0 ELSE Max(before)
  IN  IF i # 0 /\ cur < rows[i].offset + rows[i].size THEN i ELSE 0

\* What a read returns: an error, or bytes; primed when its first window came.
Failed == [err |-> TRUE, primed |-> FALSE, bytes |-> <<>>]

Read(bytes) == [err |-> FALSE, primed |-> TRUE, bytes |-> bytes]

\* What was got of the bytes wanted, and what follows unless they are too few.
Stitch(got, want, rest) ==
  IF Len(got) < want THEN Read(got) ELSE [rest EXCEPT !.bytes = got \o @]

\* BotSource.Chunk: the rows' bytes from offset on, one DownloadRange per row.
\* It fails outside the chunk map, and stops without an error where a message
\* turns out short.
Chunk(obj, offset, limit) ==
  LET end == Min({offset + limit, obj.size})
      Download(row, cur, stop) == fetchRange(row.data, cur - row.offset, stop - row.offset)
      RowEnd(row) == Min({row.offset + row.size, end})
      read[cur \in Nat] ==
        IF cur >= end THEN Read(<<>>)
        ELSE LET i == locate(obj.rows, cur) IN
          IF i = 0 THEN Failed
          ELSE LET stop == RowEnd(obj.rows[i])
               IN  Stitch(Download(obj.rows[i], cur, stop), stop - cur, read[stop])
  IN  read[offset]

\* BotSource.ChunkSize: the window, halved while it is more than twice the span.
ChunkSize(start, end) ==
  LET halve[cs \in 0..StreamChunkSize] ==
        IF cs > WindowFloor /\ cs > 2 * (end - start) THEN halve[cs \div 2] ELSE cs
  IN  halve[StreamChunkSize]

\* A window's bytes and what follows them, up to the first failure.
Joined(window, rest) ==
  IF window.err THEN Failed
  ELSE [rest EXCEPT !.primed = TRUE, !.bytes = window.bytes \o @]

\* The reader over [start, end): aligned windows in order, each trimmed to the
\* range.
Stream(obj, start, end) ==
  LET cs == ChunkSize(start, end)
      Trim(off, c) == [c EXCEPT !.bytes = Slice(@, Max({start - off, 0}), end - off)]
      drain[off \in Nat] ==
        IF off >= end THEN Read(<<>>)
        ELSE Joined(Trim(off, Chunk(obj, off, cs)), drain[off + cs])
  IN  IF start >= end THEN Read(<<>>) ELSE drain[start - (start % cs)]

----------------------------------------------------------------------------
(* The GET                                                                 *)

\* An answer without the object's bytes.
Refused(st) == [status |-> st, start |-> 0, length |-> 0, bytes |-> <<>>]

\* streamObject: the status, the range and the Content-Length announced, and the
\* bytes that follow.  A stream whose first window fails (Prime) is a 502, a later
\* failure ends the connection.
Sent(st, start, end, s) ==
  IF s.err /\ ~s.primed
    THEN Refused(502)
    ELSE [status |-> st, start |-> start, length |-> end - start, bytes |-> s.bytes]

\* The answer of getObject given the status of the conditions and the range.
Serve(obj, cond, r) ==
  CASE cond # 0 -> Refused(cond)
    [] cond = 0 /\ ~r.isRange -> Sent(200, 0, obj.size, Stream(obj, 0, obj.size))
    [] cond = 0 /\ r.isRange /\ ~r.satisfiable -> Refused(416)
    [] cond = 0 /\ r.isRange /\ r.satisfiable ->
         Sent(206, r.start, r.end + 1, Stream(obj, r.start, r.end + 1))

\* The answer of getObject to the headers q = [cond, ifRange, range].
Answer(obj, q) ==
  Serve(obj, conditionalStatus(q.cond, obj),
        IF ifRangeAllows(q.ifRange, obj) THEN parseByteRange(q.range, obj.size) ELSE NoRange)
=============================================================================
