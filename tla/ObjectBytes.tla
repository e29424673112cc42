---------------------------- MODULE ObjectBytes ----------------------------
(***************************************************************************)
(* The bytes of one object, from the bodies clients send to the answers    *)
(* they get: ChunkedUpload stores a body, a part or a copy of the object,  *)
(* completeMultipartUpload strings parts together, and RangeRead serves    *)
(* the result.  Requests run one after the other here (what interleaving   *)
(* them does is the subject of MultipartGateway), but every upload may     *)
(* fail or lose its client at every step.                                  *)
(*                                                                         *)
(* A second client downloads the object, loses the connection, resumes     *)
(* with If-Range and revalidates what it holds.                            *)
(***************************************************************************)
EXTENDS ChunkedUpload, RangeRead

CONSTANTS
  Sources,      \* the request bodies of clients, as they arrive
  FirstBody,    \* the bytes of the object at the beginning
  PartNumbers,  \* the part numbers they use
  MinPartSize,  \* minPartSize (5 MiB)
  Ranges,       \* the Range headers of GETs
  CopyRanges,   \* the x-amz-copy-source-range headers of part copies
  MaxUploads,   \* bound on the number of bodies stored
  MaxSeconds    \* bound on the seconds between two versions

ASSUME BytesAssumption ==
  /\ \A s \in Sources : IsSource(s) /\ s.kind # "copy"
  /\ FirstBody \in Seq(Nat) /\ Len(FirstBody) \in 1..UploadChunkSize
  /\ PartNumbers \subseteq Nat \ {0}
  /\ {MinPartSize, MaxUploads, MaxSeconds} \subseteq Nat
  /\ \A h \in Ranges \cup CopyRanges : IsHeader(h)

VARIABLES
  object,   \* the objects row and its object_chunks rows
  parts,    \* the stored parts of one multipart upload, with their rows
  purpose,  \* what the upload under way is for: the object (part 0) or a part
  count,    \* the number of uploads so far, bounded by MaxUploads
  held      \* what the downloading client holds

bytesVars == <<object, parts, purpose, count, held>>

allVars == <<upVars, bytesVars>>

\* An ETag: the digest of the object's bytes, or of each part's.  MD5 is taken to
\* be injective, so that a digest is the bytes.
MD5(b) == [parts |-> 0, md5 |-> <<b>>]

\* The object as a GET finds it.
View == [rows |-> WithData(object.chunks), size |-> object.size, etag |-> object.etag,
         updated |-> object.updated]

IdsOf(chunks) == {chunks[i].id : i \in DOMAIN chunks}

----------------------------------------------------------------------------
(* Uploads                                                                 *)

NoPurpose == [part |-> 0, body |-> <<>>]

\* A request that stores body: for the object, or for a part of it.
begin(src, body, for) ==
  /\ count < MaxUploads
  /\ beginUpload(src)
  /\ purpose' = [part |-> for, body |-> body]
  /\ count' = count + 1
  /\ UNCHANGED <<object, parts, held>>

putObject == \E s \in Sources : begin(s, FlattenSeq(s.frames), 0)

uploadPart == \E s \in Sources, p \in PartNumbers : begin(s, FlattenSeq(s.frames), p)

\* The reader openObject returns for the bytes [start, end) of the object.
CopySource(start, end) ==
  [kind |-> "copy", frames |-> <<Stream(View, start, end).bytes>>, declared |-> -1]

\* CopyObject onto the object itself.
copyObject == begin(CopySource(0, object.size), object.body, 0)

\* UploadPartCopy of the range a header names.
uploadPartCopy ==
  \E p \in PartNumbers, h \in CopyRanges :
    LET r == parseByteRange(h, object.size) IN
      /\ r.satisfiable
      /\ begin(CopySource(r.start, r.end + 1), Slice(object.body, r.start, r.end + 1), p)

\* The time a version is stored: UpdatedAt, in seconds.
Times == object.updated..object.updated + MaxSeconds

\* The version that was stored at time t: size and digest are those of the bytes
\* read.  body is history: what the client meant.
Stored(t) ==
  [chunks |-> up.chunks, size |-> up.pos, etag |-> MD5(SubSeq(up.data, 1, up.pos)),
   updated |-> t, body |-> purpose.body]

\* The request is over.
Idle ==
  /\ up' = NoUpload
  /\ cancelled' = FALSE
  /\ purpose' = NoPurpose

\* The transaction replaced the row, and the handler reaps what it superseded.
finish ==
  /\ up.pc = "stored"
  /\ IF purpose.part = 0
       THEN /\ \E t \in Times : object' = Stored(t)
            /\ Delete(IdsOf(object.chunks))
            /\ UNCHANGED parts
       ELSE /\ parts' = [p \in DOMAIN parts \cup {purpose.part} |->
                           IF p = purpose.part THEN Stored(0) ELSE parts[p]]
            /\ Delete(IF purpose.part \in DOMAIN parts
                        THEN IdsOf(parts[purpose.part].chunks) ELSE {})
            /\ UNCHANGED object
  /\ Idle
  /\ UNCHANGED <<sent, count, held>>

\* The handler answers with an error.
giveUp ==
  /\ up.pc = "failed"
  /\ Idle
  /\ UNCHANGED <<messages, sent, lost, object, parts, count, held>>

----------------------------------------------------------------------------
(* completeMultipartUpload                                                 *)

SizeOf(rows) ==
  LET sum[i \in 0..Len(rows)] == IF i = 0 THEN 0 ELSE sum[i - 1] + rows[i].size
  IN  sum[Len(rows)]

\* The final chunk map: the parts' rows in order, each at the size so far.
Concatenated(list) ==
  LET rows == FlattenSeq([i \in DOMAIN list |-> parts[list[i]].chunks])
  IN  [i \in DOMAIN rows |-> [rows[i] EXCEPT !.offset = SizeOf(SubSeq(rows, 1, i - 1))]]

\* A list of stored parts in ascending order, all but the last large enough, is
\* finalized and what it superseded is reaped.  The rows of the parts it leaves
\* out are dropped with the upload; their messages stay.  MaxUploads is the bound
\* of the list, too: there is at most one part for each upload.
completeMultipartUpload ==
  /\ up.pc = "idle"
  /\ \E list \in BoundedSeq(DOMAIN parts, MaxUploads), t \in Times :
       LET rows == Concatenated(list)
           old  == IdsOf(object.chunks)
           unlisted == UNION {IdsOf(parts[p].chunks) : p \in DOMAIN parts \ Range(list)}
       IN  /\ list # <<>>
           /\ \A i \in 1..Len(list) - 1 : /\ list[i] < list[i + 1]
                                         /\ parts[list[i]].size >= MinPartSize
           /\ object' = [chunks |-> rows, size |-> SizeOf(rows),
                         etag |-> [parts |-> Len(list),
                                   md5 |-> [i \in DOMAIN list |-> parts[list[i]].etag.md5[1]]],
                         updated |-> t,
                         body |-> FlattenSeq([i \in DOMAIN list |-> parts[list[i]].body])]
           /\ \E gone \in {old} \cup (IF Flaky THEN {{}} ELSE {}) :
                /\ messages' = [m \in DOMAIN messages \ gone |-> messages[m]]
                /\ lost' = lost \cup (old \ gone) \cup unlisted
  /\ parts' = <<>>
  /\ UNCHANGED <<up, cancelled, sent, purpose, count, held>>

----------------------------------------------------------------------------
(* Downloads                                                               *)

NoConditions == [ifMatch |-> {}, unmodifiedSince |-> 0, ifNoneMatch |-> {}, modifiedSince |-> 0]

NoIfRange == [kind |-> "absent", etag |-> MD5(<<>>), date |-> 0]

NoHeader == [kind |-> "other", n |-> 0, first |-> 0, last |-> 0]

PlainGet == [cond |-> NoConditions, ifRange |-> NoIfRange, range |-> NoHeader]

\* What the client holds: the bytes, the validators of the answer they came
\* with, and history: the body they are a part of, and the body the server had
\* when it last said that they are current.
Nothing == [bytes |-> <<>>, etag |-> MD5(<<>>), updated |-> 0, body |-> <<>>, current |-> <<>>]

Keeps(bytes) ==
  held' = [bytes |-> bytes, etag |-> object.etag, updated |-> object.updated,
           body |-> object.body, current |-> object.body]

\* A GET; the connection may break after the first byte.
get ==
  /\ up.pc = "idle"
  /\ held = Nothing
  /\ LET a == Answer(View, PlainGet) IN
       /\ a.status = 200
       /\ \E n \in {1, Len(a.bytes)} \cap 1..Len(a.bytes) : Keeps(SubSeq(a.bytes, 1, n))
  /\ UNCHANGED <<upVars, object, parts, purpose, count>>

\* The rest of what the client holds, if it is still the same (If-Range with the
\* ETag): a 206 is appended, a 200 replaces it.
resume ==
  /\ up.pc = "idle"
  /\ held # Nothing
  /\ LET a == Answer(View, [PlainGet EXCEPT
                !.ifRange = [kind |-> "etag", etag |-> held.etag, date |-> 0],
                !.range = [NoHeader EXCEPT !.kind = "from", !.first = Len(held.bytes)]])
     IN  \/ a.status = 206 /\ Keeps(held.bytes \o a.bytes)
         \/ a.status = 200 /\ Keeps(a.bytes)
  /\ UNCHANGED <<upVars, object, parts, purpose, count>>

\* The client asks whether what it holds is current, the way browsers do: with
\* the ETag and the date.
revalidate ==
  /\ up.pc = "idle"
  /\ held # Nothing
  /\ LET a == Answer(View, [PlainGet EXCEPT
                !.cond = [NoConditions EXCEPT !.ifNoneMatch = {held.etag},
                                              !.modifiedSince = held.updated]])
     IN  \/ a.status = 304 /\ held' = [held EXCEPT !.current = object.body]
         \/ a.status = 200 /\ Keeps(a.bytes)
  /\ UNCHANGED <<upVars, object, parts, purpose, count>>

----------------------------------------------------------------------------

\* Earlier an object of one document was stored.
Init ==
  /\ up = NoUpload
  /\ cancelled = FALSE
  /\ messages = <<FirstBody>>
  /\ sent = 1
  /\ object = [chunks |-> <<[id |-> 1, offset |-> 0, size |-> Len(FirstBody)]>>,
               size |-> Len(FirstBody), etag |-> MD5(FirstBody), updated |-> 1,
               body |-> FirstBody]
  /\ lost = {}
  /\ parts = <<>>
  /\ purpose = NoPurpose
  /\ count = 0
  /\ held = Nothing

Next ==
  \/ putObject \/ uploadPart \/ copyObject \/ uploadPartCopy
  \/ finish \/ giveUp \/ completeMultipartUpload
  \/ (UploadStep \/ Cancel) /\ UNCHANGED bytesVars
  \/ get \/ resume \/ revalidate

\* A request that is under way goes on; nobody has to send one or to leave.
Spec == Init /\ [][Next]_allVars /\ WF_allVars(UploadStep /\ UNCHANGED bytesVars)

----------------------------------------------------------------------------
(* Properties                                                              *)

Referenced ==
  IdsOf(object.chunks) \cup UNION {IdsOf(parts[p].chunks) : p \in DOMAIN parts}

\* Between requests the channel holds the documents of the object and of the
\* parts, and otherwise only what failed calls have left there: a failed
\* request has removed what it sent, a successful one what it superseded, and
\* nothing that a row names is ever removed.
CleanFailure ==
  up.pc = "idle" =>
    /\ DOMAIN messages = Referenced \cup lost
    /\ Referenced \cap lost = {}

\* The status and the bytes that a GET with range header h of body b has to
\* yield, offset by offset.
Expected(b, h) ==
  LET Ignored == \/ h.kind = "other"
                 \/ h.kind = "suffix" /\ h.n = 0
                 \/ h.kind = "between" /\ h.last < h.first
      Asked(i) == CASE h.kind = "from" -> i >= h.first
                    [] h.kind = "between" -> i >= h.first /\ i <= h.last
                    [] h.kind = "suffix" -> i >= Len(b) - h.n
      Off == {i \in 0..Len(b) - 1 : Asked(i)}
  IN  IF Ignored THEN [status |-> 200, start |-> 0, length |-> Len(b), bytes |-> b]
      ELSE IF Off = {} THEN [status |-> 416, start |-> 0, length |-> 0, bytes |-> <<>>]
      ELSE [status |-> 206, start |-> Min(Off), length |-> Cardinality(Off),
            bytes |-> [i \in 1..Cardinality(Off) |-> b[Min(Off) + i]]]

\* Whatever way a body was stored (plain or framed, as a copy, in parts, the
\* cuts of the documents, of the frames, of the parts, of the prefetch windows
\* and of the Telegram reads falling anywhere), a GET is answered with the
\* bytes the client meant, and exactly the ones the Range header names.
RoundTrip ==
  up.pc = "idle" =>
    \A h \in Ranges : Answer(View, [PlainGet EXCEPT !.range = h]) = Expected(object.body, h)

\* A client that resumes a broken download with If-Range never ends up with the
\* bytes of two versions.
ResumeNeverMixes == IsPrefix(held.bytes, held.body)

\* A 304 is only ever given for bytes that are those of the current version, two
\* versions of the same second included.
CacheNeverStale == IsPrefix(held.bytes, held.current)
=============================================================================
