--------------------------- MODULE ObjectGateway ---------------------------
(***************************************************************************)
(* The object handlers of the S3 gateway (internal/s3api) over the SQLite  *)
(* metadata store (internal/metadata) and the Telegram channel that holds  *)
(* the bytes (internal/storage/telegram/mtproto).                          *)
(*                                                                         *)
(* A worker is one goroutine of the HTTP server.  It serves one request at *)
(* a time: PUT, COPY, GET, DELETE (single or bulk), CREATE or DELETE of a  *)
(* bucket.  A handler holds no lock, so every query, transaction or        *)
(* Telegram call it makes is one atomic step and the steps of different    *)
(* workers interleave freely.  The store serialises writes on one          *)
(* connection (store.go:25-28, 77-106), so a transaction is atomic: it     *)
(* commits as a whole or fails and changes nothing.                        *)
(*                                                                         *)
(* A document is the unit that becomes one Telegram message; a body is a   *)
(* sequence of documents.  Messages are never edited, so a reference to a  *)
(* message carries its document: [id, doc].                                *)
(***************************************************************************)
EXTENDS Integers, Sequences, Functions

CONSTANTS
  Workers,      \* the goroutines that serve requests
  Buckets,      \* bucket names
  Keys,         \* object keys
  Documents,    \* contents of one Telegram message
  Bodies,       \* the bodies clients upload
  DeleteLists,  \* the key lists of DELETE requests, single or bulk
  None,         \* "no row", "no name"
  MaxId,        \* bound on the message ids the channel hands out
  Faulty        \* TRUE: store and Telegram calls may fail, the server may crash

\* An object is identified by its bucket and its key.
Names == Buckets \X Keys

\* A message of the channel, and the reference to it a chunk row stores.
Messages == [id : Nat, doc : Documents]

\* An ETag: the digests it covers and the part count ("-N") of a multipart
\* ETag, 0 for a plain one.  MD5 is taken to be injective.
ETags == [digests : Seq(Seq(Documents)), parts : Nat]

\* A row of the objects table.
Rows == [size : Nat, etag : ETags]

ASSUME BodiesAssumption == Bodies \subseteq Seq(Documents)

ASSUME DeleteListsAssumption == DeleteLists \subseteq Seq(Names)

ASSUME NoneAssumption == None \notin Names \cup Buckets \cup Rows

ASSUME MaxIdAssumption == MaxId \in Nat

ASSUME FaultyAssumption == Faulty \in BOOLEAN

VARIABLES
  buckets,   \* the buckets table
  objects,   \* the objects table: [Names -> Rows \cup {None}]
  chunkMap,  \* the object_chunks table: [Names -> Seq(Messages)]
  channel,   \* the messages that exist in the Telegram channel
  nextId,    \* the id the channel gives to the next message
  req        \* the request each worker is serving, with the handler's locals

vars == <<buckets, objects, chunkMap, channel, nextId, req>>

store == <<buckets, objects, chunkMap>>

telegram == <<channel, nextId>>

\* Where a handler is: the call it makes next.
Positions ==
  {"idle", "loadRow", "loadChunks", "stream", "upload", "copyUpload", "readOld", "commit",
   "reap", "discard", "delRow", "delChunks", "delReap", "delCommit", "dropBucket", "done"}

Operations == {"none", "put", "copy", "get", "delete", "createBucket", "deleteBucket"}

Statuses == {"none", "ok", "missing", "conflict", "error"}

\* The handler's position and its local variables.
Requests ==
  [pc     : Positions,
   op     : Operations,
   name   : Names \cup {None},          \* the object written, read or deleted
   src    : Names \cup {None},          \* the object read (COPY, GET)
   bucket : Buckets \cup {None},        \* the bucket deleted
   body   : Seq(Documents),             \* the bytes uploaded, or served by GET
   row    : Rows \cup {None},           \* what GetObject returned
   read   : Seq(Messages),              \* what GetObjectChunks(src) returned
   chunks : Seq(Messages),              \* what Upload returned
   old    : Seq(Messages),              \* the chunks to delete
   todo   : Seq(Names),                 \* the keys a DELETE still has to do
   status : Statuses]

Idle ==
  [pc |-> "idle", op |-> "none", name |-> None, src |-> None, bucket |-> None,
   body |-> <<>>, row |-> None, read |-> <<>>, chunks |-> <<>>, old |-> <<>>,
   todo |-> <<>>, status |-> "none"]

TypeOK ==
  /\ buckets \subseteq Buckets
  /\ objects \in [Names -> Rows \cup {None}]
  /\ chunkMap \in [Names -> Seq(Messages)]
  /\ channel \subseteq Messages
  /\ nextId \in Nat
  /\ req \in [Workers -> Requests]

----------------------------------------------------------------------------
(* Helpers                                                                 *)

\* The documents of a sequence of messages, in order: the bytes they hold.
DocsOf(ms) == [i \in DOMAIN ms |-> ms[i].doc]

\* The ETag of an object stored in one piece: the MD5 of its bytes.
Md5(body) == [digests |-> <<body>>, parts |-> 0]

\* The objects row of an object whose streamed bytes are body.
ObjectRow(body) == [size |-> Len(body), etag |-> Md5(body)]

\* The messages Upload sends for body, in order, when the channel's next id is
\* first.
Sent(first, body) ==
  [i \in DOMAIN body |-> [id |-> first + i - 1, doc |-> body[i]]]

\* Worker w moves to the handler position p.
Goto(w, p) == req' = [req EXCEPT ![w].pc = p]

\* Worker w answers with status s; the rest of the request is forgotten.
Answer(w, s) == req' = [req EXCEPT ![w] = [Idle EXCEPT !.pc = "done", !.status = s]]

\* Worker w answers a request that reads an object with status s; what was asked
\* stays on record for the properties.
AnswerRead(w, s) ==
  req' = [req EXCEPT ![w] = [Idle EXCEPT !.pc = "done", !.op = req[w].op,
                                         !.name = req[w].name, !.status = s]]

\* DeleteBatch: best effort, so with faults any part of refs may survive.
DeleteBatch(refs) ==
  \E gone \in SUBSET refs :
    /\ Faulty \/ gone = refs
    /\ channel' = channel \ gone
    /\ UNCHANGED nextId

\* BotSource + prefetch reader over the source the handler loaded: a size beyond
\* the chunk map is an error ("offset outside chunk map"), a size short of it
\* truncates.
Covered(w) == req[w].row.size <= Len(req[w].read)

\* Every message the reader needs is there.  A message deleted meanwhile may be
\* served all the same, as long as a cached location for it is valid
\* (ChunkDownload).
Readable(w) == Covered(w) /\ \A i \in 1..req[w].row.size : req[w].read[i] \in channel

\* What the reader delivers: the documents up to size, or up to the end of the
\* chunk map before it fails.
SourceBytes(w) ==
  [i \in (1..req[w].row.size) \cap DOMAIN req[w].read |-> req[w].read[i].doc]

----------------------------------------------------------------------------
(* Buckets                                                                 *)

\* createBucket: one INSERT, a duplicate name is a constraint error (409).
createBucket(w, b) ==
  /\ req[w].pc = "idle"
  /\ \/ /\ b \notin buckets
        /\ buckets' = buckets \cup {b}
        /\ Answer(w, "ok")
     \/ /\ b \in buckets
        /\ Answer(w, "conflict")
        /\ UNCHANGED buckets
     \/ /\ Faulty
        /\ Answer(w, "error")
        /\ UNCHANGED buckets
  /\ UNCHANGED <<objects, chunkMap, telegram>>

\* A deleteBucket that does not look for objects.
deleteBucketList_noCheck(w, b) ==
  /\ req[w].pc = "idle"
  /\ req' = [req EXCEPT ![w] = [Idle EXCEPT !.pc = "dropBucket",
                                            !.op = "deleteBucket", !.bucket = b]]
  /\ UNCHANGED <<store, telegram>>

\* deleteBucket, its first query: the bucket must list no object.
deleteBucketList(w, b) ==
  /\ req[w].pc = "idle"
  /\ \/ /\ \E n \in Names : n[1] = b /\ objects[n] # None
        /\ Answer(w, "conflict")
     \/ /\ \A n \in Names : n[1] = b => objects[n] = None
        /\ req' = [req EXCEPT ![w] = [Idle EXCEPT !.pc = "dropBucket",
                                                  !.op = "deleteBucket", !.bucket = b]]
     \/ Faulty /\ Answer(w, "error")
  /\ UNCHANGED <<store, telegram>>

\* DeleteBucket: drops the buckets row only.  The connection never enables
\* foreign_keys, so the schema's ON DELETE CASCADE does nothing.
DeleteBucket(w) ==
  /\ req[w].pc = "dropBucket"
  /\ \/ /\ buckets' = buckets \ {req[w].bucket}
        /\ Answer(w, IF req[w].bucket \in buckets THEN "ok" ELSE "missing")
     \/ /\ Faulty
        /\ Answer(w, "error")
        /\ UNCHANGED buckets
  /\ UNCHANGED <<objects, chunkMap, telegram>>

----------------------------------------------------------------------------
(* PUT and COPY                                                            *)

\* BucketExists for the bucket of object n.
BucketExists(n) == n[1] \in buckets

\* putObject up to the upload: the bucket must exist.
putObject(w, n, body) ==
  /\ req[w].pc = "idle"
  /\ \/ /\ BucketExists(n)
        /\ req' = [req EXCEPT ![w] = [Idle EXCEPT !.pc = "upload", !.op = "put",
                                                  !.name = n, !.body = body]]
     \/ ~BucketExists(n) /\ Answer(w, "missing")
     \/ Faulty /\ Answer(w, "error")
  /\ UNCHANGED <<store, telegram>>

\* putObject with x-amz-copy-source: the bucket check, as above when it fails,
\* then copyObject, which refuses a source header it cannot parse.
copyObject(w, n, s) ==
  /\ req[w].pc = "idle"
  /\ BucketExists(n)
  /\ \/ req' = [req EXCEPT ![w] = [Idle EXCEPT !.pc = "loadRow", !.op = "copy", !.name = n,
                                               !.src = s]]
     \/ Answer(w, "error")
  /\ UNCHANGED <<store, telegram>>

\* The bound on message ids is reached: the channel refuses the upload.
Full(body) == nextId + Len(body) - 1 > MaxId

\* Upload returned chunks for all of body, and the handler goes on at p.
UploadOK(w, body, p) ==
  /\ ~Full(body)
  /\ channel' = channel \cup Range(Sent(nextId, body))
  /\ nextId' = nextId + Len(body)
  /\ req' = [req EXCEPT ![w] = [req[w] EXCEPT !.pc = p, !.chunks = Sent(nextId, body),
                                              !.body = body, !.row = None, !.read = <<>>]]

\* Upload returned an error: a malformed body, a failed chunk, a failed read of
\* the copy source.  It deletes what it sent; with faults some of it stays.
\* Ids of messages that were sent and deleted again are not counted.
UploadFails(w, body) ==
  /\ \E left \in SUBSET DOMAIN body :
       /\ left # {} => Faulty /\ ~Full(body)
       /\ channel' = channel \cup {Sent(nextId, body)[i] : i \in left}
       /\ nextId' = IF left = {} THEN nextId ELSE nextId + Len(body)
  /\ Answer(w, "error")

\* backend.Upload of the request body, then validateDecodedSize: when the length
\* the client declared does not match, the chunks are deleted again.
Upload(w) ==
  /\ req[w].pc = "upload"
  /\ \/ \E p \in {"readOld", "discard"} : UploadOK(w, req[w].body, p)
     \/ UploadFails(w, req[w].body)
  /\ UNCHANGED store

\* A copy by reference: the destination gets the source's own messages.
CopyUpload_byReference(w) ==
  /\ req[w].pc = "copyUpload"
  /\ Covered(w)
  /\ req' = [req EXCEPT ![w] = [@ EXCEPT !.pc = "readOld", !.chunks = req[w].read,
                                         !.body = SourceBytes(w), !.row = None,
                                         !.read = <<>>]]
  /\ UNCHANGED <<store, telegram>>

\* copyObject streams the source through openObject into Upload.  The bytes
\* hashed and counted are the bytes streamed, not the source row's.
CopyUpload(w) ==
  /\ req[w].pc = "copyUpload"
  /\ \/ Covered(w) /\ UploadOK(w, SourceBytes(w), "readOld")
     \/ /\ Faulty \/ ~Readable(w) \/ Full(SourceBytes(w))
        /\ UploadFails(w, SourceBytes(w))
  /\ UNCHANGED store

\* The requests that replace an object: PUT, COPY and, in MultipartGateway, the
\* completion of a multipart upload.
Overwrites == {"put", "copy", "complete"}

\* Reading the wrong key's prior version: the copy source's.
readOldChunks_ofSource(w) ==
  /\ req[w].pc = "readOld"
  /\ req[w].op \in Overwrites
  /\ \E old \in {chunkMap[IF req[w].op = "copy" THEN req[w].src ELSE req[w].name]} :
       req' = [req EXCEPT ![w] = [@ EXCEPT !.pc = "commit", !.old = old]]
  /\ UNCHANGED <<store, telegram>>

\* The prior version's chunks, read before the transaction replaces them.  An
\* error of this query is ignored and leaves none.
readOldChunks(w) ==
  /\ req[w].pc = "readOld"
  /\ req[w].op \in Overwrites
  /\ \E old \in {chunkMap[req[w].name]} \cup (IF Faulty THEN {<<>>} ELSE {}) :
       req' = [req EXCEPT ![w] = [@ EXCEPT !.pc = "commit", !.old = old]]
  /\ UNCHANGED <<store, telegram>>

\* INSERT without the DELETE before it: the old rows stay in front.
replaceObjectChunksTx_noDelete(prior, chunks) == prior \o chunks

\* replaceObjectChunksTx: DELETE the object's chunk rows, INSERT the new ones.
replaceObjectChunksTx(prior, chunks) == chunks

\* PutObject, one transaction: upsert the row, replace the chunk map.
PutObject(w) ==
  /\ req[w].pc = "commit"
  /\ req[w].op \in {"put", "copy"}
  /\ \/ /\ objects' = [objects EXCEPT ![req[w].name] = ObjectRow(req[w].body)]
        /\ chunkMap' = [chunkMap EXCEPT ![req[w].name] =
                          replaceObjectChunksTx(@, req[w].chunks)]
        /\ Goto(w, "reap")
     \/ /\ Faulty
        /\ Goto(w, "discard")
        /\ UNCHANGED <<objects, chunkMap>>
  /\ UNCHANGED <<buckets, telegram>>

\* A reap that reads the chunk map again, after the transaction.
reapSupersededChunks_reread(w) ==
  /\ req[w].pc = "reap"
  /\ channel' = channel \ (Range(req[w].old) \cup Range(chunkMap[req[w].name]))
  /\ Answer(w, "ok")
  /\ UNCHANGED <<store, nextId>>

\* reapSupersededChunks, then the 200 answer.
reapSupersededChunks(w) ==
  /\ req[w].pc = "reap"
  /\ DeleteBatch(Range(req[w].old))
  /\ Answer(w, "ok")
  /\ UNCHANGED store

\* deleteChunks: the new object was rejected or did not persist.
deleteChunks(w) ==
  /\ req[w].pc = "discard"
  /\ DeleteBatch(Range(req[w].chunks))
  /\ Answer(w, "error")
  /\ UNCHANGED store

----------------------------------------------------------------------------
(* GET, and the source half of COPY                                        *)

\* getObject begins.
getObject(w, n) ==
  /\ req[w].pc = "idle"
  /\ req' = [req EXCEPT ![w] = [Idle EXCEPT !.pc = "loadRow", !.op = "get", !.name = n,
                                            !.src = n]]
  /\ UNCHANGED <<store, telegram>>

\* GetObject of the source.
loadRow(w) ==
  /\ req[w].pc = "loadRow"
  /\ \/ /\ objects[req[w].src] # None
        /\ req' = [req EXCEPT ![w] = [@ EXCEPT !.pc = "loadChunks", !.row = objects[req[w].src]]]
     \/ objects[req[w].src] = None /\ AnswerRead(w, "missing")
     \/ Faulty /\ AnswerRead(w, "error")
  /\ UNCHANGED <<store, telegram>>

\* GetObjectChunks of the source: a second query, in no transaction with the
\* first.  A GET whose conditions fail or whose range is unsatisfiable (304, 412,
\* 416) ends here.
loadChunks(w) ==
  /\ req[w].pc = "loadChunks"
  /\ \/ req' = [req EXCEPT ![w] = [@ EXCEPT
                  !.pc = IF req[w].op = "get" THEN "stream" ELSE "copyUpload",
                  !.read = chunkMap[req[w].src]]]
     \/ req[w].op = "get" /\ AnswerRead(w, "conflict")
     \/ Faulty /\ AnswerRead(w, "error")
  /\ UNCHANGED <<store, telegram>>

\* streamObject: all of the bytes, or a 502 / an aborted connection.
streamObject(w) ==
  /\ req[w].pc = "stream"
  /\ \/ /\ Covered(w)
        /\ req' = [req EXCEPT ![w] = [@ EXCEPT !.pc = "done", !.status = "ok",
                                               !.body = SourceBytes(w)]]
     \/ (Faulty \/ ~Readable(w)) /\ AnswerRead(w, "error")
  /\ UNCHANGED <<store, telegram>>

----------------------------------------------------------------------------
(* DELETE                                                                  *)

\* deleteObject (a list of one) and deleteObjects (bulk) begin.  A bulk request
\* must name a key.
deleteObjects(w, names) ==
  /\ req[w].pc = "idle"
  /\ \/ /\ names # <<>>
        /\ req' = [req EXCEPT ![w] = [Idle EXCEPT !.pc = "delRow", !.op = "delete",
                                                  !.todo = names, !.name = names[1]]]
     \/ names = <<>> /\ Answer(w, "error")
  /\ UNCHANGED <<store, telegram>>

\* deleteOneObject is over for the current key, with status s: go on with the
\* next key of the list.  A failed key does not stop the others; the answer to
\* a bulk request is 200 and lists it.
NextKey(w, s) ==
  IF Len(req[w].todo) = 1
    THEN Answer(w, s)
    ELSE req' = [req EXCEPT ![w] = [req[w] EXCEPT !.pc = "delRow", !.todo = Tail(req[w].todo),
                                                  !.name = req[w].todo[2], !.old = <<>>]]

\* GetObject: a missing object is not an error.
deleteOneObject(w) ==
  /\ req[w].pc = "delRow"
  /\ \/ objects[req[w].name] = None /\ NextKey(w, "ok")
     \/ objects[req[w].name] # None /\ Goto(w, "delChunks")
     \/ Faulty /\ NextKey(w, "error")
  /\ UNCHANGED <<store, telegram>>

\* GetObjectChunks: the chunk list is read while it is still there.
deleteReadChunks(w) ==
  /\ req[w].pc = "delChunks"
  /\ \/ req' = [req EXCEPT ![w] = [@ EXCEPT !.pc = "delReap", !.old = chunkMap[req[w].name]]]
     \/ Faulty /\ NextKey(w, "error")
  /\ UNCHANGED <<store, telegram>>

\* DeleteBatch of the object's messages, whose failure is only logged.
deleteReap(w) ==
  /\ req[w].pc = "delReap"
  /\ DeleteBatch(Range(req[w].old))
  /\ Goto(w, "delCommit")
  /\ UNCHANGED store

\* A DeleteObject that blanks the chunk column instead of deleting the rows.
DeleteObject_nullChunks(w) ==
  /\ req[w].pc = "delCommit"
  /\ objects' = [objects EXCEPT ![req[w].name] = None]
  /\ chunkMap' = [chunkMap EXCEPT ![req[w].name] = None]
  /\ NextKey(w, "ok")
  /\ UNCHANGED <<buckets, telegram>>

\* DeleteObject, one transaction: chunk rows and object row.
DeleteObject(w) ==
  /\ req[w].pc = "delCommit"
  /\ \/ /\ objects' = [objects EXCEPT ![req[w].name] = None]
        /\ chunkMap' = [chunkMap EXCEPT ![req[w].name] = <<>>]
        /\ NextKey(w, "ok")
     \/ /\ Faulty
        /\ NextKey(w, "error")
        /\ UNCHANGED <<objects, chunkMap>>
  /\ UNCHANGED <<buckets, telegram>>

----------------------------------------------------------------------------
(* The environment and the specification                                   *)

\* The answer has left; the goroutine takes the next request.
Answered(w) ==
  /\ req[w].pc = "done"
  /\ req' = [req EXCEPT ![w] = Idle]
  /\ UNCHANGED <<store, telegram>>

\* The process dies and restarts: database and channel survive, the requests
\* and their locals are gone.
Crash ==
  /\ Faulty
  /\ req' = [w \in Workers |-> Idle]
  /\ UNCHANGED <<store, telegram>>

Init ==
  /\ buckets = {}
  /\ objects = [n \in Names |-> None]
  /\ chunkMap = [n \in Names |-> <<>>]
  /\ channel = {}
  /\ nextId = 1
  /\ req = [w \in Workers |-> Idle]

\* Requests arriving at worker w.
Begin(w) ==
  \/ \E b \in Buckets : createBucket(w, b) \/ deleteBucketList(w, b)
  \/ \E n \in Names : \/ \E body \in Bodies : putObject(w, n, body)
                      \/ \E s \in Names : copyObject(w, n, s)
                      \/ getObject(w, n)
  \/ \E names \in DeleteLists : deleteObjects(w, names)

\* Steps of the handler worker w is running.
Step(w) ==
  \/ DeleteBucket(w)
  \/ Upload(w) \/ CopyUpload(w) \/ readOldChunks(w) \/ PutObject(w)
  \/ reapSupersededChunks(w) \/ deleteChunks(w)
  \/ loadRow(w) \/ loadChunks(w) \/ streamObject(w)
  \/ deleteOneObject(w) \/ deleteReadChunks(w) \/ deleteReap(w) \/ DeleteObject(w)
  \/ Answered(w)

Next == (\E w \in Workers : Begin(w) \/ Step(w)) \/ Crash

Spec == Init /\ [][Next]_vars

----------------------------------------------------------------------------
(* Properties                                                              *)

\* The messages a handler has sent and not yet committed or given up.
InFlight(w) ==
  IF req[w].pc \in {"readOld", "commit", "discard"} THEN Range(req[w].chunks) ELSE {}

\* Every message has one owner: one object's chunk map, or one request that is
\* about to commit it.  This is what "copy = re-upload, never message
\* ref-counting" (putObject, copyObject) is for: a message with two owners
\* would be deleted under one of them when the other is overwritten.
OneOwner ==
  /\ \A n1, n2 \in Names :
       n1 # n2 => Range(chunkMap[n1]) \cap Range(chunkMap[n2]) = {}
  /\ \A w \in Workers, n \in Names : InFlight(w) \cap Range(chunkMap[n]) = {}
  /\ \A v, w \in Workers : v # w => InFlight(v) \cap InFlight(w) = {}

\* The messages a handler is going to delete as superseded: the chunk list it
\* has read, which nothing keeps up to date.
Doomed(w) ==
  IF req[w].pc \in {"commit", "reap", "delReap"} THEN Range(req[w].old) ELSE {}

\* The stale list a handler read before its transaction never names a message
\* that is about to be committed, nor one of another key; and once the handler's
\* own transaction is through (putObject, copyObject), none of any current
\* version at all, whatever other requests did in between.
DoomedNotOwned ==
  /\ \A v, w \in Workers : Doomed(w) \cap InFlight(v) = {}
  /\ \A w \in Workers, n \in Names :
       n # req[w].name \/ req[w].pc = "reap" => Doomed(w) \cap Range(chunkMap[n]) = {}

\* ReapSparesCurrent: no step deletes a message that a current chunk map refers
\* to, except the DELETE of that very object (deleteOneObject removes messages before rows).
\* In particular reapSupersededChunks, whose chunk list was read before the
\* transaction and is stale by the time it runs, never hits a newer version.
SparesCurrent ==
  \A n \in Names : \A m \in Range(chunkMap[n]) :
    m \in channel \ channel' =>
      \E w \in Workers : req[w].pc = "delReap" /\ req[w].name = n

ReapSparesCurrent == [][SparesCurrent]_vars

\* The objects row describes the chunk map: its size and its ETag are those of
\* the bytes the chunk map holds, and an object without row has no chunks.  A
\* COPY keeps this even when its source was overwritten between its two
\* queries, because it counts and hashes what it streamed.
RowMatchesMap ==
  \A n \in Names : IF objects[n] = None
                     THEN chunkMap[n] = <<>>
                     ELSE objects[n] = ObjectRow(DocsOf(chunkMap[n]))

\* A GET that succeeds never mixes versions: what it serves is one uploaded
\* body or a prefix of one, even though row, chunk map and messages are read
\* at different times.
NoMixedVersions ==
  \A w \in Workers :
    req[w].pc = "done" /\ req[w].op = "get" /\ req[w].status = "ok" =>
      \E body \in Bodies : \E k \in 0..Len(body) : req[w].body = SubSeq(body, 1, k)

\* No handler is running.
Quiescent == \A w \in Workers : req[w].pc \in {"idle", "done"}

\* A GET alone on the server serves the object's current row and bytes, or
\* refuses its conditions, and reports a missing object exactly when there is
\* none (getObject).
GetServesCurrent ==
  \A w \in Workers :
    req[w].pc = "done" /\ req[w].op = "get" =>
      IF objects[req[w].name] = None
        THEN req[w].status = "missing"
        ELSE /\ req[w].status \in {"ok", "conflict"}
             /\ req[w].status = "ok" => /\ req[w].row = objects[req[w].name]
                                       /\ req[w].body = DocsOf(chunkMap[req[w].name])

\* Every object is in an existing bucket (store.go:138, FOREIGN KEY (bucket)
\* REFERENCES buckets(name)).
ObjectsInBuckets == \A n \in Names : objects[n] # None => n[1] \in buckets

\* The ETag a GET sends is the MD5 of the body it sends
\* (integration_test.go:177-179).
GetETagMatchesBody ==
  \A w \in Workers :
    req[w].pc = "done" /\ req[w].op = "get" /\ req[w].status = "ok" =>
      req[w].row.etag = Md5(req[w].body)
=============================================================================
