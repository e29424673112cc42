-------------------------- MODULE MultipartGateway --------------------------
(***************************************************************************)
(* The multipart handlers (internal/s3api/multipart.go, uploadPartCopy of  *)
(* copy.go, janitor.go) composed with the object handlers of ObjectGateway *)
(* over the same store and the same channel.                               *)
(*                                                                         *)
(* The handlers share the object handlers' steps where the code shares the *)
(* functions: Upload, CopyUpload, loadSource, readOldChunks,               *)
(* reapSupersededChunks and deleteChunks are ObjectGateway's actions.  The *)
(* janitor's sweep is run by a worker too, at most one at a time.          *)
(***************************************************************************)
EXTENDS ObjectGateway, SequencesExt

CONSTANTS
  Uploads,        \* upload ids; newUploadID never repeats one
  PartNumbers,    \* the part numbers clients use (the code admits 1..10000)
  CompleteLists,  \* the part lists of CompleteMultipartUpload requests
  MinPartSize     \* minPartSize (5 MiB), in documents

\* An entry of a complete request, and a row of multipart_parts.  A part's ETag
\* is the MD5 of its bytes.
PartEntries == [num : Nat, etag : Seq(Documents)]

Parts == [etag : Seq(Documents), size : Nat]

ASSUME PartNumbersAssumption == PartNumbers \subseteq Nat \ {0}

ASSUME CompleteListsAssumption == CompleteLists \subseteq Seq(PartEntries)

ASSUME NoUploadAssumption == None \notin Uploads \cup PartNumbers \cup Parts

VARIABLES
  owner,    \* the bucket and key an upload id was created for (None: unused id)
  uploads,  \* the multipart_uploads table: the ids of its rows
  parts,    \* the multipart_parts table
  partMap,  \* the multipart_part_chunks table
  mp        \* the locals of the multipart handlers

mpStore == <<owner, uploads, parts, partMap>>

mpVars == <<mpStore, mp>>

allVars == <<vars, mpVars>>

NoParts == [p \in PartNumbers |-> None]

NoPartChunks == [p \in PartNumbers |-> <<>>]

MPIdle == [upload |-> None, part |-> None, list |-> <<>>, got |-> 0, stored |-> NoParts,
           all |-> {}, todo |-> {}]

MPTypeOK ==
  /\ buckets \subseteq Buckets
  /\ objects \in [Names -> Rows \cup {None}]
  /\ chunkMap \in [Names -> Seq(Messages)]
  /\ channel \subseteq Messages
  /\ nextId \in Nat
  /\ \A w \in Workers :
       /\ [req[w] EXCEPT !.pc = "idle", !.op = "none"] \in Requests
       /\ req[w].pc \in Positions \cup {"mpCreate", "mpParts", "mpGather", "mpAll", "mpReap",
                                        "mpDrop", "sweepNext"}
       /\ req[w].op \in Operations \cup {"create", "part", "partCopy", "complete", "abort",
                                         "sweep"}
  /\ owner \in [Uploads -> Names \cup {None}]
  /\ uploads \subseteq Uploads
  /\ parts \in [Uploads -> [PartNumbers -> Parts \cup {None}]]
  /\ partMap \in [Uploads -> [PartNumbers -> Seq(Messages)]]
  /\ mp \in [Workers -> [upload : Uploads \cup {None}, part : PartNumbers \cup {None},
                         list : Seq(PartEntries), got : Nat,
                         stored : [PartNumbers -> Parts \cup {None}],
                         all : SUBSET Messages, todo : SUBSET Uploads]]

\* Worker w answers a multipart request; its locals go with it.
MPAnswer(w, s) == Answer(w, s) /\ mp' = [mp EXCEPT ![w] = MPIdle]

----------------------------------------------------------------------------
(* Create                                                                  *)

\* createMultipartUpload, its first query.
createMultipartUpload(w, n) ==
  /\ req[w].pc = "idle"
  /\ \/ /\ BucketExists(n)
        /\ req' = [req EXCEPT ![w] = [Idle EXCEPT !.pc = "mpCreate", !.op = "create",
                                                  !.name = n]]
     \/ ~BucketExists(n) /\ Answer(w, "missing")
     \/ Faulty /\ Answer(w, "error")
  /\ UNCHANGED <<store, telegram, mpVars>>

\* CreateMultipartUpload under a fresh id.  The metadata headers are stashed in
\* a second statement; when it fails the answer is an error and the row stays.
CreateMultipartUpload(w) ==
  /\ req[w].pc = "mpCreate"
  /\ \/ \E u \in Uploads :
          /\ owner[u] = None
          /\ owner' = [owner EXCEPT ![u] = req[w].name]
          /\ uploads' = uploads \cup {u}
          /\ \E s \in {"ok"} \cup (IF Faulty THEN {"error"} ELSE {}) : Answer(w, s)
     \/ /\ Faulty \/ \A u \in Uploads : owner[u] # None
        /\ Answer(w, "error")
        /\ UNCHANGED <<owner, uploads>>
  /\ UNCHANGED <<store, telegram, parts, partMap, mp>>

----------------------------------------------------------------------------
(* Upload of a part                                                        *)

\* resolveUpload: the upload row must be there, for this bucket and key.
resolveUpload(u) == u \in uploads

\* An uploadPart that does not check the range of the part number.
uploadPart_anyNumber(w, u, p, body) ==
  /\ req[w].pc = "idle"
  /\ resolveUpload(u)
  /\ req' = [req EXCEPT ![w] = [Idle EXCEPT !.pc = "upload", !.op = "part",
                                            !.name = owner[u], !.body = body]]
  /\ mp' = [mp EXCEPT ![w] = [MPIdle EXCEPT !.upload = u, !.part = 0]]
  /\ UNCHANGED <<store, telegram, mpStore>>

\* uploadPart up to the upload.  A part number outside 1..10000 is refused before
\* anything is read: an error answer, like that of a failed query.
uploadPart(w, u, p, body) ==
  /\ req[w].pc = "idle"
  /\ \/ /\ resolveUpload(u)
        /\ req' = [req EXCEPT ![w] = [Idle EXCEPT !.pc = "upload", !.op = "part",
                                                  !.name = owner[u], !.body = body]]
        /\ mp' = [mp EXCEPT ![w] = [MPIdle EXCEPT !.upload = u, !.part = p]]
     \/ ~resolveUpload(u) /\ Answer(w, "missing") /\ UNCHANGED mp
     \/ Answer(w, "error") /\ UNCHANGED mp
  /\ UNCHANGED <<store, telegram, mpStore>>

\* uploadPart with x-amz-copy-source, then uploadPartCopy of the whole source
\* object s.  A missing upload is answered as above.
uploadPartCopy(w, u, p, s) ==
  /\ req[w].pc = "idle"
  /\ resolveUpload(u)
  /\ req' = [req EXCEPT ![w] = [Idle EXCEPT !.pc = "loadRow", !.op = "partCopy",
                                            !.name = owner[u], !.src = s]]
  /\ mp' = [mp EXCEPT ![w] = [MPIdle EXCEPT !.upload = u, !.part = p]]
  /\ UNCHANGED <<store, telegram, mpStore>>

\* A part upload that forgets the part it replaces.
readOldPartChunks_none(w) ==
  /\ req[w].pc = "readOld"
  /\ req[w].op \in {"part", "partCopy"}
  /\ Goto(w, "commit")
  /\ UNCHANGED <<store, telegram, mpVars>>

\* The chunks of the part's prior upload, read before they are replaced.
readOldPartChunks(w) ==
  /\ req[w].pc = "readOld"
  /\ req[w].op \in {"part", "partCopy"}
  /\ \E old \in {partMap[mp[w].upload][mp[w].part]} \cup (IF Faulty THEN {<<>>} ELSE {}) :
       req' = [req EXCEPT ![w].pc = "commit", ![w].old = old]
  /\ UNCHANGED <<store, telegram, mpVars>>

\* A PutMultipartPart whose upsert keeps the row of the part it replaces.
PutMultipartPart_keepsRow(w) ==
  /\ req[w].pc = "commit"
  /\ req[w].op \in {"part", "partCopy"}
  /\ parts' = [parts EXCEPT ![mp[w].upload][mp[w].part] =
                 IF @ = None THEN [etag |-> req[w].body, size |-> Len(req[w].body)] ELSE @]
  /\ partMap' = [partMap EXCEPT ![mp[w].upload][mp[w].part] = req[w].chunks]
  /\ Goto(w, "reap")
  /\ UNCHANGED <<store, telegram, owner, uploads, mp>>

\* PutMultipartPart, one transaction: upsert the part row, replace its chunks.
\* Nothing checks that the upload still exists.
PutMultipartPart(w) ==
  /\ req[w].pc = "commit"
  /\ req[w].op \in {"part", "partCopy"}
  /\ \/ /\ parts' = [parts EXCEPT ![mp[w].upload][mp[w].part] =
                       [etag |-> req[w].body, size |-> Len(req[w].body)]]
        /\ partMap' = [partMap EXCEPT ![mp[w].upload][mp[w].part] = req[w].chunks]
        /\ Goto(w, "reap")
     \/ /\ Faulty
        /\ Goto(w, "discard")
        /\ UNCHANGED <<parts, partMap>>
  /\ UNCHANGED <<store, telegram, owner, uploads, mp>>

----------------------------------------------------------------------------
(* Complete                                                                *)

\* completeMultipartUpload, resolveUpload.
completeMultipartUpload(w, u, list) ==
  /\ req[w].pc = "idle"
  /\ \/ /\ resolveUpload(u)
        /\ req' = [req EXCEPT ![w] = [Idle EXCEPT !.pc = "mpParts", !.op = "complete",
                                                  !.name = owner[u]]]
        /\ mp' = [mp EXCEPT ![w] = [MPIdle EXCEPT !.upload = u, !.list = list]]
     \/ ~resolveUpload(u) /\ Answer(w, "missing") /\ UNCHANGED mp
     \/ Faulty /\ Answer(w, "error") /\ UNCHANGED mp
  /\ UNCHANGED <<store, telegram, mpStore>>

\* The request's list against the stored parts: not empty, strictly ascending,
\* every part stored with the ETag given, none but the last too small.
ValidParts(list, stored) ==
  /\ list # <<>>
  /\ \A i \in 1..Len(list) - 1 : list[i].num < list[i + 1].num
  /\ \A i \in DOMAIN list :
       /\ list[i].num \in PartNumbers
       /\ stored[list[i].num] # None
       /\ stored[list[i].num].etag = list[i].etag
       /\ i # Len(list) => stored[list[i].num].size >= MinPartSize

\* ListMultipartParts and the checks, which use this one snapshot.
ListMultipartParts(w) ==
  /\ req[w].pc = "mpParts"
  /\ LET stored == parts[mp[w].upload] IN
       \/ /\ ValidParts(mp[w].list, stored)
          /\ Goto(w, "mpGather")
          /\ mp' = [mp EXCEPT ![w].stored = stored]
       \/ /\ ~ValidParts(mp[w].list, stored) \/ Faulty
          /\ MPAnswer(w, "error")
  /\ UNCHANGED <<store, telegram, mpStore>>

\* GetMultipartPartChunks of the next listed part: one query per part, none of
\* them in a transaction with the snapshot.
gatherPartChunks(w) ==
  /\ req[w].pc = "mpGather"
  /\ LET i == mp[w].got + 1 IN
       \/ /\ req' = [req EXCEPT ![w].pc = IF i = Len(mp[w].list) THEN "readOld" ELSE @,
                                ![w].chunks = @ \o partMap[mp[w].upload][mp[w].list[i].num]]
          /\ mp' = [mp EXCEPT ![w].got = i]
       \/ Faulty /\ MPAnswer(w, "error")
  /\ UNCHANGED <<store, telegram, mpStore>>

\* The row of the assembled object: the size counts the chunks read, the ETag
\* covers the part ETags of the snapshot.
AssembledRow(w) ==
  [size |-> Len(req[w].chunks),
   etag |-> [digests |-> [i \in DOMAIN mp[w].list |->
                            mp[w].stored[mp[w].list[i].num].etag],
             parts |-> Len(mp[w].list)]]

\* A finalize that drops the upload's row and leaves those of its parts.
FinalizeMultipartUpload_keepsParts(w) ==
  /\ req[w].pc = "commit"
  /\ req[w].op = "complete"
  /\ objects' = [objects EXCEPT ![req[w].name] = AssembledRow(w)]
  /\ chunkMap' = [chunkMap EXCEPT ![req[w].name] = req[w].chunks]
  /\ uploads' = uploads \ {mp[w].upload}
  /\ Goto(w, "reap")
  /\ UNCHANGED <<buckets, telegram, owner, parts, partMap, mp>>

\* FinalizeMultipartUpload, one transaction: the object's row and chunk map, and
\* every row of the upload deleted.  It succeeds whether or not those rows are
\* still there.  When it fails the parts stay as they were.
FinalizeMultipartUpload(w) ==
  /\ req[w].pc = "commit"
  /\ req[w].op = "complete"
  /\ \/ /\ objects' = [objects EXCEPT ![req[w].name] = AssembledRow(w)]
        /\ chunkMap' = [chunkMap EXCEPT ![req[w].name] =
                          replaceObjectChunksTx(@, req[w].chunks)]
        /\ uploads' = uploads \ {mp[w].upload}
        /\ parts' = [parts EXCEPT ![mp[w].upload] = NoParts]
        /\ partMap' = [partMap EXCEPT ![mp[w].upload] = NoPartChunks]
        /\ Goto(w, "reap")
        /\ UNCHANGED mp
     \/ /\ Faulty
        /\ MPAnswer(w, "error")
        /\ UNCHANGED <<objects, chunkMap, uploads, parts, partMap>>
  /\ UNCHANGED <<buckets, telegram, owner>>

----------------------------------------------------------------------------
(* Abort, by a client or by the janitor                                    *)

\* abortMultipartUpload, resolveUpload.
abortMultipartUpload(w, u) ==
  /\ req[w].pc = "idle"
  /\ \/ /\ resolveUpload(u)
        /\ req' = [req EXCEPT ![w] = [Idle EXCEPT !.pc = "mpAll", !.op = "abort",
                                                  !.name = owner[u]]]
        /\ mp' = [mp EXCEPT ![w] = [MPIdle EXCEPT !.upload = u]]
     \/ ~resolveUpload(u) /\ Answer(w, "missing") /\ UNCHANGED mp
     \/ Faulty /\ Answer(w, "error") /\ UNCHANGED mp
  /\ UNCHANGED <<store, telegram, mpStore>>

\* sweepStaleMultipartUploads: the uploads older than the TTL, in one query.
\* Time is abstracted: any upload may be stale.  RunMultipartJanitor runs the
\* sweeps one after the other.
sweepStaleMultipartUploads(w) ==
  /\ req[w].pc = "idle"
  /\ \A v \in Workers : req[v].op # "sweep"
  /\ \E stale \in SUBSET uploads :
       /\ stale # {}
       /\ req' = [req EXCEPT ![w] = [Idle EXCEPT !.pc = "sweepNext", !.op = "sweep"]]
       /\ mp' = [mp EXCEPT ![w] = [MPIdle EXCEPT !.todo = stale]]
  /\ UNCHANGED <<store, telegram, mpStore>>

\* The loop of the sweep turns to its next upload, unseen whether it is still
\* there.
sweepNext(w) ==
  /\ req[w].pc = "sweepNext"
  /\ \E u \in mp[w].todo :
       /\ req' = [req EXCEPT ![w].pc = "mpAll", ![w].name = owner[u]]
       /\ mp' = [mp EXCEPT ![w].upload = u, ![w].all = {}, ![w].todo = @ \ {u}]
  /\ UNCHANGED <<store, telegram, mpStore>>

\* abortUploadInternal is over, with status s; a sweep goes on after an error.
AbortDone(w, s) ==
  IF mp[w].todo # {} THEN Goto(w, "sweepNext") /\ UNCHANGED mp ELSE MPAnswer(w, s)

\* AllMultipartChunks: the chunks of every part.
AllMultipartChunks(w) ==
  /\ req[w].pc = "mpAll"
  /\ \/ /\ Goto(w, "mpReap")
        /\ mp' = [mp EXCEPT ![w].all = UNION {Range(partMap[mp[w].upload][p]) : p \in PartNumbers}]
     \/ Faulty /\ AbortDone(w, "error")
  /\ UNCHANGED <<store, telegram, mpStore>>

\* DeleteBatch of all part messages, whose failure is only logged.
abortReap(w) ==
  /\ req[w].pc = "mpReap"
  /\ DeleteBatch(mp[w].all)
  /\ Goto(w, "mpDrop")
  /\ UNCHANGED <<store, mpVars>>

\* DeleteMultipartUpload, one transaction.
DeleteMultipartUpload(w) ==
  /\ req[w].pc = "mpDrop"
  /\ \/ /\ uploads' = uploads \ {mp[w].upload}
        /\ parts' = [parts EXCEPT ![mp[w].upload] = NoParts]
        /\ partMap' = [partMap EXCEPT ![mp[w].upload] = NoPartChunks]
        /\ AbortDone(w, "ok")
     \/ /\ Faulty
        /\ AbortDone(w, "error")
        /\ UNCHANGED <<uploads, parts, partMap>>
  /\ UNCHANGED <<store, telegram, owner>>

----------------------------------------------------------------------------
(* The composition                                                         *)

MPInit ==
  /\ Init
  /\ owner = [u \in Uploads |-> None]
  /\ uploads = {}
  /\ parts = [u \in Uploads |-> NoParts]
  /\ partMap = [u \in Uploads |-> NoPartChunks]
  /\ mp = [w \in Workers |-> MPIdle]

MPBegin(w) ==
  \/ \E n \in Names : createMultipartUpload(w, n)
  \/ \E u \in Uploads :
       \/ \E p \in PartNumbers : \/ \E body \in Bodies : uploadPart(w, u, p, body)
                                 \/ \E s \in Names : uploadPartCopy(w, u, p, s)
       \/ \E list \in CompleteLists : completeMultipartUpload(w, u, list)
       \/ abortMultipartUpload(w, u)
  \/ sweepStaleMultipartUploads(w)

MPStep(w) ==
  \/ CreateMultipartUpload(w)
  \/ readOldPartChunks(w) \/ PutMultipartPart(w)
  \/ ListMultipartParts(w) \/ gatherPartChunks(w) \/ FinalizeMultipartUpload(w)
  \/ sweepNext(w) \/ AllMultipartChunks(w) \/ abortReap(w) \/ DeleteMultipartUpload(w)

\* The steps of the object handlers.  An answered request takes its multipart
\* locals along.
ObjectStep(w) ==
  /\ Begin(w) \/ Step(w)
  /\ mp' = IF req'[w].pc = "done" THEN [mp EXCEPT ![w] = MPIdle] ELSE mp
  /\ UNCHANGED mpStore

MPNext ==
  \/ \E w \in Workers : ObjectStep(w) \/ MPBegin(w) \/ MPStep(w)
  \/ Crash /\ mp' = [w \in Workers |-> MPIdle] /\ UNCHANGED mpStore

MPSpec == MPInit /\ [][MPNext]_allVars

----------------------------------------------------------------------------
(* Properties                                                              *)

\* Trouble stays within one key.  Whatever races (two completions, an abort
\* under a completion, a part uploaded again), a message that an object's
\* current chunk map refers to is deleted only by a request for that object's
\* own key: an overwrite, a delete, or a part or abort of an upload to it.
DamageStaysInKey ==
  [][\A n \in Names : \A m \in Range(chunkMap[n]) :
       m \in channel \ channel' =>
         \E w \in Workers : /\ req[w].name = n
                           /\ req[w].pc \in {"reap", "delReap", "mpReap"}]_allVars

\* No two objects, and no object and upload to another key, refer to the same
\* message.
NoCrossKeySharing ==
  /\ \A n1, n2 \in Names :
       n1 # n2 => Range(chunkMap[n1]) \cap Range(chunkMap[n2]) = {}
  /\ \A n \in Names, u \in Uploads, p \in PartNumbers :
       owner[u] # n => Range(chunkMap[n]) \cap Range(partMap[u][p]) = {}
  /\ \A u, v \in Uploads, p, q \in PartNumbers :
       <<u, p>> # <<v, q>> => Range(partMap[u][p]) \cap Range(partMap[v][q]) = {}

\* The messages the tables refer to.
Referenced ==
  (UNION {Range(chunkMap[n]) : n \in Names})
    \cup (UNION {Range(partMap[u][p]) : u \in Uploads, p \in PartNumbers})

\* Requests that run one after the other, without failures, leave nothing
\* behind: at rest the channel holds exactly the messages the tables refer to,
\* no object or part has lost one and none is orphaned.  (A completion that
\* does not list every stored part does orphan the others: its transaction
\* drops their rows and nobody deletes their messages.)
NothingLeftBehind == Quiescent => channel = Referenced

\* Without concurrency the ETag of every object, multipart ones included,
\* describes the bytes its chunk map holds: the part digests, in order, are
\* the documents.
ETagCoversMap ==
  \A n \in Names : objects[n] # None =>
    /\ FlattenSeq(objects[n].etag.digests) = DocsOf(chunkMap[n])
    /\ objects[n].size = Len(chunkMap[n])

\* The bookkeeping of an upload goes with its row: at rest, no part chunks for
\* an upload that was completed or aborted.  Such chunks would be out of the
\* reach of aborts and of the janitor, which look for the upload's row.
NoRowsOfEndedUpload ==
  Quiescent => \A u \in Uploads : u \notin uploads => partMap[u] = NoPartChunks

\* Without concurrency an object stored by PUT or COPY is in an existing bucket:
\* putObject checks the bucket and deleteBucket refuses one that has objects.
\* (Completions do not check: an upload outlives its bucket, ObjectsInBuckets.)
PlainObjectsInBuckets ==
  \A n \in Names : objects[n] # None /\ objects[n].etag.parts = 0 => n[1] \in buckets

\* After a successful overwrite only the previous version's messages are
\* dropped (handler.go:286-288): the reap of a PUT, COPY or completion never
\* deletes a message of the object's current version.
ReapDropsPreviousOnly ==
  [][\A w \in Workers :
       req[w].pc = "reap" /\ req[w].op \in Overwrites /\ req'[w].pc = "done" =>
         (channel \ channel') \cap Range(chunkMap[req[w].name]) = {}]_allVars
=============================================================================
