--------------------------- MODULE ChunkedUpload ---------------------------
(***************************************************************************)
(* Storing one request body: the aws-chunked decoder (chunked.go), Upload, *)
(* which cuts the decoded bytes into documents and sends each as a message *)
(* (upload.go), and the end of the handler, which validates the length and *)
(* commits the chunk map (putObject, copyObject, uploadPart).              *)
(*                                                                         *)
(* Everything runs under the request's context.  When the client leaves it *)
(* is cancelled: Telegram calls fail, the clean-up's included, the store   *)
(* refuses the transaction, and the reader of a copy source just ends.     *)
(***************************************************************************)
EXTENDS Integers, Sequences, FiniteSetsExt, SequencesExt

CONSTANTS
  UploadChunkSize,  \* TELEGRAM_CHUNK_SIZE: bytes of one document
  ClientLeaves,     \* TRUE: the request context may be cancelled
  Flaky             \* TRUE: calls and streams may fail, documents may come out short

\* A request body: how it arrives ("plain", "chunked", or "copy": the stream of
\* another object), the frames it arrives in (one unless it is chunked) and the
\* decoded length the client declares (-1: none).
IsSource(s) ==
  /\ s.kind \in {"plain", "chunked", "copy"}
  /\ s.frames \in Seq(Seq(Nat))
  /\ s.kind # "chunked" => Len(s.frames) = 1
  /\ s.kind = "chunked" => <<>> \notin Range(s.frames)
  /\ s.declared \in Int

ASSUME UploadAssumption ==
  /\ UploadChunkSize \in Nat \ {0}
  /\ {ClientLeaves, Flaky} \subseteq BOOLEAN

VARIABLES
  up,         \* the locals of the handler, of Upload and of the decoder
  cancelled,  \* the request context is done
  messages,   \* the channel: message ids to the bytes of their documents
  sent,       \* the number of messages sent so far, which are their ids
  lost        \* history: messages a failed call has left out of the code's reach

upVars == <<up, cancelled, messages, sent, lost>>

\* No request: the decoder's position (frame, rem), the bytes read (pos) and
\* collected for the next document (buf), a pending read error, the chunks so far.
NoUpload ==
  [pc |-> "idle", kind |-> "plain", frames |-> <<>>, declared |-> -1, data |-> <<>>,
   frame |-> 1, rem |-> 0, pos |-> 0, buf |-> <<>>, rerr |-> FALSE, chunks |-> <<>>]

UploadTypeOK ==
  /\ up.pc \in {"idle", "read", "send", "verify", "cleanup", "validate", "commit", "discard",
                "stored", "failed"}
  /\ up.pc # "idle" => IsSource(up)
  /\ up.pos \in 0..Len(up.data)
  /\ up.rem \in 0..Len(up.data) - up.pos
  /\ Len(up.buf) <= UploadChunkSize
  /\ up.rerr \in BOOLEAN
  /\ up.chunks \in Seq([id : 1..sent, offset : Nat, size : 1..UploadChunkSize])
  /\ cancelled \in BOOLEAN
  /\ DOMAIN messages \subseteq 1..sent
  /\ lost \subseteq DOMAIN messages

Broken == Flaky \/ cancelled

----------------------------------------------------------------------------
(* The body                                                                *)

\* A handler has a body to store and calls Upload.
beginUpload(s) ==
  /\ up.pc = "idle"
  /\ up' = [NoUpload EXCEPT !.pc = "read", !.kind = s.kind, !.frames = s.frames,
                             !.declared = s.declared, !.data = FlattenSeq(s.frames),
                             !.rem = IF s.kind = "chunked" THEN 0 ELSE Len(s.frames[1])]
  /\ cancelled' = FALSE
  /\ UNCHANGED <<messages, sent, lost>>

\* readChunkSize: the header of the next frame.
readChunkSize ==
  /\ up.pc = "read"
  /\ up.kind = "chunked"
  /\ up.rem = 0
  /\ up.frame <= Len(up.frames)
  /\ up' = [up EXCEPT !.rem = Len(up.frames[up.frame]), !.frame = @ + 1]
  /\ UNCHANGED <<cancelled, messages, sent, lost>>

\* A document that takes one byte too many.
readByte_oneMore ==
  /\ up.pc = "read"
  /\ up.rem > 0
  /\ LET b == Append(up.buf, up.data[up.pos + 1]) IN
       up' = [up EXCEPT !.pc = IF Len(b) > UploadChunkSize THEN "send" ELSE "read",
                        !.rem = @ - 1, !.pos = @ + 1, !.buf = b]
  /\ UNCHANGED <<cancelled, messages, sent, lost>>

\* One byte of a Read.  LimitReader ends the document when it is full.  With the
\* last byte of a frame comes the error of a bad terminator (consumeCRLF).
readByte ==
  /\ up.pc = "read"
  /\ up.rem > 0
  /\ \E bad \in {FALSE} \cup (IF Flaky /\ up.kind = "chunked" /\ up.rem = 1 THEN {TRUE} ELSE {}) :
       LET b == Append(up.buf, up.data[up.pos + 1]) IN
         up' = [up EXCEPT !.pc = IF bad \/ Len(b) = UploadChunkSize THEN "send" ELSE "read",
                          !.rem = @ - 1, !.pos = @ + 1, !.buf = b, !.rerr = bad]
  /\ UNCHANGED <<cancelled, messages, sent, lost>>

\* io.EOF: the end of the body, for an aws-chunked one the frame of size 0.  The
\* reader of a copy source also ends, without an error, when the context is
\* cancelled (PrefetchReader).
readEOF ==
  /\ up.pc = "read"
  /\ \/ up.rem = 0 /\ (up.kind = "chunked" => up.frame > Len(up.frames))
     \/ up.kind = "copy" /\ cancelled
  /\ up' = [up EXCEPT !.pc = IF up.buf = <<>> THEN "validate" ELSE "send"]
  /\ UNCHANGED <<cancelled, messages, sent, lost>>

\* Any other error: a malformed or truncated frame, a lost connection, a failed
\* fetch of the source.  Bytes already collected are sent first.
readError ==
  /\ up.pc = "read"
  /\ Broken
  /\ up' = [up EXCEPT !.pc = IF up.buf = <<>> THEN "cleanup" ELSE "send", !.rerr = TRUE]
  /\ UNCHANGED <<cancelled, messages, sent, lost>>

----------------------------------------------------------------------------
(* Documents                                                               *)

\* The channel gets one more message.
Post(data) ==
  /\ sent' = sent + 1
  /\ messages' = [m \in DOMAIN messages \cup {sent + 1} |->
                    IF m = sent + 1 THEN data ELSE messages[m]]

\* uploadChunk up to the message id.  The document may come out short although
\* sendMedia reports success.  On an error the message may exist all the same:
\* the reply was lost, or carries no id (extractMessageID).
uploadChunk ==
  /\ up.pc = "send"
  /\ \/ \E n \in {Len(up.buf)} \cup (IF Flaky THEN {Len(up.buf) - 1} ELSE {}) :
          /\ Post(SubSeq(up.buf, 1, n))
          /\ up' = [up EXCEPT !.pc = "verify"]
          /\ UNCHANGED lost
     \/ /\ Broken
        /\ Post(up.buf)
        /\ lost' = lost \cup {sent + 1}
        /\ up' = [up EXCEPT !.pc = "cleanup"]
     \/ /\ Broken
        /\ up' = [up EXCEPT !.pc = "cleanup"]
        /\ UNCHANGED <<messages, sent, lost>>
  /\ UNCHANGED cancelled

\* Deleting the messages ids, best effort.
Delete(ids) ==
  \E gone \in SUBSET ids :
    /\ Broken \/ gone = ids
    /\ messages' = [m \in DOMAIN messages \ gone |-> messages[m]]
    /\ lost' = lost \cup (ids \ gone)

\* The loop of Upload after a document: the chunk is recorded; a pending read
\* error ends the upload, a document that is not full is the last.
ChunkDone ==
  up' = [up EXCEPT !.pc = CASE up.rerr -> "cleanup"
                            [] ~up.rerr /\ Len(up.buf) < UploadChunkSize -> "validate"
                            [] OTHER -> "read",
                   !.buf = <<>>,
                   !.chunks = Append(@, [id |-> sent, offset |-> up.pos - Len(up.buf),
                                         size |-> Len(up.buf)])]

\* No verification: the size sent is the size stored.
verifyUploadedSize_trusting ==
  /\ up.pc = "verify"
  /\ ChunkDone
  /\ UNCHANGED <<cancelled, messages, sent, lost>>

\* verifyUploadedSize: the message is read back.  One that is not found or has
\* the wrong size is deleted; when the read-back itself fails it is not.
verifyUploadedSize ==
  /\ up.pc = "verify"
  /\ \/ /\ Len(messages[sent]) = Len(up.buf)
        /\ ChunkDone
        /\ UNCHANGED <<messages, lost>>
     \/ /\ Flaky \/ Len(messages[sent]) # Len(up.buf)
        /\ Delete({sent})
        /\ up' = [up EXCEPT !.pc = "cleanup"]
     \/ /\ Broken
        /\ lost' = lost \cup {sent}
        /\ up' = [up EXCEPT !.pc = "cleanup"]
        /\ UNCHANGED messages
  /\ UNCHANGED <<cancelled, sent>>

ChunkIds == {up.chunks[i].id : i \in DOMAIN up.chunks}

\* A failed upload that returns without deleting what it sent.
cleanup_none ==
  /\ up.pc = "cleanup"
  /\ up' = [up EXCEPT !.pc = "failed"]
  /\ UNCHANGED <<cancelled, messages, sent, lost>>

\* cleanup: Upload failed and deletes the chunks it has recorded.
cleanup ==
  /\ up.pc = "cleanup"
  /\ Delete(ChunkIds)
  /\ up' = [up EXCEPT !.pc = "failed"]
  /\ UNCHANGED <<cancelled, sent>>

----------------------------------------------------------------------------
(* The end of the handler                                                  *)

\* validateDecodedSize, for the handlers that read a request body.
validateDecodedSize ==
  /\ up.pc = "validate"
  /\ up' = [up EXCEPT !.pc = IF up.kind # "copy" /\ up.declared # -1 /\ up.declared # up.pos
                               THEN "discard" ELSE "commit"]
  /\ UNCHANGED <<cancelled, messages, sent, lost>>

\* A transaction that does not run under the request's context.
commitChunks_background ==
  /\ up.pc = "commit"
  /\ up' = [up EXCEPT !.pc = "stored"]
  /\ UNCHANGED <<cancelled, messages, sent, lost>>

\* PutObject or PutMultipartPart: a cancelled context is refused.
commitChunks ==
  /\ up.pc = "commit"
  /\ \/ ~cancelled /\ up' = [up EXCEPT !.pc = "stored"]
     \/ Broken /\ up' = [up EXCEPT !.pc = "discard"]
  /\ UNCHANGED <<cancelled, messages, sent, lost>>

\* deleteChunks: the upload was rejected or did not persist.
deleteChunks ==
  /\ up.pc = "discard"
  /\ Delete(ChunkIds)
  /\ up' = [up EXCEPT !.pc = "failed"]
  /\ UNCHANGED <<cancelled, sent>>

\* The client closes the connection: net/http cancels the request's context.
Cancel ==
  /\ ClientLeaves
  /\ ~cancelled
  /\ up.pc \notin {"idle", "stored", "failed"}
  /\ cancelled' = TRUE
  /\ UNCHANGED <<up, messages, sent, lost>>

UploadStep ==
  \/ readChunkSize \/ readByte \/ readEOF \/ readError
  \/ uploadChunk \/ verifyUploadedSize \/ cleanup
  \/ validateDecodedSize \/ commitChunks \/ deleteChunks

----------------------------------------------------------------------------
(* The contract                                                            *)

\* Rows, with the bytes their messages hold.
WithData(chunks) ==
  [i \in DOMAIN chunks |-> [offset |-> chunks[i].offset, size |-> chunks[i].size,
                            data |-> messages[chunks[i].id]]]

Contract == INSTANCE UploadContract
  WITH ChunkSize <- UploadChunkSize,
       Bodies <- Seq(Nat),
       state <- IF up.pc = "idle" THEN "none"
                ELSE IF up.pc \in {"stored", "failed"} THEN up.pc ELSE "running",
       body <- up.data,
       rows <- IF up.pc = "stored" THEN WithData(up.chunks) ELSE <<>>

\* However the bytes arrive, whatever fails and whenever the client leaves, a
\* request ends and has stored its whole body, in full documents at their
\* offsets, or nothing (UploadContract).  In particular a body whose frames
\* break off, a copy whose source stream ended early because the client left
\* and a document that came out short are never committed.
StoresWholeOrNothing == Contract!Spec
=============================================================================
