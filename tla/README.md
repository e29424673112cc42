# Verification of telegram-s3

TLA+ models of the telegram-s3 gateway: an S3 API whose objects are stored as
documents (messages) in a Telegram channel and whose metadata is in SQLite. The
models are written from the Go source; TLC checks them on small instances, and
TLAPS proves their safety properties for every instance.

## The system

| part | source | state | operations | how it meets the others |
|---|---|---|---|---|
| object handlers | `internal/s3api/handler.go`, `copy.go`, `deleteobjects.go` | none but the locals of a request | PUT, COPY, GET, DELETE, bulk DELETE, create/delete bucket | calls store and storage backend; holds no lock |
| multipart handlers | `multipart.go`, `copy.go` | locals | create, upload part, part copy, complete, abort | as above; the parts' messages become the object's |
| janitor | `janitor.go` | none | periodic sweep of stale uploads | aborts uploads under running handlers |
| metadata store | `internal/metadata/store.go` | tables for buckets, objects, chunks, uploads, parts | one transaction per operation | one writer connection, many readers (WAL) |
| Telegram backend | `internal/storage/telegram/mtproto` | the channel, the location cache, the bot pool | `Upload`, `DownloadRange`, `DeleteBatch` | RPCs that fail, time out, are retried |
| prefetch reader | `internal/reader` | workers, drainer, channels | `New`, `Prime`, `Read`, `Close` | feeds GET and COPY from `DownloadRange` |
| TTL cache | `internal/cache` | entries with expiry | `Get`, `Set`, `Delete`, sweep | shared by all downloads |
| body decoding | `chunked.go`, `handler.go` | the decoder's frame position | `Read` | sits between the request body and `Upload` |
| ranges, conditions | `handler.go`, `objectmeta.go`, `internal/reader/bot_source.go` | none | `parseByteRange`, `ifRangeAllows`, `conditionalStatus`, `Chunk`, `fetchRange` | decide which bytes a GET sends |
| listing | `handler.go`, `subresource.go`, `store.go` | none: the cursor is with the client | one page | one query per page, keys change between pages |
| bots and sessions | `client.go`, `session_pool.go`, `retry.go`, `recovery.go`, `cmd/telegram-s3/main.go` | run goroutines, session pools | start, RPC, close | every RPC goes through them |
| the rest | SigV4, canned subresources, configuration, logging | | | see "Not modelled" |

What is hard here: a request is a sequence of queries, Telegram calls and one
transaction with nothing holding them together, so every pair of requests for a
key interleaves; messages are deleted from lists that were read earlier; any
call may fail or the process die between two of them; a GET runs five or more
goroutines that wait for one another; and downloads share a cache whose entries
go stale on the server's clock. Bytes are cut four times over, into frames,
documents, prefetch windows and Telegram reads, whose ends do not coincide; a
client that leaves cancels everything its request does, the clean-up included;
three middlewares retry around one another while the process shuts down.

What makes it correct: a message belongs to one object; nothing deletes a
message an object still refers to; size and ETag describe the stored bytes; a
stream delivers the range in order or fails visibly; nobody waits for ever; an
abandoned upload leaves nothing behind; a body is stored whole or not at all; a
listing names every key once; the process starts and stops as a whole.
`PROJECT.json` lists the hazards with
their lines.

## The modules

**ObjectGateway** - the object handlers over the store and the channel. A worker
is a goroutine of the HTTP server with the handler's position (`pc`) and locals
(`req`). Each store query, each transaction and each Telegram call is one
action; between them other workers run. `objects` and `chunkMap` are the tables,
`channel` the messages that exist, `nextId` the channel's counter.

| code | actions |
|---|---|
| `putObject` | `putObject`, `Upload`, `readOldChunks`, `PutObject`, `reapSupersededChunks` or `deleteChunks` |
| `copyObject` | `copyObject`, `loadRow`, `loadChunks`, `CopyUpload`, then as PUT |
| `getObject` | `getObject`, `loadRow`, `loadChunks`, `streamObject` |
| `deleteObject(s)` | `deleteObjects`, then per key `deleteOneObject`, `deleteReadChunks`, `deleteReap`, `DeleteObject` |
| `createBucket`, `deleteBucket` | `createBucket`; `deleteBucketList`, `DeleteBucket` |

A document is the content of one message, a body a sequence of documents, so
sizes count messages. A reference is `[id, doc]`: messages are never edited.
MD5 is injective; an ETag is the digests it covers and its part count. `Upload`
is one step: its intermediate messages are not visible to anyone, because their
ids are in no table yet. A failed upload leaves any part of what it sent
(`UploadFails`: failed chunk, failed read-back, failed cleanup). With `Faulty`
every query, transaction and delete may fail and `Crash` loses all locals. A
download succeeds whenever the chunk map covers the row's size, also from a
message that has just been deleted (a cached location may still be valid), and
may fail when a message is gone. Requests are authorised and a GET is for the
whole object; a refused condition or range is the early return in `loadChunks`.
Header metadata is left out: it is written in the object's transaction and no
property is about it.

**MultipartGateway** extends ObjectGateway with the multipart tables, handlers
and the janitor; parts are uploaded, copied, committed, reaped and discarded by
the object handlers' own actions, as in the code. `CompleteMultipartUpload` is
`completeMultipartUpload` (the upload row), `ListMultipartParts` (the part rows
and all checks, which use this snapshot only), `gatherPartChunks` (one query per
listed part), `readOldChunks`, `FinalizeMultipartUpload`,
`reapSupersededChunks`. Abort and sweep share `AllMultipartChunks`, `abortReap`,
`DeleteMultipartUpload`. Time is abstracted: any upload may be stale.

**ByteStream** is the contract of the reader package: the bytes of one range, in
order, once, then one end. **PrefetchReader** has the goroutines of
`reader.go` - workers claiming chunks from a counter, one slot per chunk, the
drainer, the delivery channel, Prime/Read/Close and the goroutine Close starts -
with one step per channel operation, `select` or atomic access, and both
branches of a `select` when both are ready. The byte at offset o is modelled by
o. A fetch returns its whole window or an error: which bytes a window holds is
the subject of RangeRead.

**ChunkDownload** is `DownloadRange` for one message by concurrent readers: the
primary bot, the fallback loop, and per bot the location cache, the fetch and
the one retry after a refused file reference. Each access to the cache's
`sync.Map` and each RPC is a step; Telegram's expiring references are
generations. The cache's sweeper runs beside them.

**UploadContract** is what storing a body promises: the whole body, cut into
documents at their offsets, or nothing. **ChunkedUpload** is how the code does
it: the aws-chunked decoder (`readChunkSize`, `readByte`, `readEOF`,
`readError`), `Upload` (`uploadChunk`, `verifyUploadedSize`, `cleanup`) and the
end of the handler (`validateDecodedSize`, `commitChunks`, `deleteChunks`), one
byte or one RPC per step. `Cancel` is the client leaving: from then on Telegram
calls may fail, the clean-up's too, the store refuses the transaction, and the
reader of a copy source ends with io.EOF (as PrefetchReader shows it does).
Messages a failed call has left behind are collected in the history variable
`lost`.

**RangeRead** has no state: the conditional headers, `If-Range`, `Range`, the
window size, and the path from the chunk map to the bytes (`locate`, `Chunk`,
`fetchRange`, `Stream`), as operators over small byte sequences. A header is
what its parser makes of it (a kind and its numbers), not a string.

**ObjectBytes** composes the two over one object: it is put, copied onto itself,
overwritten by a completed multipart upload of parts and copied ranges, and read
by a client that resumes and revalidates. Requests come one after the other; the
uploads may fail at every step. The history field `body` of a version is what
its client meant to store.

**ListObjects** is a client paging through a bucket (`listObjects`, which
`listObjectVersions` repeats for v1) and the scan of one page, row by row, while
other clients create and delete keys. Keys are byte strings over a small
alphabet, because the prefix range, the order and the delimiter are about bytes.

**BotPool** has the bots from `StartBot` to `Close`: the run goroutine, the
`ready` channel and its `sync.Once`, the parallel start and the unwinding of a
failed one in `startMTProtoPool`, the session pool opened by the first RPC, the
retry loop inside the recovery inside the flood wait, and `main`'s signal, drain
and close. `main` starts the pool without a deadline; `StartBot` handles one, so
the model has it (`HasDeadline`). gotd is external: a client that has ended fails
every RPC. The janitor's RPCs are deletes, which never open a session pool, and
nothing waits for them; they need no actor of their own.

The theorems are in modules of their own: **ObjectGatewayProofs**,
**MultipartProofs**, **PrefetchReaderProofs**, **ChunkDownloadProofs**,
**ObjectBytesProofs**, **BotPoolProofs** and **ListObjectsProofs**, each about the
module of that name. MultipartProofs extends ObjectGatewayProofs, which has the
lemmas both need: what an upload sends, a reader delivers, a row records and a
failed upload or delete leaves. **SequenceLemmas** has what ObjectBytesProofs
needs of numbers and sequences: the least number of a set, induction over a set
closed under successor, recursive functions, joined sequences.
The `MC*` modules hold the model-checking constants only.

Definitions with a suffix (`CopyUpload_byReference`, `drainRecv_anyOrder`, ...)
are faulty variants of the action they precede. No specification uses them; they
are what each property is tested against.

## The runs

Deadlock is checked in every run but `bytes`, where clients may stop sending
requests. In ObjectGateway, MultipartGateway, ListObjects and ChunkDownload
somebody can always begin; PrefetchReader and BotPool have an explicit last step
for the closed reader and the ended process.

| run | instance | shows |
|---|---|---|
| `objects_faults` | 2 workers, 2 keys, two bodies of 1 message and one of 2, 3 message ids, faults and crashes | `OneOwner`, `DoomedNotOwned`, `RowMatchesMap`, `NoMixedVersions`, `ReapSparesCurrent`: messages keep one owner, stale chunk lists never hit a current version, rows describe their chunks, a GET never mixes two versions |
| `multipart_race` | 2 workers, 2 keys, one body, 1 upload, 1 part number, 2 ids, faults, the janitor | `NoCrossKeySharing`, `DamageStaysInKey`: races between completions, aborts and parts can hurt one key only |
| `multipart_sequential` | 1 worker, parts 1 and 2, minimum part size of 2, completions with any two entries, 5 ids, no faults | `NothingLeftBehind`, `ETagCoversMap`, `NoRowsOfEndedUpload`, `GetServesCurrent`, `PlainObjectsInBuckets`: requests that do not overlap lose nothing, orphan nothing and are read back as they were written |
| `reader` | all ranges of 5 bytes, chunks of 2, 2 workers, failing fetches, a client that may leave, fairness | `StreamSpec` (PrefetchReader implements ByteStream), `PrimeSurfacesFirstFailure`, and the liveness of Prime, of Close and of the stream (`PrimeReturns`, `CloseReturns`, `StreamEnds`) |
| `download` | 2 readers, 2 bots, row indexes inside and beyond the pool, one expiry, faults | `AllBotsTried`: a download fails only after every bot has been tried, and tries none twice; `FreshNotEvicted`: the sweeper and an expired `Get` never drop an entry that was refreshed in between |
| `listing` | 4 keys over 3 bytes (one letter, the delimiter, 0xff), prefixes that need a carry or have no bound, pages of 1 and of the default (2), 2 disturbances (keys created or deleted, failed pages), fairness | `ListedOnce`, `CompleteListing`: over any number of pages nothing is listed twice and nothing that was there throughout is missed; `ListingEnds` |
| `bytes` | documents of 3 bytes, Telegram reads of 2, windows of 4, 2 uploads of 4 bodies (empty, one full document, two frames, a wrong length), 2 part numbers, ranged copies, failures, clients that leave, fairness | `StoresWholeOrNothing` (uploads implement UploadContract), `CleanFailure`, `RoundTrip` against a definition of HTTP ranges that goes offset by offset, for 49 headers in every state at rest; `ResumeNeverMixes`, `CacheNeverStale` |
| `bots` | 2 bots, 1 request, 2 attempts, 2 recovery rounds, 1 flood wait, fairness | `BootEnds`, `BootAllOrNothing`, `ShutdownEnds`, `NothingOpenAfterShutdown`, `CallEnds`, `CloseUnwindsRecovery` |

Why the bounds are enough for what they are used for: the hazards take two
requests on one key, and a second key to see damage spread; bodies of one and
two messages tell a prefix from a whole, and two bodies of the same size let one
replace the other under a COPY; three ids let a key be overwritten or
copied while the old version is being deleted, and two let a part be replaced
while the upload is being completed. Five ids are two parts, an object they
replace and a copy of it. The one size not
a multiple of the chunk, ranges that start and end everywhere, and more chunks
than workers plus buffers are what the reader's arithmetic and blocking depend
on. Symmetry over workers (readers), and over keys in the object runs, is used only in
runs without liveness properties. `MaxId`, `MaxEpoch` and the number of uploads bound the instances;
when ids run out the upload fails, which the code handles anyway. Two workers
are not a proof for three; the safety properties of the passing runs are also
proved, for any number, those of `multipart_sequential` for one worker with any
keys, uploads, parts, bodies and completion lists.

In `bytes` the three sizes have no common multiple below the longest object (8
bytes), so every alignment of document, read and window ends occurs; two uploads
are an overwrite, a part and the part that follows it, or a copy and what it
copied. `MaxUploads` and `MaxSeconds` (0 or 1 second between versions) bound the
run. In `bots` a failure before and one after the bot that fails, and a close
before, during and after each step of the other, need two bots; one request
makes any number of RPCs, and RPCs of different requests meet only in the
session pool's lock, which makes opening it atomic. `MaxRounds` stands for the
30 seconds of `retryRecoveryTimeout`. In `listing` two disturbances are a key
deleted before the cursor and one created behind it, or a failed page and a
change before it is asked for again.

### Disagreements

Four runs are expected to fail. Each checks what a comment, a test or the
schema says against what the code does.

- `objects_torn_get`: a PUT between the two queries of a GET makes it send the
  new bytes, cut at the old size, under the old ETag.
- `multipart_bucket_gone`: a bucket with an open multipart upload counts as
  empty and is deleted; the completion then stores an object in no bucket. No
  two requests overlap here. The schema's foreign key is not enforced. A
  `deleteBucket` between a PUT's bucket check and its commit has the same effect.
- `multipart_double_complete`: a repeated completion that overlaps the first
  deletes the messages the completed object consists of: the object is lost.
- `reader_backpressure`: the slots do not hold the workers back; with a client
  that stops reading the whole range is fetched into memory.

Behaviours of the models that have no run of their own: two overwrites of one key
that read the same prior version both delete that one, and the version committed
first stays in the channel; a part recorded after its upload was aborted is out
of the reach of abort and janitor; and a download that refreshes an expired
reference can find the stale location another download has just put back, so
that its one retry fails (the next bot is then tried; `AllBotsTried` bounds the
damage). A session pool that a request opens after the grace period of the
shutdown is not closed; the process ends with it.

A completion that lists only some of the stored parts orphans the others
(`NothingLeftBehind` would fail, which is why `SequentialChannel` has the
hypothesis `ListsAll`; `SequentialNothingLost` does without). Nothing in the
repository promises otherwise, so the completions of `multipart_sequential` that
pass the checks list both parts. Those of `bytes`
list any, and `CleanFailure` counts the messages of the others as lost.

`If-Range` and the other conditions with a date compare whole seconds, so a date
does not tell two versions of one second apart. That is HTTP's weak validator; the
properties are about ETags, and about ETag and date together.

## Fairness

- `reader`: weak fairness of every worker, of the drainer, of Prime, of Close and
  its goroutine, and of the client's Read. Go runs every runnable goroutine, a
  fetch returns because `CHUNK_TIMEOUT` bounds its context, and the handler
  always calls Prime and, deferred, Close. A client reads on until the end unless
  it leaves, which it may do at any time; `StreamEnds` needs that, while
  `PrimeReturns` and `CloseReturns` do not.
- `bytes`: weak fairness of the steps of the upload under way. Reads of the body
  and RPCs return or fail. No client has to send a request or to leave.
- `listing`: weak fairness of the steps of a page, the client's asking for the
  next one included. `MaxDisturbances` bounds the failed pages and the keys
  created during a listing: with unboundedly many no listing has to end.
- `bots`: weak fairness of each bot's goroutine and calls, of `main`, and of an
  RPC under way, whose attempts return and whose sleeps end. No signal has to
  come, no connection has to break, and a handler need not return: `ShutdownEnds`
  holds because the grace period ends.

The other runs assume none: that a download makes an end is shown as a bound
(each bot is asked once), given that its RPCs return.

## The proofs

Every theorem holds for all values of the constants that satisfy the modules'
ASSUMEs: any number of workers, bots, requests, keys and bodies, any sizes and
bounds, with or without faults. The six about requests one after the other have
hypotheses of their own, in the last column. Every invariant and every safety
action property of a passing run is stated by one of them.

| theorem | statement | for |
|---|---|---|
| **ObjectGatewayProofs** | | |
| `TypeCorrect` | `Spec => []TypeOK` | every instance |
| `EveryMessageHasOneOwner` | `Spec => []OneOwner` | every instance |
| `StaleListsAreHarmless` | `Spec => []DoomedNotOwned` | every instance |
| `ReapIsSafe` | `Spec => ReapSparesCurrent` | every instance |
| `RowsDescribeChunks` | `Spec => []RowMatchesMap` | every instance |
| `VersionsNeverMix` | `Spec => []NoMixedVersions` | every instance |
| **MultipartProofs** | | |
| `MultipartTypeCorrect` | `MPSpec => []MPTypeOK` | every instance |
| `KeysShareNothing` | `MPSpec => []NoCrossKeySharing` | every instance |
| `DamageIsConfined` | `MPSpec => DamageStaysInKey` | every instance |
| `SequentialETags` | `MPSpec => []ETagCoversMap` | `Alone` |
| `SequentialUploadsEnd` | `MPSpec => []NoRowsOfEndedUpload` | `Alone` |
| `SequentialBuckets` | `MPSpec => []PlainObjectsInBuckets` | `Alone` |
| `SequentialReads` | `MPSpec => []GetServesCurrent` | `Alone`, `~Faulty` |
| `SequentialNothingLost` | `MPSpec => [](Quiescent => Referenced \subseteq channel)` | `Alone`, a worker, `~Faulty` |
| `SequentialChannel` | `MPSpec => []NothingLeftBehind` | `Alone`, a worker, `~Faulty`, `ListsAll` |
| **PrefetchReaderProofs** | | |
| `ReaderTypeCorrect` | `Spec => []TypeOK` | every instance |
| `FirstFailureSurfaces` | `Spec => []PrimeSurfacesFirstFailure` | every instance |
| `ReaderImplementsStream` | `Spec => StreamSpec` (the refinement of ByteStream) | every instance |
| **ChunkDownloadProofs** | | |
| `DownloadTypeCorrect` | `Spec => []TypeOK` | every instance |
| `EveryBotIsTried` | `Spec => []AllBotsTried` | every instance |
| `FreshEntriesStay` | `Spec => FreshNotEvicted` | every instance |
| **ObjectBytesProofs** | | |
| `Invariant` | `Spec => []Inv` | every instance |
| `UploadTypeCorrect` | `Spec => []UploadTypeOK` | every instance |
| `UploadKeepsContract` | `Spec => Contract!SafeSpec` (the refinement of UploadContract, its safety half) | every instance |
| `FailureIsClean` | `Spec => []CleanFailure` | every instance |
| `GetServesTheBody` | `Spec => []RoundTrip` | every instance |
| `ResumesOneVersion` | `Spec => []ResumeNeverMixes` | every instance |
| `NotModifiedIsTrue` | `Spec => []CacheNeverStale` | every instance |
| **BotPoolProofs** | | |
| `PoolTypeCorrect` | `Spec => []TypeOK` | every instance |
| `BootIsAllOrNothing` | `Spec => []BootAllOrNothing` | every instance |
| `ShutdownLeavesNothing` | `Spec => []NothingOpenAfterShutdown` | every instance |
| `RecoveryUnwinds` | `Spec => []CloseUnwindsRecovery` | every instance |
| **ListObjectsProofs** | | |
| `ListingTypeCorrect` | `Spec => []TypeOK` | every instance |
| `NothingListedTwice` | `Spec => []ListedOnce` | every instance |
| `ListingIsComplete` | `Spec => []CompleteListing` | every instance |

The assumptions are the named ASSUMEs of the models, which TLC evaluates in the
runs. They say of what kind a constant is: bodies are sequences of documents,
delete and completion lists sequences of their entries, part numbers positive,
ranges within the object, keys nonempty byte strings, sizes and capacities
positive (those of documents, reads, windows and pages among them), frames and
headers well-formed; and that `None` is none of the values it stands beside. Two
abstractions of the models carry over: a digest is injective, and a conditional
header lists ETags instead of spelling them.

Each inductive invariant was also checked by TLC, on the instance of the
component's run.

**ObjectGateway.** `TypeInv` adds to `TypeOK` that a
handler at a position has the locals that position uses (`Formed`), without
which the next step is not defined. `Ownership` adds `FreshIds`: every id in a
table, in a handler's new chunks or in a list it will delete is below `nextId`.
`OneOwner` needs it, because an upload's messages are new only if no one has
their ids; and `OneOwner` needs `DoomedNotOwned` and the reverse, because what a
commit replaces becomes the version others may have on their lists. `Matches`
adds `BodyIsSent`: the chunks a handler holds are those sent for the body it will
record. `Versions` says that every chunk map, and every one a GET or COPY has
loaded, is of one body (`OneVersion`). A copy cut at the size of an older row
stores a part of a body, so what a version is made of is a prefix of a client's
body, and prefixes of prefixes stay prefixes (`Piece`). Each of the many actions
is first reduced to one of five effects on ownership - it releases what it holds,
has uploaded, has read a list, has committed, or gives up (`Released`,
`Uploaded`, `HasRead`, `Committed`, `GaveUp`, in `StepEffect`) - and each part of
the invariant is shown to survive the five effects. `RowsDescribeChunks` covers
COPY too: a copy whose source was overwritten between its queries still records
the size and the digest of the bytes it sent.

**MultipartGateway.** A message may have several owners here: two completions
commit the same chunks, an abort deletes what a completion has gathered. What is
inductive is weaker and is about keys: everything the tables and the handlers of
one key refer to is apart from everything of another (`KeysApart`); what a handler
has uploaded and not yet committed is only its own (`Private`); and two part rows
share nothing (`PartsApart`). The second is what makes a discard safe and what
keeps the third when a part is recorded. `MPEffect` reduces an action to one of
four: it copies references that are already of its key, sends new ones, commits
an object, or commits a part.

*Requests one after the other.* `Alone` says that there is one worker, so no two
requests overlap. Without it the properties of `multipart_sequential` are false:
`multipart_double_complete` loses an object, two overwrites leave a message
behind, a part is recorded after its upload's end. The invariant `Serial` says
that the tables agree (`TablesTrue`: `ETagCoversMap`, no rows of ended uploads,
part rows that match their chunk maps, plain objects in buckets) and that what the
handler is about to commit is what it has checked (`InTurn`): the upload it works
for is open, the bucket it saw is there, the chunks and digests it carries
are those of the listed parts. It holds with failures and crashes too, since the
rows it is about change together, in one transaction.

What is in the channel is another matter: a failed delete leaves messages, and a
failed transaction may leave rows without them. So `Clean` is for `~Faulty`. It
says that the channel holds the messages the tables refer to, less those the
handler has removed and whose rows it is about to delete (`Missing`), and with
those it has sent and not committed, or superseded and not removed (`Spare`);
that its lists are those of the tables; and that what a GET has loaded is the
current version (`InOrder`). That a removal spares the rest needs that objects
and parts share no message (`NotShared`), and that no two keys and no two parts do
(`References`); each step keeps it with the help of `Serial`. `ListsAll` (a list in ascending order names every part number) is
used for one direction only: nothing that is referred to is lost in any case.
TLC checked `Serial` and `Clean` on the instance of `multipart_sequential`.

**PrefetchReader.** The chunks of a range meet at the offsets `Bound(0)` = start
to `Bound(NumChunks)` = end; this is the arithmetic of the first and last,
trimmed chunk (`PieceFacts`). A chunk is claimed once and is then either with one
worker or in its slot (`FetchInv`, `SlotInv`); the delivery channel holds the
chunks that follow the consumer's position without a gap (`Flow`). The
refinement follows step by step: only the consumer's Read delivers, and what it
delivers is the front of `Flow`.

**ChunkDownload.** The bots tried and the one being tried are the primary and
those before the fallback's index (`InOrder`), so the loop ends with the whole
pool; `Answer` ties the result to what was tried. Whoever is about to remove an
entry by comparison has seen an expired one (`SeenExpired`, `SweeperInv`).

**ObjectBytes.** The decoder's position, its frame and the buffer of `Upload` are
tied to the body (`Decoding`, `Progress`): the buffer is what was read last, the
rows recorded so far lay out the rest, in full documents (`Recording`), and the
document under verification is the beginning of the buffer (`Verifying`), which is
why equal sizes mean equal bytes. Every message is the object's, a part's, the
upload's or `lost`, and of no two of these (`Ownership`); every stored version has
rows that lay out its body, and its size and ETag are its body's (`Stock`). From
`LaidOut` - the rows hold the body, each at the sum of the sizes before it - it
follows that reading any interval through windows, rows and Telegram reads gives
that slice of the body, whatever the three sizes are; with that, what a GET or a
ranged copy sends is what `Expected` says, offset by offset. `Held` says that what
a client has is the beginning of the body its ETag stands for, which is what a
resumed download and a 304 rely on; a multipart ETag stands for the bodies of
its parts, joined (`Names`). The refinement follows step by step: reading,
sending and verifying are stutters, the commit is the contract's `Store` because
it comes only at the end of the body, with rows that are its `Cut`.

The functions of RangeRead and ChunkedUpload that go over a body are recursive
functions. Induction is not taken from the library, whose theorems have an
operator parameter, but from a least counterexample (`LeastNumber`) or a set that
is closed under successor (`Inductive`), and that a recursive definition has a
function is itself proved (`Recursion`, `UpwardRecursion`).

**BotPool.** Start, run goroutine, Close and session pool of a bot are tied to
one another (`StartInv`, `CloseInv`, `SessionInv`) and to the phase of `main`
(`PhaseInv`); `CallInv` ties an RPC's recovery to its bot's context. `main`
passes from one phase to the next only when all bots have reached what the next
one's `PhaseInv` says.

**ListObjects.** What is listed is behind the cursor and what was there all the
time is listed or ahead of it (`PagesOK`); within a page, the rows consumed are
those up to the last result, none skipped (`PageOK`). It rests on facts about byte
strings that are proved for every alphabet: the order is irreflexive and
transitive; the half-open range from a prefix to `prefixUpperBound` is exactly the
keys with that prefix, the prefixes of maximal bytes included (`PrefixRange`); the
keys below one common prefix are neighbours, so a page that ends at a new result
has consumed all of them or none (`RollupConvex`); and a continuation token
decodes to the cursor (`TokenRoundTrip`).

Only model-checked is liveness, which is beyond the prover: `PrimeReturns`,
`CloseReturns`, `StreamEnds`, `ListingEnds`, `BootEnds`, `ShutdownEnds`,
`CallEnds`, and the fairness half of `StoresWholeOrNothing`. The four
disagreements are counterexamples and have no theorem.

## Not modelled

- SigV4 and presigned URLs: string formatting and HMAC; requests are authorised.
- XML, CORS, the canned subresources, logging, the parsing of the environment and
  of header syntax: formatting without state.
- HEAD, listParts, listMultipartUploads, listBuckets: read-only, one query.
- Header metadata (content type, user metadata, checksums): written in the
  object's transaction and echoed; no other state depends on it.
- Session blobs (`session.go`): opaque bytes stored for gotd.
- The schema migration and the backfill of legacy rows: one idempotent pass
  before the process serves.
- A listener that cannot bind: `main` exits at once, without closing anything.
- Grouping of deletes into calls of 100 ids per bot: a delete may fail for any
  subset of its messages, which covers it.

## Plan

1. Done: ObjectGateway, MultipartGateway, ByteStream and PrefetchReader,
   ChunkDownload, UploadContract, ChunkedUpload, RangeRead and ObjectBytes,
   ListObjects, BotPool, and their runs.
2. Done: the theorems about ObjectGateway, MultipartGateway, with requests that
   overlap and with requests that do not, PrefetchReader, ChunkDownload,
   ObjectBytes with the upload and the range reads, BotPool and ListObjects.
3. Left: the refresh of an expired file reference has no property of its own; one
   would say that a single reader's retry uses the location it has just fetched,
   and needs the writers of the cache told apart.
