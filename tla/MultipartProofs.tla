-------------------------- MODULE MultipartProofs --------------------------
(***************************************************************************)
(* Proofs about MultipartGateway: object and multipart handlers and the    *)
(* janitor over one store and one channel, for every set of workers, keys, *)
(* uploads and part numbers, with faults and crashes.                      *)
(*                                                                         *)
(* A message may have several owners here: two completions of one upload   *)
(* commit the same chunks, an abort deletes what a completion has          *)
(* gathered.  What holds is that all of them are of one key (KeysApart):   *)
(* everything a table or a handler refers to was sent for a key, and the   *)
(* lists handlers copy around stay with it.  Only what a handler has       *)
(* uploaded and not committed yet is its own (Private).                    *)
(***************************************************************************)
EXTENDS MultipartGateway, ObjectGatewayProofs, SequenceLemmas

----------------------------------------------------------------------------
(* The inductive invariant: types                                          *)

MPPositions == Positions \cup {"mpCreate", "mpParts", "mpGather", "mpAll", "mpReap", "mpDrop",
                               "sweepNext"}

MPOperations == Operations \cup {"create", "part", "partCopy", "complete", "abort", "sweep"}

MPRequests ==
  [pc : MPPositions, op : MPOperations, name : Names \cup {None}, src : Names \cup {None},
   bucket : Buckets \cup {None}, body : Seq(Documents), row : Rows \cup {None},
   read : Seq(Messages), chunks : Seq(Messages), old : Seq(Messages), todo : Seq(Names),
   status : Statuses]

Locals ==
  [upload : Uploads \cup {None}, part : PartNumbers \cup {None}, list : Seq(PartEntries),
   got : Nat, stored : [PartNumbers -> Parts \cup {None}], all : SUBSET Messages,
   todo : SUBSET Uploads]

\* The tables and the channel.
MPTablesOK ==
  /\ buckets \subseteq Buckets
  /\ objects \in [Names -> Rows \cup {None}]
  /\ chunkMap \in [Names -> Seq(Messages)]
  /\ channel \subseteq Messages
  /\ nextId \in Nat
  /\ owner \in [Uploads -> Names \cup {None}]
  /\ uploads \subseteq Uploads
  /\ parts \in [Uploads -> [PartNumbers -> Parts \cup {None}]]
  /\ partMap \in [Uploads -> [PartNumbers -> Seq(Messages)]]

\* An upload id is owned as soon as it has a row or chunks.
OwnedUploads ==
  \A u \in Uploads : owner[u] = None => u \notin uploads /\ partMap[u] = NoPartChunks

\* A handler with request r works on an upload.
OnUpload(r) ==
  \/ r.pc \in {"mpParts", "mpGather", "mpAll", "mpReap", "mpDrop"}
  \/ r.op \in {"part", "partCopy", "complete"} /\ r.pc \notin {"idle", "done"}

\* The listed parts are stored ones, by the snapshot the handler took.
Listed(l) ==
  \A i \in DOMAIN l.list : l.list[i].num \in PartNumbers /\ l.stored[l.list[i].num] \in Parts

\* A handler at one of these positions works on an object.
Named(r) ==
  r.pc \in {"upload", "copyUpload", "loadRow", "loadChunks", "readOld", "commit", "reap",
            "discard", "delRow", "delChunks", "delReap", "delCommit", "mpCreate", "mpParts",
            "mpGather", "mpAll", "mpReap", "mpDrop"} => r.name \in Names

\* What the steps that read a source or walk a list rely on.
Sourced(r) ==
  /\ r.pc \in {"loadRow", "loadChunks"} => r.src \in Names
  /\ r.pc \in {"loadChunks", "stream", "copyUpload"} => r.row \in Rows
  /\ r.pc \in {"delRow", "delChunks", "delReap", "delCommit"} => r.todo # <<>>

\* Which operations come to which positions.
Placed(r) ==
  /\ r.pc \in {"upload", "copyUpload", "loadRow", "loadChunks", "stream", "discard"}
       => r.op # "complete"
  /\ r.pc \in {"delRow", "delChunks", "delReap", "delCommit"} => r.op = "delete"
  /\ r.pc \in {"mpAll", "mpReap", "mpDrop", "sweepNext"} => r.op \in {"abort", "sweep"}
  /\ r.pc \in {"mpParts", "mpGather"} => r.op = "complete"
  /\ r.pc = "mpCreate" => r.op = "create"

\* The upload a handler works on is one for its key, by the owners o of uploads.
Linked(o, r, l) ==
  /\ OnUpload(r) => l.upload \in Uploads /\ o[l.upload] = r.name /\ r.name \in Names
  /\ r.op \in {"part", "partCopy"} /\ r.pc \notin {"idle", "done"} => l.part \in PartNumbers
  /\ \A u \in l.todo : o[u] # None
  /\ r.pc = "mpParts" => l.got = 0
  /\ r.pc = "mpGather" => l.got < Len(l.list)
  /\ r.pc = "mpGather" \/ (r.op = "complete" /\ r.pc \in {"readOld", "commit"}) => Listed(l)

\* Where a handler holds references to messages.
Lists(r, l) ==
  /\ r.chunks # <<>> => r.pc \in {"readOld", "commit", "discard", "reap", "mpGather"}
  /\ r.old # <<>> => r.pc \in {"commit", "discard", "reap", "delReap", "delCommit"}
  /\ l.all # {} => r.pc \in {"mpReap", "mpDrop", "sweepNext"} /\ r.name \in Names

MPFormed(o, r, l) == Named(r) /\ Sourced(r) /\ Placed(r) /\ Linked(o, r, l) /\ Lists(r, l)

MPTypeInv ==
  /\ MPTablesOK
  /\ OwnedUploads
  /\ req \in [Workers -> MPRequests]
  /\ mp \in [Workers -> Locals]
  /\ \A w \in Workers : MPFormed(owner, req[w], mp[w])

----------------------------------------------------------------------------
(* The inductive invariant: who refers to which messages                   *)

\* The messages handler w refers to: what it has uploaded or gathered, what it
\* is going to delete.
Held(w) == Range(req[w].chunks) \cup Range(req[w].old) \cup mp[w].all

\* The messages the tables refer to on behalf of key n.
Stored(n) ==
  Range(chunkMap[n])
    \cup UNION {Range(partMap[u][p]) : u \in {v \in Uploads : owner[v] = n}, p \in PartNumbers}

\* The messages anything refers to on behalf of key n.
OfKey(n) == Stored(n) \cup UNION {Held(w) : w \in {v \in Workers : req[v].name = n}}

\* Keys refer to different messages, whose ids have been given out.
KeysApart ==
  /\ \A n \in Names : \A m \in OfKey(n) : m.id < nextId
  /\ \A n1, n2 \in Names : n1 # n2 => OfKey(n1) \cap OfKey(n2) = {}

\* The messages handler w has uploaded and not committed.
Mine(w) ==
  IF req[w].pc \in {"readOld", "commit", "discard"} /\ req[w].op # "complete"
    THEN Range(req[w].chunks) ELSE {}

\* Nothing else refers to them.
Private ==
  \A w \in Workers : /\ \A n \in Names : Mine(w) \cap Stored(n) = {}
                     /\ \A v \in Workers : v # w => Mine(w) \cap Held(v) = {}

\* No two parts share a message.
PartsApart ==
  \A u, v \in Uploads, p, q \in PartNumbers :
    <<u, p>> # <<v, q>> => Range(partMap[u][p]) \cap Range(partMap[v][q]) = {}

References == KeysApart /\ Private /\ PartsApart

----------------------------------------------------------------------------
(* MPMoves of one handler                                                    *)

\* The positions at which a handler may hold references to messages.
MPHolding == {"readOld", "commit", "discard", "reap", "mpGather", "delReap", "delCommit",
              "mpReap", "mpDrop", "sweepNext"}

\* Only worker w's request and locals change, to well-formed ones.
MPMoves(w) ==
  /\ req' \in [Workers -> MPRequests]
  /\ mp' \in [Workers -> Locals]
  /\ MPFormed(owner', req'[w], mp'[w])
  /\ \A v \in Workers : v # w => req'[v] = req[v] /\ mp'[v] = mp[v]

\* A step of worker w after which it holds nothing.
MPReleases(w) == MPMoves(w) /\ req'[w].pc \notin MPHolding

\* The idle request and the idle locals.
LEMMA MPIdleType ==
  /\ Idle \in MPRequests /\ Idle.chunks = <<>> /\ Idle.old = <<>> /\ Idle.pc = "idle"
  /\ Idle.op = "none"
  /\ MPIdle \in Locals /\ MPIdle.all = {} /\ MPIdle.todo = {} /\ MPIdle.got = 0
<1>1. Idle \in MPRequests /\ Idle.chunks = <<>> /\ Idle.old = <<>> /\ Idle.pc = "idle"
  BY DEF Idle, MPRequests, MPPositions, MPOperations, Positions, Operations, Statuses
<1>2. NoParts \in [PartNumbers -> Parts \cup {None}] /\ <<>> \in Seq(PartEntries)
  BY DEF NoParts
<1>3. MPIdle \in Locals /\ MPIdle.all = {} /\ MPIdle.todo = {} /\ MPIdle.got = 0
  BY <1>2 DEF MPIdle, Locals
<1> QED BY <1>1, <1>3 DEF Idle

\* What MPTypeInv says of one worker.
LEMMA WorkerType ==
  ASSUME MPTypeInv, NEW w \in Workers
  PROVE  req[w] \in MPRequests /\ mp[w] \in Locals /\ MPFormed(owner, req[w], mp[w])
BY DEF MPTypeInv

\* A request and locals for w that are well-formed are a move.
LEMMA MPMoveTo ==
  ASSUME MPTypeInv, NEW w \in Workers, NEW r \in MPRequests, NEW l \in Locals,
         MPFormed(owner', r, l), req' = [req EXCEPT ![w] = r],
         mp' = [mp EXCEPT ![w] = l] \/ (l = mp[w] /\ UNCHANGED mp)
  PROVE  MPMoves(w) /\ req'[w] = r /\ mp'[w] = l
<1>1. req \in [Workers -> MPRequests] /\ mp \in [Workers -> Locals]
  BY DEF MPTypeInv
<1>2. /\ req' \in [Workers -> MPRequests] /\ req'[w] = r
      /\ \A v \in Workers : v # w => req'[v] = req[v]
  BY <1>1
<1>3. /\ mp' \in [Workers -> Locals] /\ mp'[w] = l
      /\ \A v \in Workers : v # w => mp'[v] = mp[v]
  BY <1>1
<1> QED BY <1>2, <1>3 DEF MPMoves

\* The multipart locals in a step of the object handlers.
ObjectLocals(w) == mp' = IF req'[w].pc = "done" THEN [mp EXCEPT ![w] = MPIdle] ELSE mp

\* A request that answers.
LEMMA AnswerFormed ==
  ASSUME NEW o, NEW r \in MPRequests, NEW l \in Locals, r.pc = "done",
         r.chunks = <<>>, r.old = <<>>, l.all = {}, \A u \in l.todo : o[u] # None
  PROVE  MPFormed(o, r, l)
BY DEF MPFormed, Named, Sourced, Placed, Linked, OnUpload, Lists

\* A handler that answers, whether its locals are cleared or were empty.
LEMMA MPAnswerMoves ==
  ASSUME MPTypeInv, NEW w \in Workers, NEW s \in Statuses, Answer(w, s),
         \A u \in Uploads : owner[u] # None => owner'[u] = owner[u],
         \/ mp' = [mp EXCEPT ![w] = MPIdle]
         \/ UNCHANGED mp /\ req[w].pc \notin MPHolding
  PROVE  MPReleases(w)
<1> DEFINE r == [Idle EXCEPT !.pc = "done", !.status = s]
<1>1. r \in MPRequests /\ r.pc = "done" /\ r.chunks = <<>> /\ r.old = <<>>
  BY MPIdleType DEF MPRequests, MPPositions, Positions
<1>2. req' = [req EXCEPT ![w] = r]
  BY DEF Answer
<1> HIDE DEF r
<1>3. CASE mp' = [mp EXCEPT ![w] = MPIdle]
  <2>1. MPFormed(owner', r, MPIdle)
    BY <1>1, MPIdleType, AnswerFormed
  <2> QED BY <1>1, <1>2, <1>3, <2>1, MPIdleType, MPMoveTo DEF MPReleases, MPHolding
<1>4. CASE UNCHANGED mp /\ req[w].pc \notin MPHolding
  <2>1. mp[w] \in Locals /\ MPFormed(owner, req[w], mp[w])
    BY WorkerType
  <2>2. mp[w].all = {} /\ \A u \in mp[w].todo : owner'[u] # None
    BY <1>4, <2>1 DEF MPFormed, Lists, Linked, MPHolding, Locals
  <2>3. MPFormed(owner', r, mp[w])
    BY <1>1, <2>1, <2>2, AnswerFormed
  <2> QED BY <1>1, <1>2, <1>4, <2>1, <2>3, MPMoveTo DEF MPReleases, MPHolding
<1> QED BY <1>3, <1>4

\* An object handler that answers.
LEMMA ObjectAnswer ==
  ASSUME MPTypeInv, NEW w \in Workers, NEW s \in Statuses, Answer(w, s), ObjectLocals(w),
         UNCHANGED owner
  PROVE  MPReleases(w)
<1>1. req'[w].pc = "done"
  BY MPIdleType DEF Answer, MPTypeInv, MPRequests
<1> QED BY <1>1, MPAnswerMoves DEF ObjectLocals

\* An object handler that answers a request that reads an object.
LEMMA ObjectAnswerRead ==
  ASSUME MPTypeInv, NEW w \in Workers, NEW s \in Statuses, AnswerRead(w, s), ObjectLocals(w),
         UNCHANGED owner
  PROVE  MPReleases(w)
<1> DEFINE r == [Idle EXCEPT !.pc = "done", !.op = req[w].op, !.name = req[w].name,
                             !.status = s]
<1>1. req[w] \in MPRequests
  BY WorkerType
<1>2. r \in MPRequests /\ r.pc = "done" /\ r.chunks = <<>> /\ r.old = <<>>
  <2>1. /\ Idle \in MPRequests /\ Idle.chunks = <<>> /\ Idle.old = <<>>
        /\ "done" \in MPPositions
    BY MPIdleType DEF MPPositions, Positions
  <2> HIDE DEF Idle
  <2> QED BY <1>1, <2>1 DEF MPRequests
<1>3. req' = [req EXCEPT ![w] = r]
  BY DEF AnswerRead
<1> HIDE DEF r
<1>4. req'[w] = r
  BY <1>3 DEF MPTypeInv
<1>5. mp' = [mp EXCEPT ![w] = MPIdle]
  BY <1>2, <1>4 DEF ObjectLocals
<1>6. MPFormed(owner', r, MPIdle)
  BY <1>2, MPIdleType, AnswerFormed
<1> QED BY <1>2, <1>3, <1>5, <1>6, MPIdleType, MPMoveTo DEF MPReleases, MPHolding

\* A handler of an object that goes on with request r, its locals as they are.
LEMMA ObjectMoveTo ==
  ASSUME MPTypeInv, NEW w \in Workers, NEW r \in MPRequests, MPFormed(owner, r, mp[w]),
         r.pc # "done", req' = [req EXCEPT ![w] = r], ObjectLocals(w), UNCHANGED owner
  PROVE  MPMoves(w) /\ req'[w] = r /\ UNCHANGED mp
<1>1. req'[w] = r
  BY DEF MPTypeInv
<1>2. UNCHANGED mp
  BY <1>1 DEF ObjectLocals
<1> QED BY <1>2, MPMoveTo, WorkerType

----------------------------------------------------------------------------
(* What a step of a handler does                                           *)

\* An upload id keeps its owner.
OwnersKept == \A u \in Uploads : owner[u] # None => owner'[u] = owner[u]

\* The tables refer to no new message.
Shrinks ==
  /\ \A n \in Names : Range(chunkMap'[n]) \subseteq Range(chunkMap[n])
  /\ \A u \in Uploads, p \in PartNumbers : Range(partMap'[u][p]) \subseteq Range(partMap[u][p])

\* Every step of worker w is a move that keeps the types.
Turn(w) == MPTablesOK' /\ OwnedUploads' /\ OwnersKept /\ MPMoves(w) /\ nextId' >= nextId

\* Worker w forgets references or copies those of its key from the tables.
Copies(w) ==
  /\ Shrinks
  /\ Mine(w)' \subseteq Mine(w)
  /\ \/ Held(w)' = {}
     \/ /\ req'[w].name = req[w].name
        /\ req[w].name \in Names
        /\ Held(w)' \subseteq Held(w) \cup Stored(req[w].name)

\* Worker w has sent new messages, the only ones it refers to.
Sends(w) ==
  /\ UNCHANGED <<chunkMap, partMap, owner>>
  /\ \A m \in Held(w)' : nextId <= m.id /\ m.id < nextId'

\* Worker w has made messages it refers to those of its object.
CommitsObject(w) ==
  /\ req[w].name \in Names
  /\ req'[w].name = req[w].name
  /\ Range(chunkMap'[req[w].name]) \subseteq Held(w)
  /\ \A n \in Names : n # req[w].name => chunkMap'[n] = chunkMap[n]
  /\ \A u \in Uploads, p \in PartNumbers : Range(partMap'[u][p]) \subseteq Range(partMap[u][p])
  /\ Held(w)' \subseteq Held(w)
  /\ Mine(w)' = {}

\* Worker w has made the messages it sent those of a part of an upload to its key.
CommitsPart(w) ==
  /\ req[w].name \in Names
  /\ req'[w].name = req[w].name
  /\ UNCHANGED <<chunkMap, owner>>
  /\ \E u \in Uploads, p \in PartNumbers :
       /\ owner[u] = req[w].name
       /\ Range(partMap'[u][p]) \subseteq Mine(w)
       /\ \A v \in Uploads, q \in PartNumbers :
            <<v, q>> # <<u, p>> => partMap'[v][q] = partMap[v][q]
  /\ Held(w)' \subseteq Held(w)
  /\ Mine(w)' = {}

MPEffect(w) == Turn(w) /\ (Copies(w) \/ Sends(w) \/ CommitsObject(w) \/ CommitsPart(w))

\* The tables keep their types in a step that leaves most of them alone.
MPKept == UNCHANGED <<objects, chunkMap, mpStore>>

\* The empty list holds no message.
LEMMA EmptyRange == Range(<<>>) = {}
BY DEF Range

\* A handler that holds nothing afterwards, in a step that leaves the tables of
\* objects and parts alone.
LEMMA ReleasesEffect ==
  ASSUME MPTypeInv, NEW w \in Workers, MPReleases(w), MPKept, buckets' \subseteq Buckets,
         channel' \subseteq Messages, nextId' \in Nat, nextId' >= nextId
  PROVE  MPEffect(w)
<1>1. MPTablesOK' /\ OwnedUploads' /\ OwnersKept
  BY DEF MPTypeInv, MPTablesOK, OwnedUploads, OwnersKept, MPKept, mpStore
<1>2. Shrinks
  BY DEF Shrinks, MPKept, mpStore
<1>3. req'[w].chunks = <<>> /\ req'[w].old = <<>> /\ mp'[w].all = {}
  BY DEF MPReleases, MPMoves, MPFormed, Lists, MPHolding
<1>4. Held(w)' = {}
  BY <1>3, EmptyRange DEF Held
<1>5. Mine(w)' = {}
  BY <1>3, EmptyRange DEF Mine
<1> QED BY <1>1, <1>2, <1>4, <1>5 DEF MPEffect, Turn, Copies, MPReleases

\* A request that begins: no references yet, no upload.
LEMMA StartFormed ==
  ASSUME NEW o, NEW r \in MPRequests, NEW l \in Locals, r.chunks = <<>>, r.old = <<>>,
         l.all = {}, \A u \in l.todo : o[u] # None, Named(r), Sourced(r), Placed(r),
         r.pc \notin MPHolding \cup {"mpParts", "mpAll"},
         r.op \notin {"part", "partCopy", "complete"}
  PROVE  MPFormed(o, r, l)
BY DEF MPFormed, Linked, OnUpload, Lists, MPHolding

\* An object handler that begins.
LEMMA ObjectStart ==
  ASSUME MPTypeInv, NEW w \in Workers, NEW r \in MPRequests, r.chunks = <<>>, r.old = <<>>,
         Named(r), Sourced(r), Placed(r),
         r.pc \notin MPHolding \cup {"mpParts", "mpAll", "done"},
         r.op \notin {"part", "partCopy", "complete"},
         req[w].pc = "idle", req' = [req EXCEPT ![w] = r], ObjectLocals(w), UNCHANGED owner
  PROVE  MPReleases(w)
<1>1. mp[w] \in Locals /\ MPFormed(owner, req[w], mp[w])
  BY WorkerType
<1>2. mp[w].all = {} /\ \A u \in mp[w].todo : owner[u] # None
  BY <1>1 DEF MPFormed, Lists, Linked
<1>3. MPFormed(owner, r, mp[w])
  BY <1>1, <1>2, StartFormed
<1> QED BY <1>3, ObjectMoveTo DEF MPReleases

\* The first step of every object handler.
LEMMA ObjectBeginEffect ==
  ASSUME MPTypeInv, NEW w \in Workers, Begin(w), ObjectLocals(w), UNCHANGED mpStore
  PROVE  MPEffect(w)
<1>1. {"ok", "missing", "conflict", "error"} \subseteq Statuses /\ UNCHANGED owner
  BY SMTT(60) DEF Statuses, mpStore
<1>2. MPKept /\ UNCHANGED <<channel, nextId>> /\ buckets' \subseteq Buckets
  BY DEF Begin, createBucket, deleteBucketList, putObject, copyObject, getObject,
         deleteObjects, store, telegram, MPKept, MPTypeInv, MPTablesOK
<1>3. channel' \subseteq Messages /\ nextId' \in Nat /\ nextId' >= nextId
  BY <1>2 DEF MPTypeInv, MPTablesOK
<1> SUFFICES MPReleases(w)
  BY <1>2, <1>3, ReleasesEffect
<1>4. ASSUME NEW s \in Statuses, Answer(w, s)
      PROVE  MPReleases(w)
  BY <1>1, <1>4, ObjectAnswer
<1>5. ASSUME NEW b \in Buckets, deleteBucketList(w, b)
      PROVE  MPReleases(w)
  <2> DEFINE r == [Idle EXCEPT !.pc = "dropBucket", !.op = "deleteBucket", !.bucket = b]
  <2>1. CASE req' = [req EXCEPT ![w] = r]
    <3>1. /\ r \in MPRequests /\ r.pc = "dropBucket" /\ r.op = "deleteBucket"
          /\ r.chunks = <<>> /\ r.old = <<>>
      BY MPIdleType DEF MPRequests, MPPositions, MPOperations, Positions, Operations
    <3> HIDE DEF r
    <3>2. Named(r) /\ Sourced(r) /\ Placed(r)
      BY <3>1 DEF Named, Sourced, Placed
    <3> QED BY <1>1, <1>5, <2>1, <3>1, <3>2, ObjectStart DEF deleteBucketList, MPHolding
  <2> QED BY <1>1, <1>4, <1>5, <2>1 DEF deleteBucketList
<1>6. ASSUME NEW n \in Names, NEW body \in Bodies, putObject(w, n, body)
      PROVE  MPReleases(w)
  <2> DEFINE r == [Idle EXCEPT !.pc = "upload", !.op = "put", !.name = n, !.body = body]
  <2>1. CASE req' = [req EXCEPT ![w] = r]
    <3>1. body \in Seq(Documents)
      BY BodiesAssumption
    <3>2. /\ r \in MPRequests /\ r.pc = "upload" /\ r.op = "put" /\ r.name = n
          /\ r.chunks = <<>> /\ r.old = <<>>
      BY <3>1, MPIdleType DEF MPRequests, MPPositions, MPOperations, Positions, Operations
    <3> HIDE DEF r
    <3>3. Named(r) /\ Sourced(r) /\ Placed(r)
      BY <3>2 DEF Named, Sourced, Placed
    <3> QED BY <1>1, <1>6, <2>1, <3>2, <3>3, ObjectStart DEF putObject, MPHolding
  <2> QED BY <1>1, <1>4, <1>6, <2>1 DEF putObject
<1>7. ASSUME NEW n \in Names, NEW s \in Names, NEW o \in {"get", "copy"}, req[w].pc = "idle",
             req' = [req EXCEPT ![w] = [Idle EXCEPT !.pc = "loadRow", !.op = o, !.name = n,
                                                    !.src = s]]
      PROVE  MPReleases(w)
  <2> DEFINE r == [Idle EXCEPT !.pc = "loadRow", !.op = o, !.name = n, !.src = s]
  <2>1. /\ r \in MPRequests /\ r.pc = "loadRow" /\ r.op = o /\ r.name = n /\ r.src = s
        /\ r.chunks = <<>> /\ r.old = <<>>
    BY MPIdleType DEF MPRequests, MPPositions, MPOperations, Positions, Operations
  <2>2. req' = [req EXCEPT ![w] = r]
    BY <1>7
  <2> HIDE DEF r
  <2>3. Named(r) /\ Sourced(r) /\ Placed(r)
    BY <2>1 DEF Named, Sourced, Placed
  <2> QED BY <1>1, <1>7, <2>1, <2>2, <2>3, ObjectStart DEF MPHolding
<1>8. ASSUME NEW names \in DeleteLists, deleteObjects(w, names)
      PROVE  MPReleases(w)
  <2> DEFINE n == names[1]
             r == [Idle EXCEPT !.pc = "delRow", !.op = "delete", !.todo = names, !.name = n]
  <2>1. names \in Seq(Names)
    BY DeleteListsAssumption
  <2>2. CASE names # <<>>
    <3>1. n \in Names
      BY <2>1, <2>2, HeadTailProperties
    <3>2. req' = [req EXCEPT ![w] = r]
      BY <1>8, <2>2 DEF deleteObjects
    <3> HIDE DEF n
    <3>3. /\ r \in MPRequests /\ r.pc = "delRow" /\ r.op = "delete" /\ r.name = n
          /\ r.todo = names /\ r.chunks = <<>> /\ r.old = <<>>
      BY <2>1, <3>1, MPIdleType DEF MPRequests, MPPositions, MPOperations, Positions, Operations
    <3> HIDE DEF r
    <3>4. Named(r) /\ Sourced(r) /\ Placed(r)
      BY <2>2, <3>1, <3>3 DEF Named, Sourced, Placed
    <3> QED BY <1>1, <1>8, <3>2, <3>3, <3>4, ObjectStart DEF deleteObjects, MPHolding
  <2> QED BY <1>1, <1>4, <1>8, <2>2 DEF deleteObjects
<1>9. ASSUME NEW b \in Buckets, createBucket(w, b)
      PROVE  MPReleases(w)
  BY <1>1, <1>4, <1>9 DEF createBucket
<1>10. ASSUME NEW n \in Names, NEW s \in Names, copyObject(w, n, s)
      PROVE  MPReleases(w)
  BY <1>1, <1>4, <1>7, <1>10 DEF copyObject
<1>11. ASSUME NEW n \in Names, getObject(w, n)
       PROVE  MPReleases(w)
  BY <1>7, <1>11 DEF getObject
<1> QED BY <1>5, <1>6, <1>8, <1>9, <1>10, <1>11 DEF Begin

\* A handler that goes on at position p, its locals as they are.
LEMMA MPGotoMoves ==
  ASSUME MPTypeInv, NEW w \in Workers, NEW p \in MPPositions, Goto(w, p), p # "done",
         MPFormed(owner, [req[w] EXCEPT !.pc = p], mp[w]),
         ObjectLocals(w) \/ UNCHANGED mp, UNCHANGED owner
  PROVE  MPMoves(w) /\ req'[w] = [req[w] EXCEPT !.pc = p] /\ UNCHANGED mp
<1> DEFINE r == [req[w] EXCEPT !.pc = p]
<1>1. r \in MPRequests /\ r.pc = p
  BY WorkerType DEF MPRequests
<1>2. req' = [req EXCEPT ![w] = r]
  BY DEF Goto
<1>3. MPFormed(owner, r, mp[w])
  OBVIOUS
<1> HIDE DEF r
<1>4. CASE ObjectLocals(w)
  BY <1>1, <1>2, <1>3, <1>4, ObjectMoveTo DEF r
<1>5. CASE UNCHANGED mp
  BY <1>1, <1>2, <1>3, <1>5, MPMoveTo, WorkerType DEF r
<1> QED BY <1>4, <1>5

\* deleteOneObject is over: the next key of the list, or the answer.
LEMMA MPNextKeyMoves ==
  ASSUME MPTypeInv, NEW w \in Workers, NEW s \in Statuses, NextKey(w, s), ObjectLocals(w),
         UNCHANGED owner, req[w].pc \in {"delRow", "delChunks", "delReap", "delCommit"}
  PROVE  MPReleases(w)
<1>1. req[w] \in MPRequests /\ mp[w] \in Locals /\ MPFormed(owner, req[w], mp[w])
  BY WorkerType
<1>2. CASE Len(req[w].todo) = 1
  BY <1>2, ObjectAnswer DEF NextKey
<1>3. CASE Len(req[w].todo) # 1
  <2> DEFINE t == Tail(req[w].todo)
             n == req[w].todo[2]
             e == <<>>
             r == [req[w] EXCEPT !.pc = "delRow", !.todo = t, !.name = n, !.old = e]
  <2>1. req' = [req EXCEPT ![w] = r]
    BY <1>3 DEF NextKey
  <2>2. req[w].todo \in Seq(Names) /\ req[w].todo # <<>>
    BY <1>1 DEF MPRequests, MPFormed, Sourced
  <2>3. t \in Seq(Names) /\ t # <<>> /\ n \in Names
    BY <1>3, <2>2, RestOfList
  <2>4. e \in Seq(Messages) /\ e = <<>>
    OBVIOUS
  <2>5. /\ req[w].chunks = <<>> /\ mp[w].all = {} /\ req[w].op = "delete"
        /\ \A u \in mp[w].todo : owner[u] # None
    BY <1>1 DEF MPFormed, Placed, Linked, Lists
  <2> HIDE DEF t, n, e
  <2>6. /\ r \in MPRequests /\ r.pc = "delRow" /\ r.name = n /\ r.todo = t /\ r.old = e
        /\ r.op = req[w].op /\ r.chunks = req[w].chunks
    BY <1>1, <2>3, <2>4 DEF MPRequests, MPPositions, Positions
  <2> HIDE DEF r
  <2>7. Named(r) /\ Sourced(r) /\ Placed(r)
    BY <2>3, <2>5, <2>6 DEF Named, Sourced, Placed
  <2>8. MPFormed(owner, r, mp[w]) /\ r.pc \notin MPHolding
    BY <1>1, <2>4, <2>5, <2>6, <2>7, StartFormed DEF MPHolding
  <2> QED BY <2>1, <2>6, <2>8, ObjectMoveTo DEF MPReleases
<1> QED BY <1>2, <1>3

\* The steps of the object handlers after which they hold nothing and that leave
\* the tables of objects alone.
LEMMA ReleaseSteps ==
  ASSUME MPTypeInv, NEW w \in Workers, ObjectLocals(w), UNCHANGED mpStore,
         \/ DeleteBucket(w) \/ reapSupersededChunks(w) \/ deleteChunks(w) \/ loadRow(w)
         \/ loadChunks(w) \/ streamObject(w) \/ deleteOneObject(w) \/ Answered(w)
  PROVE  MPEffect(w)
<1>1. {"ok", "missing", "conflict", "error"} \subseteq Statuses /\ UNCHANGED owner
  BY DEF Statuses, mpStore
<1>2. req[w] \in MPRequests /\ mp[w] \in Locals /\ MPFormed(owner, req[w], mp[w]) /\ MPTablesOK
  BY WorkerType DEF MPTypeInv
<1>3. ASSUME NEW s \in Statuses, Answer(w, s) \/ AnswerRead(w, s)
      PROVE  MPReleases(w)
  BY <1>1, <1>3, ObjectAnswer, ObjectAnswerRead
<1>4. MPKept /\ buckets' \subseteq Buckets
  BY <1>2 DEF DeleteBucket, reapSupersededChunks, deleteChunks, loadRow, loadChunks,
              streamObject, deleteOneObject, Answered, store, MPKept, MPTablesOK
<1>5. channel' \subseteq Messages /\ nextId' \in Nat /\ nextId' >= nextId
  <2>1. CASE reapSupersededChunks(w) \/ deleteChunks(w)
    <3>1. channel' \subseteq channel /\ UNCHANGED nextId
      BY <1>2, <2>1, DeleteBatchType DEF reapSupersededChunks, deleteChunks, MPTablesOK
    <3> QED BY <1>2, <3>1 DEF MPTablesOK
  <2>2. CASE \/ DeleteBucket(w) \/ loadRow(w) \/ loadChunks(w) \/ streamObject(w)
             \/ deleteOneObject(w) \/ Answered(w)
    <3>1. UNCHANGED <<channel, nextId>>
      BY <2>2 DEF DeleteBucket, loadRow, loadChunks, streamObject, deleteOneObject, Answered,
                  telegram
    <3> QED BY <1>2, <3>1 DEF MPTablesOK
  <2> QED BY <2>1, <2>2
<1> SUFFICES MPReleases(w)
  BY <1>4, <1>5, ReleasesEffect
<1>6. CASE DeleteBucket(w) \/ reapSupersededChunks(w) \/ deleteChunks(w)
  BY <1>1, <1>3, <1>6 DEF DeleteBucket, reapSupersededChunks, deleteChunks
<1>7. CASE loadRow(w)
  <2> DEFINE x == objects[req[w].src]
             r == [req[w] EXCEPT !.pc = "loadChunks", !.row = x]
  <2>1. req[w].pc = "loadRow" /\ req[w].src \in Names
    BY <1>2, <1>7 DEF loadRow, MPFormed, Sourced
  <2>2. CASE x # None /\ req' = [req EXCEPT ![w] = r]
    <3>1. x \in Rows
      BY <1>2, <2>1, <2>2 DEF MPTablesOK
    <3> HIDE DEF x
    <3>2. /\ r \in MPRequests /\ r.pc = "loadChunks" /\ r.row = x
          /\ r.name = req[w].name /\ r.src = req[w].src /\ r.op = req[w].op
          /\ r.chunks = req[w].chunks /\ r.old = req[w].old
      BY <1>2, <3>1, ZenonT(60) DEF MPRequests, MPPositions, Positions
    <3> HIDE DEF r
    <3>3. Named(r) /\ Sourced(r) /\ Placed(r)
      BY <1>2, <2>1, <3>1, <3>2 DEF MPFormed, Named, Sourced, Placed
    <3>4. Linked(owner, r, mp[w]) /\ Lists(r, mp[w])
      BY <1>2, <2>1, <3>2 DEF MPFormed, Linked, Lists, OnUpload
    <3> QED BY <1>1, <2>2, <3>2, <3>3, <3>4, ObjectMoveTo DEF MPReleases, MPFormed, MPHolding
  <2> QED BY <1>1, <1>3, <1>7, <2>2 DEF loadRow
<1>8. CASE loadChunks(w)
  <2> DEFINE x == chunkMap[req[w].src]
             p == IF req[w].op = "get" THEN "stream" ELSE "copyUpload"
             r == [req[w] EXCEPT !.pc = p, !.read = x]
  <2>1. req[w].pc = "loadChunks" /\ req[w].src \in Names /\ req[w].row \in Rows
    BY <1>2, <1>8 DEF loadChunks, MPFormed, Sourced
  <2>2. CASE req' = [req EXCEPT ![w] = r]
    <3>1. x \in Seq(Messages) /\ p \in {"stream", "copyUpload"}
      BY <1>2, <2>1 DEF MPTablesOK
    <3> HIDE DEF x, p
    <3>2. /\ r \in MPRequests /\ r.pc = p /\ r.row = req[w].row
          /\ r.name = req[w].name /\ r.src = req[w].src /\ r.op = req[w].op
          /\ r.chunks = req[w].chunks /\ r.old = req[w].old
      BY <1>2, <3>1, ZenonT(60) DEF MPRequests, MPPositions, Positions
    <3> HIDE DEF r
    <3>3. Named(r) /\ Sourced(r) /\ Placed(r)
      BY <1>2, <2>1, <3>1, <3>2 DEF MPFormed, Named, Sourced, Placed
    <3>4. Linked(owner, r, mp[w]) /\ Lists(r, mp[w])
      BY <1>2, <2>1, <3>1, <3>2 DEF MPFormed, Linked, Lists, OnUpload
    <3> QED BY <1>1, <2>2, <3>1, <3>2, <3>3, <3>4, ObjectMoveTo DEF MPReleases, MPFormed, MPHolding
  <2> QED BY <1>1, <1>3, <1>8, <2>2 DEF loadChunks
<1>9. CASE streamObject(w)
  <2> DEFINE x == SourceBytes(w)
             r == [req[w] EXCEPT !.pc = "done", !.status = "ok", !.body = x]
  <2>1. req[w].pc = "stream" /\ req[w].row \in Rows /\ req[w].read \in Seq(Messages)
    BY <1>2, <1>9 DEF streamObject, MPFormed, Sourced, MPRequests
  <2>2. CASE req' = [req EXCEPT ![w] = r]
    <3>1. x \in Seq(Documents)
      BY <2>1, SourceBytesType
    <3> HIDE DEF x
    <3>2. /\ r \in MPRequests /\ r.pc = "done"
          /\ r.chunks = req[w].chunks /\ r.old = req[w].old
      BY <1>1, <1>2, <3>1 DEF MPRequests, MPPositions, Positions
    <3> HIDE DEF r
    <3>3. r.chunks = <<>> /\ r.old = <<>>
      BY <1>2, <2>1, <3>2 DEF MPFormed, Lists
    <3>4. MPFormed(owner', r, MPIdle)
      BY <3>2, <3>3, MPIdleType, AnswerFormed
    <3>5. req'[w] = r
      BY <2>2 DEF MPTypeInv
    <3>6. mp' = [mp EXCEPT ![w] = MPIdle]
      BY <3>2, <3>5 DEF ObjectLocals
    <3> QED BY <2>2, <3>2, <3>4, <3>6, MPIdleType, MPMoveTo DEF MPReleases, MPHolding
  <2> QED BY <1>1, <1>3, <1>9, <2>2 DEF streamObject
<1>10. CASE deleteOneObject(w)
  <2>1. req[w].pc = "delRow"
    BY <1>10 DEF deleteOneObject
  <2>2. CASE Goto(w, "delChunks")
    <3> DEFINE r == [req[w] EXCEPT !.pc = "delChunks"]
    <3>1. /\ r \in MPRequests /\ r.pc = "delChunks"
          /\ r.name = req[w].name /\ r.todo = req[w].todo /\ r.op = req[w].op
          /\ r.chunks = req[w].chunks /\ r.old = req[w].old
      BY <1>2 DEF MPRequests, MPPositions, Positions
    <3> HIDE DEF r
    <3>2. Named(r) /\ Sourced(r) /\ Placed(r)
      BY <1>2, <2>1, <3>1 DEF MPFormed, Named, Sourced, Placed
    <3>3. Linked(owner, r, mp[w]) /\ Lists(r, mp[w])
      BY <1>2, <2>1, <3>1 DEF MPFormed, Linked, Lists, OnUpload
    <3>4. "delChunks" \in MPPositions
      BY DEF MPPositions, Positions
    <3>5. MPFormed(owner, r, mp[w])
      BY <3>2, <3>3 DEF MPFormed
    <3> QED BY <1>1, <2>2, <3>1, <3>4, <3>5, MPGotoMoves DEF MPReleases, MPHolding, r
  <2> QED BY <1>1, <1>10, <2>1, <2>2, MPNextKeyMoves DEF deleteOneObject
<1>11. CASE Answered(w)
  <2>1. req[w].pc = "done" /\ req' = [req EXCEPT ![w] = Idle]
    BY <1>11 DEF Answered
  <2>2. mp[w].all = {} /\ \A u \in mp[w].todo : owner[u] # None
    BY <1>2, <2>1 DEF MPFormed, Lists, Linked
  <2>3. Named(Idle) /\ Sourced(Idle) /\ Placed(Idle)
    BY MPIdleType DEF Named, Sourced, Placed
  <2>4. MPFormed(owner, Idle, mp[w])
    BY <1>2, <2>2, <2>3, MPIdleType, StartFormed DEF MPHolding
  <2> QED BY <1>1, <2>1, <2>4, MPIdleType, ObjectMoveTo DEF MPReleases, MPHolding
<1> QED BY <1>6, <1>7, <1>8, <1>9, <1>10, <1>11

\* Held and Mine of a worker whose request and locals are known.
LEMMA HeldAfter ==
  ASSUME NEW w
  PROVE  /\ Held(w)' = Range(req'[w].chunks) \cup Range(req'[w].old) \cup mp'[w].all
         /\ Mine(w)' = IF req'[w].pc \in {"readOld", "commit", "discard"}
                          /\ req'[w].op # "complete" THEN Range(req'[w].chunks) ELSE {}
BY DEF Held, Mine, Range

\* The types of the tables in a step that keeps them.
LEMMA KeptTables ==
  ASSUME MPTypeInv, MPKept, buckets' \subseteq Buckets, channel' \subseteq Messages,
         nextId' \in Nat
  PROVE  MPTablesOK' /\ OwnedUploads' /\ OwnersKept /\ Shrinks
BY DEF MPTypeInv, MPTablesOK, OwnedUploads, OwnersKept, MPKept, mpStore, Shrinks

\* An upload that returned its chunks.
LEMMA MPUploadOKEffect ==
  ASSUME MPTypeInv, NEW w \in Workers, NEW body \in Seq(Documents),
         NEW p \in {"readOld", "discard"}, UploadOK(w, body, p), UNCHANGED store,
         ObjectLocals(w), UNCHANGED mpStore, req[w].pc \in {"upload", "copyUpload"}
  PROVE  MPEffect(w)
<1> DEFINE ms == Sent(nextId, body)
           e == <<>>
           r == [req[w] EXCEPT !.pc = p, !.chunks = ms, !.body = body, !.row = None, !.read = e]
<1>1. req[w] \in MPRequests /\ mp[w] \in Locals /\ MPFormed(owner, req[w], mp[w]) /\ MPTablesOK
  BY WorkerType DEF MPTypeInv
<1>2. ms \in Seq(Messages) /\ e \in Seq(Messages)
  BY <1>1, SentType DEF MPTablesOK
<1>3. /\ req' = [req EXCEPT ![w] = r]
      /\ channel' = channel \cup Range(ms)
      /\ nextId' = nextId + Len(body)
  BY DEF UploadOK
<1>4. \A m \in Range(ms) : nextId <= m.id /\ m.id < nextId + Len(body)
  BY <1>1, SentType DEF MPTablesOK
<1> HIDE DEF ms, e
<1>5. /\ r \in MPRequests /\ r.pc = p /\ r.chunks = ms
      /\ r.name = req[w].name /\ r.op = req[w].op /\ r.old = req[w].old
  BY <1>1, <1>2 DEF MPRequests, MPPositions, Positions
<1> HIDE DEF r
<1>6. Named(r) /\ Sourced(r) /\ Placed(r)
  BY <1>1, <1>5 DEF MPFormed, Named, Sourced, Placed
<1>7. Linked(owner, r, mp[w]) /\ Lists(r, mp[w])
  BY <1>1, <1>5 DEF MPFormed, Linked, Lists, OnUpload, Placed
<1>8. UNCHANGED owner /\ MPKept /\ UNCHANGED buckets
  BY DEF mpStore, MPKept, store
<1>9. MPMoves(w) /\ req'[w] = r /\ UNCHANGED mp
  BY <1>3, <1>5, <1>6, <1>7, <1>8, ObjectMoveTo DEF MPFormed
<1>10. Range(ms) \subseteq Messages
  BY <1>2 DEF Range
<1>11. channel' \subseteq Messages /\ nextId' \in Nat /\ nextId' >= nextId
  <2>1. Len(body) \in Nat
    OBVIOUS
  <2> QED BY <1>1, <1>3, <1>10, <2>1 DEF MPTablesOK
<1>12. Turn(w)
  BY <1>1, <1>8, <1>9, <1>11, KeptTables DEF Turn, MPTablesOK
<1>13. req'[w].old = <<>> /\ mp'[w].all = {}
  BY <1>1, <1>5, <1>9 DEF MPFormed, Lists
<1>14. Held(w)' = Range(ms)
  BY <1>5, <1>9, <1>13, EmptyRange, HeldAfter
<1>15. Sends(w)
  BY <1>3, <1>4, <1>8, <1>14 DEF Sends, MPKept, mpStore
<1> QED BY <1>12, <1>15 DEF MPEffect

\* backend.Upload of a body or of a copy source.
LEMMA UploadSteps ==
  ASSUME MPTypeInv, NEW w \in Workers, ObjectLocals(w), UNCHANGED mpStore,
         Upload(w) \/ CopyUpload(w)
  PROVE  MPEffect(w)
<1>1. req[w] \in MPRequests /\ MPFormed(owner, req[w], mp[w]) /\ MPTablesOK
  BY WorkerType DEF MPTypeInv
<1>2. ASSUME NEW body \in Seq(Documents), UploadFails(w, body), UNCHANGED store
      PROVE  MPEffect(w)
  <2>1. /\ channel' \subseteq Messages /\ nextId' \in Nat /\ nextId' >= nextId
        /\ Answer(w, "error")
    BY <1>1, <1>2, UploadFailsType DEF MPTablesOK
  <2>2. "error" \in Statuses /\ UNCHANGED owner /\ MPKept /\ buckets' \subseteq Buckets
    BY <1>1, <1>2 DEF Statuses, mpStore, MPKept, store, MPTablesOK
  <2>3. MPReleases(w)
    BY <2>1, <2>2, ObjectAnswer
  <2> QED BY <2>1, <2>2, <2>3, ReleasesEffect
<1>3. CASE Upload(w)
  <2>1. req[w].body \in Seq(Documents)
    BY <1>1 DEF MPRequests
  <2> QED BY <1>2, <1>3, <2>1, MPUploadOKEffect DEF Upload
<1>4. CASE CopyUpload(w)
  <2>1. req[w].row \in Rows /\ req[w].read \in Seq(Messages)
    BY <1>1, <1>4 DEF CopyUpload, MPFormed, Sourced, MPRequests
  <2>2. SourceBytes(w) \in Seq(Documents)
    BY <2>1, SourceBytesType
  <2> QED BY <1>2, <1>4, <2>2, MPUploadOKEffect DEF CopyUpload
<1> QED BY <1>3, <1>4

\* A handler that has read a list of messages of its key to delete.
LEMMA OldRead ==
  ASSUME MPTypeInv, NEW w \in Workers, NEW old \in Seq(Messages),
         NEW p \in {"commit", "delReap"},
         req' = [req EXCEPT ![w] = [req[w] EXCEPT !.pc = p, !.old = old]],
         \/ p = "commit" /\ req[w].pc = "readOld"
         \/ p = "delReap" /\ req[w].pc = "delChunks",
         UNCHANGED mp, UNCHANGED <<store, telegram, mpStore>>,
         Range(old) \subseteq Stored(req[w].name)
  PROVE  MPEffect(w)
<1> DEFINE r == [req[w] EXCEPT !.pc = p, !.old = old]
<1>1. req[w] \in MPRequests /\ mp[w] \in Locals /\ MPFormed(owner, req[w], mp[w]) /\ MPTablesOK
  BY WorkerType DEF MPTypeInv
<1>2. /\ r \in MPRequests /\ r.pc = p /\ r.old = old /\ r.chunks = req[w].chunks
      /\ r.name = req[w].name /\ r.op = req[w].op /\ r.todo = req[w].todo
  BY <1>1 DEF MPRequests, MPPositions, Positions
<1>3. req' = [req EXCEPT ![w] = r]
  OBVIOUS
<1> HIDE DEF r
<1>4. Named(r) /\ Sourced(r) /\ Placed(r) /\ req[w].name \in Names
  BY <1>1, <1>2 DEF MPFormed, Named, Sourced, Placed
<1>5. Linked(owner, r, mp[w]) /\ Lists(r, mp[w])
  BY <1>1, <1>2 DEF MPFormed, Linked, Lists, OnUpload, Placed
<1>6. /\ UNCHANGED owner /\ MPKept /\ buckets' \subseteq Buckets
      /\ channel' \subseteq Messages /\ nextId' \in Nat /\ nextId' >= nextId
  BY <1>1 DEF mpStore, MPKept, store, telegram, MPTablesOK
<1>7. MPMoves(w) /\ req'[w] = r /\ mp'[w] = mp[w]
  BY <1>1, <1>2, <1>3, <1>4, <1>5, <1>6, MPMoveTo DEF MPFormed
<1>8. Turn(w) /\ Shrinks
  BY <1>6, <1>7, KeptTables DEF Turn
<1>9. Held(w)' \subseteq Held(w) \cup Stored(req[w].name)
  BY <1>2, <1>7, HeldAfter DEF Held
<1>10. Mine(w)' \subseteq Mine(w)
  <2>1. req[w].pc = "delChunks" => r.pc \notin {"readOld", "commit", "discard"}
    BY <1>2
  <2> QED BY <1>2, <1>7, <2>1, HeldAfter DEF Mine
<1>11. Copies(w)
  BY <1>2, <1>4, <1>7, <1>8, <1>9, <1>10 DEF Copies
<1> QED BY <1>8, <1>11 DEF MPEffect

\* The chunks of an object are stored for its key.
LEMMA StoredChunks ==
  ASSUME NEW n
  PROVE  Range(chunkMap[n]) \subseteq Stored(n)
BY DEF Stored

\* The chunks of a part are stored for the key of its upload.
LEMMA StoredParts ==
  ASSUME NEW u \in Uploads, NEW p \in PartNumbers
  PROVE  Range(partMap[u][p]) \subseteq Stored(owner[u])
BY DEF Stored

\* The prior version's chunks, for an overwrite and for a delete.
LEMMA ReadSteps ==
  ASSUME MPTypeInv, NEW w \in Workers, ObjectLocals(w), UNCHANGED mpStore,
         readOldChunks(w) \/ deleteReadChunks(w)
  PROVE  MPEffect(w)
<1>1. req[w] \in MPRequests /\ MPFormed(owner, req[w], mp[w]) /\ MPTablesOK
  BY WorkerType DEF MPTypeInv
<1>2. UNCHANGED <<store, telegram, mpStore>>
  BY DEF readOldChunks, deleteReadChunks
<1>3. req[w].name \in Names
  BY <1>1 DEF MPFormed, Named, readOldChunks, deleteReadChunks
<1>4. ASSUME NEW old \in {chunkMap[req[w].name], <<>>}
      PROVE  old \in Seq(Messages) /\ Range(old) \subseteq Stored(req[w].name)
  <2>1. chunkMap[req[w].name] \in Seq(Messages) /\ <<>> \in Seq(Messages)
    BY <1>1, <1>3 DEF MPTablesOK
  <2> QED BY <1>4, <2>1, StoredChunks, EmptyRange
<1>5. ASSUME NEW p \in {"commit", "delReap"}, NEW old,
             req' = [req EXCEPT ![w] = [req[w] EXCEPT !.pc = p, !.old = old]]
      PROVE  UNCHANGED mp
  <2>1. req'[w].pc = p
    BY <1>1, <1>5 DEF MPTypeInv, MPRequests
  <2> QED BY <2>1 DEF ObjectLocals
<1>6. CASE readOldChunks(w)
  <2>1. PICK old \in {chunkMap[req[w].name], <<>>} :
           req' = [req EXCEPT ![w] = [req[w] EXCEPT !.pc = "commit", !.old = old]]
    BY <1>6 DEF readOldChunks
  <2>2. old \in Seq(Messages) /\ Range(old) \subseteq Stored(req[w].name)
    BY <1>4
  <2>3. UNCHANGED mp /\ req[w].pc = "readOld"
    BY <1>5, <1>6, <2>1 DEF readOldChunks
  <2> QED BY <1>2, <2>1, <2>2, <2>3, OldRead
<1>7. CASE deleteReadChunks(w)
  <2>1. req[w].pc = "delChunks" /\ "error" \in Statuses /\ UNCHANGED owner
    BY <1>7 DEF deleteReadChunks, Statuses, mpStore
  <2>2. CASE req' = [req EXCEPT ![w] = [req[w] EXCEPT !.pc = "delReap",
                                                      !.old = chunkMap[req[w].name]]]
    <3>1. UNCHANGED mp
      BY <1>5, <2>2
    <3> QED BY <1>2, <1>4, <2>1, <2>2, <3>1, OldRead
  <2>3. CASE NextKey(w, "error")
    <3>1. MPReleases(w)
      BY <2>1, <2>3, MPNextKeyMoves
    <3>2. /\ MPKept /\ buckets' \subseteq Buckets
          /\ channel' \subseteq Messages /\ nextId' \in Nat /\ nextId' >= nextId
      BY <1>1, <1>2 DEF MPKept, store, telegram, MPTablesOK
    <3> QED BY <3>1, <3>2, ReleasesEffect
  <2> QED BY <1>7, <2>2, <2>3 DEF deleteReadChunks
<1> QED BY <1>6, <1>7

\* A handler that keeps the references it has and goes on after its transaction
\* or its deletion.
LEMMA GoesOn ==
  ASSUME MPTypeInv, NEW w \in Workers, NEW p, Goto(w, p),
         \/ req[w].pc = "commit" /\ p = "reap"
         \/ req[w].pc = "commit" /\ p = "discard" /\ req[w].op # "complete"
         \/ req[w].pc = "delReap" /\ p = "delCommit"
         \/ req[w].pc = "mpReap" /\ p = "mpDrop",
         ObjectLocals(w) \/ UNCHANGED mp, UNCHANGED owner
  PROVE  /\ MPMoves(w) /\ UNCHANGED mp
         /\ req'[w] = [req[w] EXCEPT !.pc = p]
         /\ req[w].name \in Names /\ req'[w].name = req[w].name
         /\ Held(w)' = Held(w)
         /\ Mine(w)' \subseteq Mine(w)
         /\ p = "reap" => Mine(w)' = {}
<1> DEFINE r == [req[w] EXCEPT !.pc = p]
<1>1. req[w] \in MPRequests /\ mp[w] \in Locals /\ MPFormed(owner, req[w], mp[w])
  BY WorkerType
<1>2. p \in MPPositions /\ p # "done"
  BY DEF MPPositions, Positions
<1>3. /\ r \in MPRequests /\ r.pc = p /\ r.old = req[w].old /\ r.chunks = req[w].chunks
      /\ r.name = req[w].name /\ r.op = req[w].op /\ r.todo = req[w].todo
  BY <1>1, <1>2 DEF MPRequests
<1> HIDE DEF r
<1>4. Named(r) /\ Sourced(r) /\ Placed(r) /\ req[w].name \in Names
  BY <1>1, <1>3 DEF MPFormed, Named, Sourced, Placed
<1>5. Linked(owner, r, mp[w]) /\ Lists(r, mp[w])
  BY <1>1, <1>3 DEF MPFormed, Linked, Lists, OnUpload
<1>6. MPMoves(w) /\ req'[w] = r /\ UNCHANGED mp
  BY <1>2, <1>4, <1>5, MPGotoMoves DEF MPFormed, r
<1>7. Held(w)' = Held(w)
  BY <1>3, <1>6, HeldAfter DEF Held
<1>8. Mine(w)' \subseteq Mine(w) /\ (p = "reap" => Mine(w)' = {})
  BY <1>3, <1>6, HeldAfter DEF Mine
<1> QED BY <1>3, <1>4, <1>6, <1>7, <1>8 DEF r

\* PutObject: the new chunks become the object's, or are given up.
LEMMA PutObjectEffect ==
  ASSUME MPTypeInv, NEW w \in Workers, ObjectLocals(w), UNCHANGED mpStore, PutObject(w)
  PROVE  MPEffect(w)
<1>1. req[w] \in MPRequests /\ MPTablesOK /\ OwnedUploads
  BY WorkerType DEF MPTypeInv
<1>2. /\ UNCHANGED <<buckets, channel, nextId, owner, uploads, parts, partMap>>
      /\ req[w].pc = "commit" /\ req[w].op # "complete"
  BY DEF PutObject, telegram, mpStore
<1>3. nextId' >= nextId /\ OwnersKept
  BY <1>1, <1>2 DEF MPTablesOK, OwnersKept
<1>4. CASE /\ Goto(w, "reap")
           /\ objects' = [objects EXCEPT ![req[w].name] = ObjectRow(req[w].body)]
           /\ chunkMap' = [chunkMap EXCEPT ![req[w].name] = req[w].chunks]
  <2>1. /\ MPMoves(w) /\ req[w].name \in Names /\ req'[w].name = req[w].name
        /\ Held(w)' = Held(w) /\ Mine(w)' = {}
    BY <1>2, <1>4, GoesOn
  <2>2. ObjectRow(req[w].body) \in Rows /\ req[w].chunks \in Seq(Messages)
    BY <1>1, ObjectRowType DEF MPRequests
  <2>3. /\ objects' \in [Names -> Rows \cup {None}]
        /\ chunkMap' \in [Names -> Seq(Messages)]
        /\ chunkMap'[req[w].name] = req[w].chunks
        /\ \A n \in Names : n # req[w].name => chunkMap'[n] = chunkMap[n]
    BY <1>1, <1>4, <2>1, <2>2 DEF MPTablesOK
  <2>4. MPTablesOK' /\ OwnedUploads'
    BY <1>1, <1>2, <2>3 DEF MPTablesOK, OwnedUploads
  <2>5. Range(chunkMap'[req[w].name]) \subseteq Held(w)
    BY <2>3 DEF Held
  <2>6. CommitsObject(w)
    BY <1>2, <2>1, <2>3, <2>5 DEF CommitsObject
  <2> QED BY <1>3, <2>1, <2>4, <2>6 DEF MPEffect, Turn
<1>5. CASE Goto(w, "discard") /\ UNCHANGED <<objects, chunkMap>>
  <2>1. /\ MPMoves(w) /\ req[w].name \in Names /\ req'[w].name = req[w].name
        /\ Held(w)' = Held(w) /\ Mine(w)' \subseteq Mine(w)
    BY <1>2, <1>5, GoesOn
  <2>2. MPTablesOK' /\ OwnedUploads' /\ Shrinks
    BY <1>1, <1>2, <1>5, KeptTables DEF MPKept, mpStore, MPTablesOK
  <2> QED BY <1>3, <2>1, <2>2 DEF MPEffect, Turn, Copies
<1> QED BY <1>4, <1>5 DEF PutObject, replaceObjectChunksTx

\* DELETE: the messages, then the rows.
LEMMA DeleteSteps ==
  ASSUME MPTypeInv, NEW w \in Workers, ObjectLocals(w), UNCHANGED mpStore,
         deleteReap(w) \/ DeleteObject(w)
  PROVE  MPEffect(w)
<1>1. req[w] \in MPRequests /\ MPFormed(owner, req[w], mp[w]) /\ MPTablesOK /\ OwnedUploads
  BY WorkerType DEF MPTypeInv
<1>2. UNCHANGED <<owner, uploads, parts, partMap>> /\ OwnersKept
  BY DEF mpStore, OwnersKept
<1>3. CASE deleteReap(w)
  <2>1. channel' \subseteq Messages /\ nextId' \in Nat /\ nextId' >= nextId
    <3>1. channel' \subseteq channel /\ UNCHANGED nextId
      BY <1>1, <1>3, DeleteBatchType DEF deleteReap, MPTablesOK
    <3> QED BY <1>1, <3>1 DEF MPTablesOK
  <2>2. MPTablesOK' /\ OwnedUploads' /\ Shrinks
    BY <1>1, <1>3, <2>1, KeptTables DEF deleteReap, MPKept, store, MPTablesOK
  <2>3. /\ MPMoves(w) /\ req[w].name \in Names /\ req'[w].name = req[w].name
        /\ Held(w)' = Held(w) /\ Mine(w)' \subseteq Mine(w)
    BY <1>2, <1>3, GoesOn DEF deleteReap
  <2> QED BY <1>2, <2>1, <2>2, <2>3 DEF MPEffect, Turn, Copies
<1>4. CASE DeleteObject(w)
  <2>1. /\ req[w].pc = "delCommit" /\ req[w].name \in Names
        /\ UNCHANGED <<buckets, channel, nextId>>
    BY <1>1, <1>4 DEF DeleteObject, telegram, MPFormed, Named
  <2>2. MPReleases(w)
    <3>1. "ok" \in Statuses /\ "error" \in Statuses
      BY DEF Statuses
    <3> QED BY <1>2, <1>4, <2>1, <3>1, MPNextKeyMoves DEF DeleteObject
  <2>3. CASE UNCHANGED <<objects, chunkMap>>
    <3>1. /\ MPKept /\ buckets' \subseteq Buckets
          /\ channel' \subseteq Messages /\ nextId' \in Nat /\ nextId' >= nextId
      BY <1>1, <2>1, <2>3 DEF MPKept, MPTablesOK
    <3> QED BY <2>2, <3>1, ReleasesEffect
  <2>4. CASE /\ objects' = [objects EXCEPT ![req[w].name] = None]
             /\ chunkMap' = [chunkMap EXCEPT ![req[w].name] = <<>>]
    <3>1. <<>> \in Seq(Messages)
      OBVIOUS
    <3>2. /\ objects' \in [Names -> Rows \cup {None}]
          /\ chunkMap' \in [Names -> Seq(Messages)]
          /\ \A n \in Names : chunkMap'[n] \in {chunkMap[n], <<>>}
      BY <1>1, <2>1, <2>4, <3>1 DEF MPTablesOK
    <3>3. MPTablesOK' /\ OwnedUploads'
      BY <1>1, <1>2, <2>1, <3>2 DEF MPTablesOK, OwnedUploads
    <3>4. Shrinks
      BY <1>2, <3>2, EmptyRange DEF Shrinks
    <3>5. req'[w].chunks = <<>> /\ req'[w].old = <<>> /\ mp'[w].all = {}
      BY <2>2 DEF MPReleases, MPMoves, MPFormed, Lists, MPHolding
    <3>6. Held(w)' = {} /\ Mine(w)' = {}
      BY <3>5, EmptyRange, HeldAfter
    <3>7. nextId' >= nextId
      BY <1>1, <2>1 DEF MPTablesOK
    <3> QED BY <1>2, <2>2, <3>3, <3>4, <3>6, <3>7 DEF MPEffect, Turn, Copies, MPReleases
  <2> QED BY <1>4, <2>3, <2>4 DEF DeleteObject
<1> QED BY <1>3, <1>4

\* Every step of the object handlers.
LEMMA ObjectStepEffect ==
  ASSUME MPTypeInv, NEW w \in Workers, ObjectStep(w)
  PROVE  MPEffect(w)
<1>1. ObjectLocals(w) /\ UNCHANGED mpStore
  BY DEF ObjectStep, ObjectLocals
<1>2. CASE Begin(w)
  BY <1>1, <1>2, ObjectBeginEffect
<1>3. CASE Step(w)
  BY <1>1, <1>3, ReleaseSteps, UploadSteps, ReadSteps, PutObjectEffect, DeleteSteps DEF Step
<1> QED BY <1>2, <1>3 DEF ObjectStep

----------------------------------------------------------------------------
(* The multipart handlers                                                  *)

\* What a step that leaves the tables alone keeps.
LEMMA TablesKept ==
  ASSUME MPTypeInv, UNCHANGED <<store, telegram, mpStore>>
  PROVE  /\ MPKept /\ buckets' \subseteq Buckets /\ UNCHANGED owner
         /\ channel' \subseteq Messages /\ nextId' \in Nat /\ nextId' >= nextId
         /\ MPTablesOK' /\ OwnedUploads' /\ OwnersKept /\ Shrinks
<1>1. MPKept /\ UNCHANGED <<buckets, channel, nextId, owner>>
  BY DEF MPKept, store, telegram, mpStore
<1>2. /\ buckets' \subseteq Buckets /\ channel' \subseteq Messages
      /\ nextId' \in Nat /\ nextId' >= nextId
  BY <1>1 DEF MPTypeInv, MPTablesOK
<1> QED BY <1>1, <1>2, KeptTables

\* A handler that begins to work on an upload.
LEMMA UploadStart ==
  ASSUME MPTypeInv, NEW w \in Workers, NEW u \in uploads, NEW r \in MPRequests,
         NEW l \in Locals, req' = [req EXCEPT ![w] = r], mp' = [mp EXCEPT ![w] = l],
         UNCHANGED <<store, telegram, mpStore>>,
         r.pc \in {"upload", "loadRow", "mpParts", "mpAll"}, r.name = owner[u],
         r.chunks = <<>>, r.old = <<>>, Sourced(r), Placed(r),
         l.upload = u, l.all = {}, l.todo = {}, l.got = 0,
         r.op \in {"part", "partCopy"} => l.part \in PartNumbers
  PROVE  MPEffect(w)
<1>1. u \in Uploads /\ owner[u] \in Names /\ UNCHANGED owner
  BY DEF MPTypeInv, MPTablesOK, OwnedUploads, mpStore
<1>2. Named(r)
  BY <1>1 DEF Named
<1>3. Linked(owner, r, l) /\ Lists(r, l)
  BY <1>1 DEF Linked, Lists, OnUpload
<1>4. MPMoves(w) /\ req'[w] = r
  BY <1>1, <1>2, <1>3, MPMoveTo DEF MPFormed
<1>5. MPReleases(w)
  BY <1>4 DEF MPReleases, MPHolding
<1> QED BY <1>5, TablesKept, ReleasesEffect

\* A handler that answers at once.
LEMMA AnsweredAtOnce ==
  ASSUME MPTypeInv, NEW w \in Workers, NEW s \in Statuses, Answer(w, s), UNCHANGED mp,
         req[w].pc \notin MPHolding, UNCHANGED <<store, telegram, mpStore>>
  PROVE  MPEffect(w)
<1>1. MPReleases(w)
  BY TablesKept, MPAnswerMoves
<1> QED BY <1>1, TablesKept, ReleasesEffect

\* The first step of every multipart handler, and of the janitor's sweep.
LEMMA MPBeginEffect ==
  ASSUME MPTypeInv, NEW w \in Workers, MPBegin(w)
  PROVE  MPEffect(w)
<1>1. {"ok", "missing", "conflict", "error"} \subseteq Statuses
  BY DEF Statuses
<1>2. ASSUME NEW s \in Statuses, Answer(w, s), UNCHANGED mp, req[w].pc = "idle",
             UNCHANGED <<store, telegram, mpStore>>
      PROVE  MPEffect(w)
  BY <1>2, AnsweredAtOnce DEF MPHolding
<1>3. ASSUME NEW n \in Names, createMultipartUpload(w, n)
      PROVE  MPEffect(w)
  <2> DEFINE r == [Idle EXCEPT !.pc = "mpCreate", !.op = "create", !.name = n]
  <2>1. UNCHANGED <<store, telegram, mpStore>> /\ UNCHANGED mp /\ req[w].pc = "idle"
    BY <1>3 DEF createMultipartUpload, mpVars
  <2>2. CASE req' = [req EXCEPT ![w] = r]
    <3>1. /\ r \in MPRequests /\ r.pc = "mpCreate" /\ r.op = "create" /\ r.name = n
          /\ r.chunks = <<>> /\ r.old = <<>>
      BY MPIdleType DEF MPRequests, MPPositions, MPOperations
    <3> HIDE DEF r
    <3>2. Named(r) /\ Sourced(r) /\ Placed(r)
      BY <3>1 DEF Named, Sourced, Placed
    <3>3. ObjectLocals(w)
      BY <2>1, <2>2, <3>1 DEF ObjectLocals, MPTypeInv
    <3>4. MPReleases(w)
      BY <2>1, <2>2, <3>1, <3>2, <3>3, ObjectStart, TablesKept DEF MPHolding
    <3> QED BY <2>1, <3>4, TablesKept, ReleasesEffect
  <2> QED BY <1>1, <1>2, <1>3, <2>1, <2>2 DEF createMultipartUpload
<1>4. ASSUME NEW u \in Uploads, NEW p \in PartNumbers, NEW body \in Bodies,
             uploadPart(w, u, p, body)
      PROVE  MPEffect(w)
  <2> DEFINE n == owner[u]
             r == [Idle EXCEPT !.pc = "upload", !.op = "part", !.name = n, !.body = body]
             l == [MPIdle EXCEPT !.upload = u, !.part = p]
  <2>1. UNCHANGED <<store, telegram, mpStore>> /\ req[w].pc = "idle"
    BY <1>4 DEF uploadPart
  <2>2. CASE u \in uploads /\ req' = [req EXCEPT ![w] = r] /\ mp' = [mp EXCEPT ![w] = l]
    <3>1. body \in Seq(Documents) /\ n \in Names \cup {None}
      BY BodiesAssumption DEF MPTypeInv, MPTablesOK
    <3> HIDE DEF n
    <3>2. /\ r \in MPRequests /\ r.pc = "upload" /\ r.op = "part" /\ r.name = n
          /\ r.chunks = <<>> /\ r.old = <<>>
      BY <3>1, MPIdleType DEF MPRequests, MPPositions, MPOperations, Positions
    <3>3. l \in Locals /\ l.upload = u /\ l.part = p /\ l.all = {} /\ l.todo = {} /\ l.got = 0
      BY MPIdleType DEF Locals
    <3> HIDE DEF r, l
    <3>4. Sourced(r) /\ Placed(r)
      BY <3>2 DEF Sourced, Placed
    <3> QED BY <2>1, <2>2, <3>2, <3>3, <3>4, UploadStart DEF n
  <2> QED BY <1>1, <1>2, <1>4, <2>1, <2>2 DEF uploadPart, resolveUpload
<1>5. ASSUME NEW u \in Uploads, NEW p \in PartNumbers, NEW s \in Names,
             uploadPartCopy(w, u, p, s)
      PROVE  MPEffect(w)
  <2> DEFINE n == owner[u]
             r == [Idle EXCEPT !.pc = "loadRow", !.op = "partCopy", !.name = n, !.src = s]
             l == [MPIdle EXCEPT !.upload = u, !.part = p]
  <2>1. /\ UNCHANGED <<store, telegram, mpStore>> /\ u \in uploads
        /\ req' = [req EXCEPT ![w] = r] /\ mp' = [mp EXCEPT ![w] = l]
    BY <1>5 DEF uploadPartCopy, resolveUpload
  <2>2. n \in Names \cup {None}
    BY DEF MPTypeInv, MPTablesOK
  <2> HIDE DEF n
  <2>3. /\ r \in MPRequests /\ r.pc = "loadRow" /\ r.op = "partCopy" /\ r.name = n /\ r.src = s
        /\ r.chunks = <<>> /\ r.old = <<>>
    BY <2>2, MPIdleType DEF MPRequests, MPPositions, MPOperations, Positions
  <2>4. l \in Locals /\ l.upload = u /\ l.part = p /\ l.all = {} /\ l.todo = {} /\ l.got = 0
    BY MPIdleType DEF Locals
  <2> HIDE DEF r, l
  <2>5. Sourced(r) /\ Placed(r)
    BY <2>3 DEF Sourced, Placed
  <2> QED BY <2>1, <2>3, <2>4, <2>5, UploadStart DEF n
<1>6. ASSUME NEW u \in Uploads, NEW list \in CompleteLists,
             completeMultipartUpload(w, u, list)
      PROVE  MPEffect(w)
  <2> DEFINE n == owner[u]
             r == [Idle EXCEPT !.pc = "mpParts", !.op = "complete", !.name = n]
             l == [MPIdle EXCEPT !.upload = u, !.list = list]
  <2>1. UNCHANGED <<store, telegram, mpStore>> /\ req[w].pc = "idle"
    BY <1>6 DEF completeMultipartUpload
  <2>2. CASE u \in uploads /\ req' = [req EXCEPT ![w] = r] /\ mp' = [mp EXCEPT ![w] = l]
    <3>1. list \in Seq(PartEntries) /\ n \in Names \cup {None}
      BY CompleteListsAssumption DEF MPTypeInv, MPTablesOK
    <3> HIDE DEF n
    <3>2. /\ r \in MPRequests /\ r.pc = "mpParts" /\ r.op = "complete" /\ r.name = n
          /\ r.chunks = <<>> /\ r.old = <<>>
      BY <3>1, MPIdleType DEF MPRequests, MPPositions, MPOperations, Positions
    <3>3. l \in Locals /\ l.upload = u /\ l.all = {} /\ l.todo = {} /\ l.got = 0
      BY <3>1, MPIdleType DEF Locals
    <3> HIDE DEF r, l
    <3>4. Sourced(r) /\ Placed(r)
      BY <3>2 DEF Sourced, Placed
    <3> QED BY <2>1, <2>2, <3>2, <3>3, <3>4, UploadStart DEF n
  <2> QED BY <1>1, <1>2, <1>6, <2>1, <2>2 DEF completeMultipartUpload, resolveUpload
<1>7. ASSUME NEW u \in Uploads, abortMultipartUpload(w, u)
      PROVE  MPEffect(w)
  <2> DEFINE n == owner[u]
             r == [Idle EXCEPT !.pc = "mpAll", !.op = "abort", !.name = n]
             l == [MPIdle EXCEPT !.upload = u]
  <2>1. UNCHANGED <<store, telegram, mpStore>> /\ req[w].pc = "idle"
    BY <1>7 DEF abortMultipartUpload
  <2>2. CASE u \in uploads /\ req' = [req EXCEPT ![w] = r] /\ mp' = [mp EXCEPT ![w] = l]
    <3>1. n \in Names \cup {None}
      BY DEF MPTypeInv, MPTablesOK
    <3> HIDE DEF n
    <3>2. /\ r \in MPRequests /\ r.pc = "mpAll" /\ r.op = "abort" /\ r.name = n
          /\ r.chunks = <<>> /\ r.old = <<>>
      BY <3>1, MPIdleType DEF MPRequests, MPPositions, MPOperations, Positions
    <3>3. l \in Locals /\ l.upload = u /\ l.all = {} /\ l.todo = {} /\ l.got = 0
      BY MPIdleType DEF Locals
    <3> HIDE DEF r, l
    <3>4. Sourced(r) /\ Placed(r)
      BY <3>2 DEF Sourced, Placed
    <3> QED BY <2>1, <2>2, <3>2, <3>3, <3>4, UploadStart DEF n
  <2> QED BY <1>1, <1>2, <1>7, <2>1, <2>2 DEF abortMultipartUpload, resolveUpload
<1>8. CASE sweepStaleMultipartUploads(w)
  <2> DEFINE r == [Idle EXCEPT !.pc = "sweepNext", !.op = "sweep"]
  <2>1. PICK stale \in SUBSET uploads :
          /\ req' = [req EXCEPT ![w] = r]
          /\ mp' = [mp EXCEPT ![w] = [MPIdle EXCEPT !.todo = stale]]
    BY <1>8 DEF sweepStaleMultipartUploads
  <2> DEFINE l == [MPIdle EXCEPT !.todo = stale]
  <2>2. UNCHANGED <<store, telegram, mpStore>>
    BY <1>8 DEF sweepStaleMultipartUploads
  <2>3. stale \subseteq Uploads /\ \A u \in stale : owner[u] # None
    BY DEF MPTypeInv, MPTablesOK, OwnedUploads
  <2>4. /\ r \in MPRequests /\ r.pc = "sweepNext" /\ r.op = "sweep"
        /\ r.chunks = <<>> /\ r.old = <<>>
    BY MPIdleType DEF MPRequests, MPPositions, MPOperations
  <2>5. l \in Locals /\ l.all = {} /\ l.todo = stale
    BY <2>3, MPIdleType DEF Locals
  <2>6. mp' = [mp EXCEPT ![w] = l]
    BY <2>1
  <2> HIDE DEF r, l
  <2>7. Named(r) /\ Sourced(r) /\ Placed(r)
    BY <2>4 DEF Named, Sourced, Placed
  <2>8. Linked(owner, r, l) /\ Lists(r, l)
    BY <2>3, <2>4, <2>5 DEF Linked, Lists, OnUpload
  <2>9. MPMoves(w) /\ req'[w] = r /\ mp'[w] = l
    <3>1. UNCHANGED owner
      BY <2>2, TablesKept
    <3>2. MPFormed(owner', r, l)
      BY <2>7, <2>8, <3>1 DEF MPFormed
    <3>3. req' = [req EXCEPT ![w] = r]
      BY <2>1
    <3> QED BY <2>4, <2>5, <2>6, <3>2, <3>3, MPMoveTo
  <2>10. Held(w)' = {} /\ Mine(w)' = {}
    BY <2>4, <2>5, <2>9, EmptyRange, HeldAfter
  <2> QED BY <2>2, <2>9, <2>10, TablesKept DEF MPEffect, Turn, Copies
<1> QED BY <1>3, <1>4, <1>5, <1>6, <1>7, <1>8 DEF MPBegin

\* A multipart handler that answers in a step that leaves the tables alone.
LEMMA MPAnswerEffect ==
  ASSUME MPTypeInv, NEW w \in Workers, NEW s \in Statuses, MPAnswer(w, s),
         UNCHANGED <<store, telegram, mpStore>>
  PROVE  MPEffect(w)
<1>1. MPReleases(w)
  BY TablesKept, MPAnswerMoves DEF MPAnswer
<1> QED BY <1>1, TablesKept, ReleasesEffect

\* CreateMultipartUpload: an unused id gets its owner, and has no chunks yet.
LEMMA CreateEffect ==
  ASSUME MPTypeInv, NEW w \in Workers, CreateMultipartUpload(w)
  PROVE  MPEffect(w)
<1>1. req[w].pc = "mpCreate" /\ req[w].name \in Names /\ MPTablesOK /\ OwnedUploads
  BY WorkerType DEF CreateMultipartUpload, MPTypeInv, MPFormed, Named
<1>2. UNCHANGED <<buckets, objects, chunkMap, channel, nextId, parts, partMap, mp>>
  BY DEF CreateMultipartUpload, store, telegram
<1>3. "ok" \in Statuses /\ "error" \in Statuses /\ req[w].pc \notin MPHolding
  BY <1>1 DEF Statuses, MPHolding
<1>4. ASSUME NEW u \in Uploads, owner[u] = None, owner' = [owner EXCEPT ![u] = req[w].name],
             uploads' = uploads \cup {u}, NEW s \in Statuses, Answer(w, s)
      PROVE  MPEffect(w)
  <2>1. /\ owner' \in [Uploads -> Names \cup {None}] /\ owner'[u] = req[w].name
        /\ \A v \in Uploads : v # u => owner'[v] = owner[v]
    BY <1>1, <1>4 DEF MPTablesOK
  <2>2. MPTablesOK' /\ OwnersKept
    BY <1>1, <1>2, <1>4, <2>1 DEF MPTablesOK, OwnersKept
  <2>3. OwnedUploads'
    <3>1. req[w].name # None
      BY <1>1, NoneAssumption
    <3> QED BY <1>1, <1>2, <1>4, <2>1, <3>1 DEF OwnedUploads, NoPartChunks
  <2>4. MPReleases(w)
    BY <1>2, <1>3, <1>4, <2>2, MPAnswerMoves DEF OwnersKept
  <2>5. req'[w].chunks = <<>> /\ req'[w].old = <<>> /\ mp'[w].all = {}
    BY <2>4 DEF MPReleases, MPMoves, MPFormed, Lists, MPHolding
  <2>6. Held(w)' = {} /\ Mine(w)' = {}
    BY <2>5, EmptyRange, HeldAfter
  <2>7. Shrinks /\ nextId' >= nextId
    BY <1>1, <1>2 DEF Shrinks, MPTablesOK
  <2> QED BY <2>2, <2>3, <2>4, <2>6, <2>7 DEF MPEffect, Turn, Copies, MPReleases
<1>5. CASE Answer(w, "error") /\ UNCHANGED <<owner, uploads>>
  BY <1>2, <1>3, <1>5, AnsweredAtOnce DEF store, telegram, mpStore
<1> QED BY <1>3, <1>4, <1>5 DEF CreateMultipartUpload

\* The chunks of the part's prior upload are those of the upload's key.
LEMMA ReadOldPartEffect ==
  ASSUME MPTypeInv, NEW w \in Workers, readOldPartChunks(w)
  PROVE  MPEffect(w)
<1> DEFINE u == mp[w].upload
           p == mp[w].part
<1>1. req[w] \in MPRequests /\ MPFormed(owner, req[w], mp[w]) /\ MPTablesOK
  BY WorkerType DEF MPTypeInv
<1>2. req[w].pc = "readOld" /\ req[w].op \in {"part", "partCopy"}
  BY DEF readOldPartChunks
<1>3. u \in Uploads /\ p \in PartNumbers /\ owner[u] = req[w].name
  BY <1>1, <1>2 DEF MPFormed, Linked, OnUpload
<1>4. PICK old \in {partMap[u][p], <<>>} : req' = [req EXCEPT ![w].pc = "commit", ![w].old = old]
  BY DEF readOldPartChunks
<1>5. UNCHANGED mp /\ UNCHANGED <<store, telegram, mpStore>>
  BY DEF readOldPartChunks, mpVars
<1> HIDE DEF u, p
<1>6. old \in Seq(Messages) /\ Range(old) \subseteq Stored(req[w].name)
  <2>1. partMap[u][p] \in Seq(Messages) /\ <<>> \in Seq(Messages)
    BY <1>1, <1>3 DEF MPTablesOK
  <2> QED BY <1>3, <1>4, <2>1, StoredParts, EmptyRange
<1>7. req' = [req EXCEPT ![w] = [req[w] EXCEPT !.pc = "commit", !.old = old]]
  <2>1. req \in [Workers -> MPRequests]
    BY DEF MPTypeInv
  <2> QED BY <1>4, <2>1
<1> QED BY <1>2, <1>5, <1>6, <1>7, OldRead

\* PutMultipartPart: the new chunks become the part's, or are given up.
LEMMA PutPartEffect ==
  ASSUME MPTypeInv, NEW w \in Workers, PutMultipartPart(w)
  PROVE  MPEffect(w)
<1> DEFINE u == mp[w].upload
           p == mp[w].part
           row == [etag |-> req[w].body, size |-> Len(req[w].body)]
           ms == req[w].chunks
<1>1. req[w] \in MPRequests /\ MPFormed(owner, req[w], mp[w]) /\ MPTablesOK /\ OwnedUploads
  BY WorkerType DEF MPTypeInv
<1>2. req[w].pc = "commit" /\ req[w].op \in {"part", "partCopy"}
  BY DEF PutMultipartPart
<1>3. u \in Uploads /\ p \in PartNumbers /\ owner[u] = req[w].name
  BY <1>1, <1>2 DEF MPFormed, Linked, OnUpload
<1>4. UNCHANGED <<buckets, objects, chunkMap, channel, nextId, owner, uploads, mp>>
  BY DEF PutMultipartPart, store, telegram
<1>5. nextId' >= nextId /\ OwnersKept
  BY <1>1, <1>4 DEF MPTablesOK, OwnersKept
<1>6. row \in Parts /\ ms \in Seq(Messages) /\ ms = req[w].chunks
  BY <1>1 DEF Parts, MPRequests
<1>7. Mine(w) = Range(ms)
  BY <1>2 DEF Mine
<1>8. CASE /\ Goto(w, "reap")
           /\ parts' = [parts EXCEPT ![u][p] = row]
           /\ partMap' = [partMap EXCEPT ![u][p] = ms]
  <2>1. /\ MPMoves(w) /\ req[w].name \in Names /\ req'[w].name = req[w].name
        /\ Held(w)' = Held(w) /\ Mine(w)' = {}
    BY <1>2, <1>4, <1>8, GoesOn
  <2> HIDE DEF u, p, row, ms
  <2>2. parts' \in [Uploads -> [PartNumbers -> Parts \cup {None}]]
    BY <1>1, <1>3, <1>6, <1>8 DEF MPTablesOK
  <2>3. /\ partMap' \in [Uploads -> [PartNumbers -> Seq(Messages)]]
        /\ partMap'[u][p] = ms
        /\ \A v \in Uploads : v # u => partMap'[v] = partMap[v]
        /\ \A q \in PartNumbers : q # p => partMap'[u][q] = partMap[u][q]
    BY <1>1, <1>3, <1>6, <1>8 DEF MPTablesOK
  <2>4. MPTablesOK'
    BY <1>1, <1>4, <2>2, <2>3 DEF MPTablesOK
  <2>5. OwnedUploads'
    <3>1. owner[u] # None
      BY <1>3, <2>1, NoneAssumption
    <3> QED BY <1>1, <1>4, <2>3, <3>1 DEF OwnedUploads, NoPartChunks
  <2>6. CommitsPart(w)
    <3>1. \A v \in Uploads, q \in PartNumbers :
            <<v, q>> # <<u, p>> => partMap'[v][q] = partMap[v][q]
      BY <2>3
    <3>2. Range(partMap'[u][p]) \subseteq Mine(w)
      BY <1>7, <2>3
    <3> QED BY <1>3, <1>4, <2>1, <3>1, <3>2 DEF CommitsPart
  <2> QED BY <1>5, <2>1, <2>4, <2>5, <2>6 DEF MPEffect, Turn
<1>9. CASE Goto(w, "discard") /\ UNCHANGED <<parts, partMap>>
  <2>1. /\ MPMoves(w) /\ req[w].name \in Names /\ req'[w].name = req[w].name
        /\ Held(w)' = Held(w) /\ Mine(w)' \subseteq Mine(w)
    BY <1>2, <1>4, <1>9, GoesOn
  <2>2. MPTablesOK' /\ OwnedUploads' /\ Shrinks
    BY <1>1, <1>4, <1>9, KeptTables DEF MPKept, mpStore, MPTablesOK
  <2> QED BY <1>5, <2>1, <2>2 DEF MPEffect, Turn, Copies
<1> QED BY <1>8, <1>9 DEF PutMultipartPart

\* ListMultipartParts: from here on the listed parts are known to be stored.
LEMMA ListPartsEffect ==
  ASSUME MPTypeInv, NEW w \in Workers, ListMultipartParts(w)
  PROVE  MPEffect(w)
<1> DEFINE stored == parts[mp[w].upload]
           r == [req[w] EXCEPT !.pc = "mpGather"]
           l == [mp[w] EXCEPT !.stored = stored]
<1>1. req[w] \in MPRequests /\ mp[w] \in Locals /\ MPFormed(owner, req[w], mp[w]) /\ MPTablesOK
  BY WorkerType DEF MPTypeInv
<1>2. req[w].pc = "mpParts" /\ UNCHANGED <<store, telegram, mpStore>> /\ "error" \in Statuses
  BY DEF ListMultipartParts, Statuses
<1>3. stored \in [PartNumbers -> Parts \cup {None}]
  BY <1>1, <1>2 DEF MPFormed, Linked, OnUpload, MPTablesOK
<1>4. CASE /\ ValidParts(mp[w].list, stored) /\ Goto(w, "mpGather")
           /\ mp' = [mp EXCEPT ![w].stored = stored]
  <2> HIDE DEF stored
  <2>1. req' = [req EXCEPT ![w] = r] /\ mp' = [mp EXCEPT ![w] = l]
    BY <1>4 DEF Goto
  <2>2. /\ r \in MPRequests /\ r.pc = "mpGather" /\ r.name = req[w].name /\ r.op = req[w].op
        /\ r.chunks = req[w].chunks /\ r.old = req[w].old
    BY <1>1 DEF MPRequests, MPPositions
  <2>3. /\ l \in Locals /\ l.stored = stored /\ l.upload = mp[w].upload /\ l.list = mp[w].list
        /\ l.got = mp[w].got /\ l.all = mp[w].all /\ l.todo = mp[w].todo /\ l.part = mp[w].part
    BY <1>1, <1>3 DEF Locals
  <2> HIDE DEF r, l
  <2>4. /\ Named(r) /\ Sourced(r) /\ Placed(r) /\ Lists(r, l)
        /\ r.chunks = <<>> /\ r.old = <<>> /\ l.all = {}
    BY <1>1, <1>2, <2>2, <2>3 DEF MPFormed, Named, Sourced, Placed, Lists
  <2>5. Listed(l)
    BY <1>3, <1>4, <2>3 DEF Listed, ValidParts
  <2>6. l.got < Len(l.list)
    <3> DEFINE ll == mp[w].list
    <3>1. ll \in Seq(PartEntries) /\ ll # <<>>
      BY <1>1, <1>4 DEF Locals, ValidParts
    <3> HIDE DEF ll
    <3>2. Len(ll) \in Nat /\ Len(ll) # 0
      BY <3>1, EmptySeq
    <3>3. l.got = 0 /\ l.list = ll
      BY <1>1, <1>2, <2>3 DEF MPFormed, Linked, ll
    <3> QED BY <3>2, <3>3
  <2>7. Linked(owner, r, l)
    BY <1>1, <1>2, <2>2, <2>3, <2>5, <2>6 DEF MPFormed, Linked, OnUpload, Placed
  <2>8. UNCHANGED owner
    BY <1>2, TablesKept
  <2>9. MPFormed(owner', r, l)
    BY <2>4, <2>7, <2>8 DEF MPFormed
  <2>10. MPMoves(w) /\ req'[w] = r /\ mp'[w] = l
    BY <2>1, <2>2, <2>3, <2>9, MPMoveTo
  <2>11. Held(w)' = {} /\ Mine(w)' = {}
    BY <2>4, <2>10, EmptyRange, HeldAfter
  <2> QED BY <1>2, <2>10, <2>11, TablesKept DEF MPEffect, Turn, Copies
<1>5. CASE MPAnswer(w, "error")
  BY <1>2, <1>5, MPAnswerEffect
<1> QED BY <1>4, <1>5 DEF ListMultipartParts

\* The messages of two lists, one after the other.
LEMMA RangeConcat ==
  ASSUME NEW a \in Seq(Messages), NEW b \in Seq(Messages)
  PROVE  a \o b \in Seq(Messages) /\ Range(a \o b) \subseteq Range(a) \cup Range(b)
<1>1. /\ a \o b \in Seq(Messages) /\ Len(a \o b) = Len(a) + Len(b)
      /\ \A i \in 1..Len(a) + Len(b) : (a \o b)[i] = IF i <= Len(a) THEN a[i] ELSE b[i - Len(a)]
  BY ConcatProperties
<1>2. Len(a) \in Nat /\ Len(b) \in Nat /\ DOMAIN a = 1..Len(a) /\ DOMAIN b = 1..Len(b)
  OBVIOUS
<1>3. ASSUME NEW i \in 1..Len(a) + Len(b)
      PROVE  (a \o b)[i] \in Range(a) \cup Range(b)
  <2>1. CASE i <= Len(a)
    <3>1. i \in DOMAIN a
      BY <1>2, <2>1
    <3> QED BY <1>1, <2>1, <3>1 DEF Range
  <2>2. CASE ~(i <= Len(a))
    <3>1. i - Len(a) \in DOMAIN b
      BY <1>2, <2>2
    <3> QED BY <1>1, <2>2, <3>1 DEF Range
  <2> QED BY <2>1, <2>2
<1>4. DOMAIN (a \o b) = 1..Len(a) + Len(b)
  BY <1>1, SMTT(60)
<1> QED BY <1>1, <1>3, <1>4 DEF Range

\* gatherPartChunks: the chunks added are those of a part of the handler's upload.
LEMMA GatherEffect ==
  ASSUME MPTypeInv, NEW w \in Workers, gatherPartChunks(w)
  PROVE  MPEffect(w)
<1> DEFINE i == mp[w].got + 1
           u == mp[w].upload
           list == mp[w].list
           x == partMap[u][list[i].num]
           q == IF i = Len(list) THEN "readOld" ELSE req[w].pc
           ms == req[w].chunks \o x
           r == [req[w] EXCEPT !.pc = q, !.chunks = ms]
           l == [mp[w] EXCEPT !.got = i]
<1>1. req[w] \in MPRequests /\ mp[w] \in Locals /\ MPFormed(owner, req[w], mp[w]) /\ MPTablesOK
  BY WorkerType DEF MPTypeInv
<1>2. req[w].pc = "mpGather" /\ UNCHANGED <<store, telegram, mpStore>> /\ "error" \in Statuses
  BY DEF gatherPartChunks, Statuses
<1>3. CASE /\ req' = [req EXCEPT ![w].pc = IF i = Len(list) THEN "readOld" ELSE @,
                                 ![w].chunks = @ \o x]
           /\ mp' = [mp EXCEPT ![w].got = i]
  <2>1. /\ u \in Uploads /\ owner[u] = req[w].name /\ req[w].name \in Names /\ Listed(mp[w])
        /\ mp[w].got \in Nat /\ mp[w].got < Len(list) /\ list \in Seq(PartEntries)
        /\ req[w].op = "complete"
    BY <1>1, <1>2 DEF MPFormed, Linked, OnUpload, Locals, Placed
  <2>2. i \in Nat /\ i \in 1..Len(list)
    BY <2>1
  <2>3. list[i].num \in PartNumbers
    <3>1. i \in DOMAIN list
      BY <2>1, <2>2
    <3> QED BY <2>1, <3>1 DEF Listed
  <2>4. x \in Seq(Messages) /\ Range(x) \subseteq Stored(req[w].name)
    BY <1>1, <2>1, <2>3, StoredParts, SMTT(60) DEF MPTablesOK
  <2>5. ms \in Seq(Messages) /\ Range(ms) \subseteq Range(req[w].chunks) \cup Range(x)
    <3>1. req[w].chunks \in Seq(Messages)
      BY <1>1 DEF MPRequests
    <3> QED BY <2>4, <3>1, RangeConcat, SMTT(60)
  <2>6. req' = [req EXCEPT ![w] = r] /\ mp' = [mp EXCEPT ![w] = l]
    <3>1. req \in [Workers -> MPRequests]
      BY DEF MPTypeInv
    <3> HIDE DEF x, i, list
    <3> QED BY <1>3, <3>1, ZenonT(60) DEF MPRequests
  <2>7. q \in {"readOld", "mpGather"} /\ (q = "mpGather" => i < Len(list))
    BY <1>2, <2>1
  <2> HIDE DEF ms, q, x
  <2>8. /\ r \in MPRequests /\ r.pc = q /\ r.chunks = ms /\ r.old = req[w].old
        /\ r.name = req[w].name /\ r.op = req[w].op
    BY <1>1, <2>5, <2>7, ZenonT(60) DEF MPRequests, MPPositions, Positions
  <2> HIDE DEF i
  <2>9. /\ l \in Locals /\ l.got = i /\ l.upload = u /\ l.list = list
        /\ l.stored = mp[w].stored /\ l.all = mp[w].all /\ l.todo = mp[w].todo
    BY <1>1, <2>2 DEF Locals
  <2> HIDE DEF r, l, u, list
  <2>10. Named(r) /\ Sourced(r) /\ Placed(r) /\ Lists(r, l)
    BY <1>1, <1>2, <2>1, <2>7, <2>8, <2>9 DEF MPFormed, Named, Sourced, Placed, Lists
  <2>11. Listed(l)
    BY <2>1, <2>9 DEF Listed, list
  <2>12. Linked(owner, r, l)
    BY <1>1, <2>1, <2>7, <2>8, <2>9, <2>11 DEF MPFormed, Linked, OnUpload
  <2>13. UNCHANGED owner
    BY <1>2, TablesKept
  <2>14. MPFormed(owner', r, l)
    BY <2>10, <2>12, <2>13 DEF MPFormed
  <2>15. MPMoves(w) /\ req'[w] = r /\ mp'[w] = l
    BY <2>6, <2>8, <2>9, <2>14, MPMoveTo
  <2>16. Held(w)' \subseteq Held(w) \cup Stored(req[w].name)
    BY <2>4, <2>5, <2>8, <2>9, <2>15, HeldAfter DEF Held
  <2>17. Mine(w)' = {}
    BY <2>1, <2>8, <2>15, HeldAfter
  <2>18. Copies(w)
    BY <1>2, <2>1, <2>8, <2>15, <2>16, <2>17, TablesKept DEF Copies
  <2> QED BY <1>2, <2>15, <2>18, TablesKept DEF MPEffect, Turn
<1>4. CASE MPAnswer(w, "error")
  BY <1>2, <1>4, MPAnswerEffect
<1> QED BY <1>3, <1>4, ZenonT(60) DEF gatherPartChunks

\* The row of an assembled object.
LEMMA AssembledRowType ==
  ASSUME NEW w, req[w] \in MPRequests, mp[w] \in Locals, Listed(mp[w])
  PROVE  AssembledRow(w) \in Rows
<1> DEFINE list == mp[w].list
           stored == mp[w].stored
           digests == [i \in DOMAIN list |-> stored[list[i].num].etag]
<1>1. list \in Seq(PartEntries) /\ req[w].chunks \in Seq(Messages)
  BY DEF Locals, MPRequests
<1>2. \A i \in DOMAIN list : stored[list[i].num].etag \in Seq(Documents)
  BY DEF Listed, Parts
<1> HIDE DEF stored
<1>3. digests \in [DOMAIN list -> Seq(Documents)]
  BY <1>2
<1> HIDE DEF digests, list
<1>4. DOMAIN list = 1..Len(list) /\ Len(list) \in Nat /\ Len(req[w].chunks) \in Nat
  BY <1>1
<1>5. digests \in Seq(Seq(Documents))
  BY <1>3, <1>4
<1>6. AssembledRow(w) = [size |-> Len(req[w].chunks),
                         etag |-> [digests |-> digests, parts |-> Len(list)]]
  BY DEF AssembledRow, digests, list, stored
<1> QED BY <1>4, <1>5, <1>6 DEF Rows, ETags

\* The chunks of an upload whose rows are dropped.
LEMMA DropsUpload ==
  ASSUME MPTypeInv, NEW u \in Uploads, uploads' = uploads \ {u},
         parts' = [parts EXCEPT ![u] = NoParts],
         partMap' = [partMap EXCEPT ![u] = NoPartChunks], UNCHANGED owner
  PROVE  /\ uploads' \subseteq Uploads
         /\ parts' \in [Uploads -> [PartNumbers -> Parts \cup {None}]]
         /\ partMap' \in [Uploads -> [PartNumbers -> Seq(Messages)]]
         /\ OwnedUploads' /\ OwnersKept
         /\ \A v \in Uploads, p \in PartNumbers :
              Range(partMap'[v][p]) \subseteq Range(partMap[v][p])
<1>1. MPTablesOK /\ OwnedUploads
  BY DEF MPTypeInv
<1>2. <<>> \in Seq(Messages)
  OBVIOUS
<1>3. /\ NoParts \in [PartNumbers -> Parts \cup {None}]
      /\ NoPartChunks \in [PartNumbers -> Seq(Messages)]
      /\ \A p \in PartNumbers : NoPartChunks[p] = <<>>
  BY <1>2 DEF NoParts, NoPartChunks
<1>4. /\ partMap' \in [Uploads -> [PartNumbers -> Seq(Messages)]]
      /\ partMap'[u] = NoPartChunks
      /\ \A v \in Uploads : v # u => partMap'[v] = partMap[v]
  BY <1>1, <1>3 DEF MPTablesOK
<1>5. parts' \in [Uploads -> [PartNumbers -> Parts \cup {None}]] /\ uploads' \subseteq Uploads
  BY <1>1, <1>3 DEF MPTablesOK
<1>6. OwnedUploads'
  <2>1. NoPartChunks' = NoPartChunks
    BY DEF NoPartChunks
  <2> QED BY <1>1, <1>4, <2>1 DEF OwnedUploads
<1>7. ASSUME NEW v \in Uploads, NEW p \in PartNumbers
      PROVE  Range(partMap'[v][p]) \subseteq Range(partMap[v][p])
  BY <1>3, <1>4, EmptyRange
<1> QED BY <1>4, <1>5, <1>6, <1>7 DEF OwnersKept

\* FinalizeMultipartUpload: what was gathered becomes the object's.
LEMMA FinalizeEffect ==
  ASSUME MPTypeInv, NEW w \in Workers, FinalizeMultipartUpload(w)
  PROVE  MPEffect(w)
<1> DEFINE u == mp[w].upload
           row == AssembledRow(w)
<1>1. req[w] \in MPRequests /\ mp[w] \in Locals /\ MPFormed(owner, req[w], mp[w]) /\ MPTablesOK
  BY WorkerType DEF MPTypeInv
<1>2. /\ req[w].pc = "commit" /\ req[w].op = "complete" /\ "error" \in Statuses
      /\ UNCHANGED <<buckets, channel, nextId, owner>>
  BY DEF FinalizeMultipartUpload, telegram, Statuses
<1>3. u \in Uploads /\ Listed(mp[w])
  BY <1>1, <1>2 DEF MPFormed, Linked, OnUpload
<1>4. row \in Rows /\ req[w].chunks \in Seq(Messages)
  BY <1>1, <1>3, AssembledRowType DEF MPRequests
<1>5. CASE /\ objects' = [objects EXCEPT ![req[w].name] = row]
           /\ chunkMap' = [chunkMap EXCEPT ![req[w].name] = req[w].chunks]
           /\ uploads' = uploads \ {u}
           /\ parts' = [parts EXCEPT ![u] = NoParts]
           /\ partMap' = [partMap EXCEPT ![u] = NoPartChunks]
           /\ Goto(w, "reap")
           /\ UNCHANGED mp
  <2>1. /\ MPMoves(w) /\ req[w].name \in Names /\ req'[w].name = req[w].name
        /\ Held(w)' = Held(w) /\ Mine(w)' = {}
    BY <1>2, <1>5, GoesOn
  <2> HIDE DEF u, row
  <2>2. /\ objects' \in [Names -> Rows \cup {None}]
        /\ chunkMap' \in [Names -> Seq(Messages)]
        /\ chunkMap'[req[w].name] = req[w].chunks
        /\ \A n \in Names : n # req[w].name => chunkMap'[n] = chunkMap[n]
    BY <1>1, <1>4, <1>5, <2>1 DEF MPTablesOK
  <2>3. /\ uploads' \subseteq Uploads
        /\ parts' \in [Uploads -> [PartNumbers -> Parts \cup {None}]]
        /\ partMap' \in [Uploads -> [PartNumbers -> Seq(Messages)]]
        /\ OwnedUploads' /\ OwnersKept
        /\ \A v \in Uploads, p \in PartNumbers :
             Range(partMap'[v][p]) \subseteq Range(partMap[v][p])
    BY <1>2, <1>3, <1>5, DropsUpload
  <2>4. MPTablesOK' /\ nextId' >= nextId
    BY <1>1, <1>2, <2>2, <2>3 DEF MPTablesOK
  <2>5. Range(chunkMap'[req[w].name]) \subseteq Held(w)
    BY <2>2 DEF Held
  <2>6. CommitsObject(w)
    BY <2>1, <2>2, <2>3, <2>5 DEF CommitsObject
  <2> QED BY <2>1, <2>3, <2>4, <2>6 DEF MPEffect, Turn
<1>6. CASE MPAnswer(w, "error") /\ UNCHANGED <<objects, chunkMap, uploads, parts, partMap>>
  BY <1>2, <1>6, MPAnswerEffect DEF store, telegram, mpStore
<1> QED BY <1>5, <1>6 DEF FinalizeMultipartUpload, replaceObjectChunksTx

\* abortUploadInternal is over: the sweep turns to the next upload, or the answer.
LEMMA AbortDoneMoves ==
  ASSUME MPTypeInv, NEW w \in Workers, NEW s \in Statuses, AbortDone(w, s), UNCHANGED owner,
         req[w].pc \in {"mpAll", "mpDrop"}
  PROVE  /\ MPMoves(w) /\ Mine(w)' = {}
         /\ \/ Held(w)' = {}
            \/ /\ req[w].name \in Names /\ req'[w].name = req[w].name
               /\ Held(w)' \subseteq Held(w)
<1>1. req[w] \in MPRequests /\ mp[w] \in Locals /\ MPFormed(owner, req[w], mp[w])
  BY WorkerType
<1>2. CASE Goto(w, "sweepNext") /\ UNCHANGED mp
  <2> DEFINE r == [req[w] EXCEPT !.pc = "sweepNext"]
  <2>1. /\ r \in MPRequests /\ r.pc = "sweepNext" /\ r.name = req[w].name /\ r.op = req[w].op
        /\ r.chunks = req[w].chunks /\ r.old = req[w].old
    BY <1>1 DEF MPRequests, MPPositions
  <2> HIDE DEF r
  <2>2. Named(r) /\ Sourced(r) /\ Placed(r) /\ Lists(r, mp[w]) /\ req[w].name \in Names
    BY <1>1, <2>1 DEF MPFormed, Named, Sourced, Placed, Lists
  <2>3. Linked(owner, r, mp[w])
    BY <1>1, <2>1 DEF MPFormed, Linked, OnUpload, Placed
  <2>4. MPFormed(owner, r, mp[w]) /\ "sweepNext" \in MPPositions
    BY <2>2, <2>3 DEF MPFormed, MPPositions
  <2>5. MPMoves(w) /\ req'[w] = r
    BY <1>2, <2>4, MPGotoMoves DEF r
  <2>6. Held(w)' = Held(w) /\ Mine(w)' = {}
    BY <1>2, <2>1, <2>5, HeldAfter DEF Held
  <2> QED BY <2>1, <2>2, <2>5, <2>6
<1>3. CASE MPAnswer(w, s)
  <2>1. MPReleases(w)
    BY <1>3, MPAnswerMoves DEF MPAnswer
  <2>2. req'[w].chunks = <<>> /\ req'[w].old = <<>> /\ mp'[w].all = {}
    BY <2>1 DEF MPReleases, MPMoves, MPFormed, Lists, MPHolding
  <2> QED BY <2>1, <2>2, EmptyRange, HeldAfter DEF MPReleases
<1> QED BY <1>2, <1>3 DEF AbortDone

\* The next upload of a sweep: the handler works for its key from now on.
LEMMA SweepNextEffect ==
  ASSUME MPTypeInv, NEW w \in Workers, sweepNext(w)
  PROVE  MPEffect(w)
<1>1. req[w] \in MPRequests /\ mp[w] \in Locals /\ MPFormed(owner, req[w], mp[w]) /\ MPTablesOK
  BY WorkerType DEF MPTypeInv
<1>2. req[w].pc = "sweepNext" /\ UNCHANGED <<store, telegram, mpStore>>
  BY DEF sweepNext
<1>3. PICK u \in mp[w].todo :
        /\ req' = [req EXCEPT ![w].pc = "mpAll", ![w].name = owner[u]]
        /\ mp' = [mp EXCEPT ![w].upload = u, ![w].all = {}, ![w].todo = @ \ {u}]
  BY DEF sweepNext
<1> DEFINE n == owner[u]
           t == mp[w].todo \ {u}
           e == {}
           r == [req[w] EXCEPT !.pc = "mpAll", !.name = n]
           l == [mp[w] EXCEPT !.upload = u, !.all = e, !.todo = t]
<1>4. req' = [req EXCEPT ![w] = r] /\ mp' = [mp EXCEPT ![w] = l]
  <2>1. req \in [Workers -> MPRequests] /\ mp \in [Workers -> Locals]
    BY DEF MPTypeInv
  <2> QED BY <1>3, <2>1 DEF Locals, MPRequests
<1>5. u \in Uploads /\ n \in Names /\ t \subseteq Uploads /\ \A v \in t : owner[v] # None
  BY <1>1 DEF Locals, MPTablesOK, MPFormed, Linked
<1>6. e \in SUBSET Messages /\ e = {}
  OBVIOUS
<1> HIDE DEF n, t, e
<1>7. /\ r \in MPRequests /\ r.pc = "mpAll" /\ r.name = n /\ r.op = req[w].op
      /\ r.chunks = req[w].chunks /\ r.old = req[w].old
  BY <1>1, <1>5 DEF MPRequests, MPPositions
<1>8. l \in Locals /\ l.upload = u /\ l.all = e /\ l.todo = t
  BY <1>1, <1>5, <1>6 DEF Locals
<1> HIDE DEF r, l
<1>9. /\ Named(r) /\ Sourced(r) /\ Placed(r) /\ Lists(r, l)
      /\ r.chunks = <<>> /\ r.old = <<>> /\ l.all = {}
  BY <1>1, <1>2, <1>5, <1>6, <1>7, <1>8 DEF MPFormed, Named, Sourced, Placed, Lists
<1>10. Linked(owner, r, l)
  BY <1>1, <1>2, <1>5, <1>7, <1>8 DEF MPFormed, Linked, OnUpload, Placed, n
<1>11. UNCHANGED owner
  BY <1>2, TablesKept
<1>12. MPFormed(owner', r, l)
  BY <1>9, <1>10, <1>11 DEF MPFormed
<1>13. MPMoves(w) /\ req'[w] = r /\ mp'[w] = l
  BY <1>4, <1>7, <1>8, <1>12, MPMoveTo
<1>14. Held(w)' = {} /\ Mine(w)' = {}
  BY <1>9, <1>13, EmptyRange, HeldAfter
<1> QED BY <1>2, <1>13, <1>14, TablesKept DEF MPEffect, Turn, Copies

\* AllMultipartChunks: the chunks of all parts of the handler's upload.
LEMMA AllChunksEffect ==
  ASSUME MPTypeInv, NEW w \in Workers, AllMultipartChunks(w)
  PROVE  MPEffect(w)
<1> DEFINE u == mp[w].upload
           x == UNION {Range(partMap[u][p]) : p \in PartNumbers}
           r == [req[w] EXCEPT !.pc = "mpReap"]
           l == [mp[w] EXCEPT !.all = x]
<1>1. req[w] \in MPRequests /\ mp[w] \in Locals /\ MPFormed(owner, req[w], mp[w]) /\ MPTablesOK
  BY WorkerType DEF MPTypeInv
<1>2. req[w].pc = "mpAll" /\ UNCHANGED <<store, telegram, mpStore>> /\ "error" \in Statuses
  BY DEF AllMultipartChunks, Statuses
<1>3. u \in Uploads /\ owner[u] = req[w].name /\ req[w].name \in Names
  BY <1>1, <1>2 DEF MPFormed, Linked, OnUpload
<1>4. UNCHANGED owner
  BY <1>2, TablesKept
<1>5. CASE Goto(w, "mpReap") /\ mp' = [mp EXCEPT ![w].all = x]
  <2>1. req' = [req EXCEPT ![w] = r] /\ mp' = [mp EXCEPT ![w] = l]
    <3> HIDE DEF x
    <3> QED BY <1>5 DEF Goto
  <2>2. \A p \in PartNumbers : /\ Range(partMap[u][p]) \subseteq Messages
                               /\ Range(partMap[u][p]) \subseteq Stored(req[w].name)
    <3>1. \A p \in PartNumbers : partMap[u][p] \in Seq(Messages)
      BY <1>1, <1>3 DEF MPTablesOK
    <3>2. \A p \in PartNumbers : Range(partMap[u][p]) \subseteq Messages
      BY <3>1 DEF Range
    <3> QED BY <1>3, <3>2, StoredParts
  <2>3. x \in SUBSET Messages /\ x \subseteq Stored(req[w].name)
    BY <2>2
  <2> HIDE DEF x, u
  <2>4. /\ r \in MPRequests /\ r.pc = "mpReap" /\ r.name = req[w].name /\ r.op = req[w].op
        /\ r.chunks = req[w].chunks /\ r.old = req[w].old
    BY <1>1 DEF MPRequests, MPPositions
  <2>5. /\ l \in Locals /\ l.upload = mp[w].upload /\ l.all = x /\ l.todo = mp[w].todo
        /\ l.part = mp[w].part
    BY <1>1, <2>3 DEF Locals
  <2> HIDE DEF r, l
  <2>6. Named(r) /\ Sourced(r) /\ Placed(r) /\ Lists(r, l) /\ r.chunks = <<>> /\ r.old = <<>>
    BY <1>1, <1>2, <1>3, <2>4, <2>5 DEF MPFormed, Named, Sourced, Placed, Lists
  <2>7. Linked(owner, r, l)
    BY <1>1, <1>2, <2>4, <2>5 DEF MPFormed, Linked, OnUpload, Placed
  <2>8. MPFormed(owner', r, l)
    BY <1>4, <2>6, <2>7 DEF MPFormed
  <2>9. MPMoves(w) /\ req'[w] = r /\ mp'[w] = l
    BY <2>1, <2>4, <2>5, <2>8, MPMoveTo
  <2>10. Held(w)' = x /\ Mine(w)' = {}
    BY <2>4, <2>5, <2>6, <2>9, EmptyRange, HeldAfter
  <2>11. Copies(w)
    BY <1>2, <1>3, <2>3, <2>4, <2>9, <2>10, TablesKept DEF Copies
  <2> QED BY <1>2, <2>9, <2>11, TablesKept DEF MPEffect, Turn
<1>6. CASE AbortDone(w, "error")
  <2>1. MPMoves(w) /\ Copies(w)
    BY <1>2, <1>4, <1>6, AbortDoneMoves, TablesKept DEF Copies
  <2> QED BY <1>2, <2>1, TablesKept DEF MPEffect, Turn
<1> QED BY <1>5, <1>6 DEF AllMultipartChunks

\* The rest of an abort: the messages, then the rows.
LEMMA AbortSteps ==
  ASSUME MPTypeInv, NEW w \in Workers, abortReap(w) \/ DeleteMultipartUpload(w)
  PROVE  MPEffect(w)
<1>1. req[w] \in MPRequests /\ MPFormed(owner, req[w], mp[w]) /\ MPTablesOK
  BY WorkerType DEF MPTypeInv
<1>2. {"ok", "error"} \subseteq Statuses
  BY DEF Statuses
<1>3. CASE abortReap(w)
  <2>1. UNCHANGED owner /\ UNCHANGED mp /\ MPKept /\ UNCHANGED buckets
    BY <1>3 DEF abortReap, mpVars, mpStore, MPKept, store
  <2>2. channel' \subseteq Messages /\ nextId' \in Nat /\ nextId' >= nextId
    <3>1. channel' \subseteq channel /\ UNCHANGED nextId
      BY <1>1, <1>3, DeleteBatchType DEF abortReap, MPTablesOK
    <3> QED BY <1>1, <3>1 DEF MPTablesOK
  <2>3. MPTablesOK' /\ OwnedUploads' /\ OwnersKept /\ Shrinks
    BY <1>1, <2>1, <2>2, KeptTables DEF MPTablesOK
  <2>4. /\ MPMoves(w) /\ req[w].name \in Names /\ req'[w].name = req[w].name
        /\ Held(w)' = Held(w) /\ Mine(w)' \subseteq Mine(w)
    BY <1>3, <2>1, GoesOn DEF abortReap
  <2> QED BY <2>2, <2>3, <2>4 DEF MPEffect, Turn, Copies
<1>4. CASE DeleteMultipartUpload(w)
  <2> DEFINE u == mp[w].upload
  <2>1. /\ req[w].pc = "mpDrop"
        /\ UNCHANGED <<buckets, objects, chunkMap, channel, nextId, owner>>
    BY <1>4 DEF DeleteMultipartUpload, store, telegram
  <2>2. u \in Uploads
    BY <1>1, <2>1 DEF MPFormed, Linked, OnUpload
  <2>3. /\ MPMoves(w) /\ Mine(w)' = {}
        /\ \/ Held(w)' = {}
           \/ /\ req[w].name \in Names /\ req'[w].name = req[w].name
              /\ Held(w)' \subseteq Held(w)
    BY <1>2, <1>4, <2>1, AbortDoneMoves DEF DeleteMultipartUpload
  <2>4. MPTablesOK' /\ OwnedUploads' /\ OwnersKept /\ Shrinks
    <3>1. CASE UNCHANGED <<uploads, parts, partMap>>
      BY <1>1, <2>1, <3>1, KeptTables DEF MPKept, mpStore, MPTablesOK
    <3>2. CASE /\ uploads' = uploads \ {u}
               /\ parts' = [parts EXCEPT ![u] = NoParts]
               /\ partMap' = [partMap EXCEPT ![u] = NoPartChunks]
      <4>1. /\ uploads' \subseteq Uploads
            /\ parts' \in [Uploads -> [PartNumbers -> Parts \cup {None}]]
            /\ partMap' \in [Uploads -> [PartNumbers -> Seq(Messages)]]
            /\ OwnedUploads' /\ OwnersKept
            /\ \A v \in Uploads, p \in PartNumbers :
                 Range(partMap'[v][p]) \subseteq Range(partMap[v][p])
        BY <2>1, <2>2, <3>2, DropsUpload
      <4> QED BY <1>1, <2>1, <4>1 DEF MPTablesOK, Shrinks
    <3> QED BY <1>4, <3>1, <3>2 DEF DeleteMultipartUpload
  <2>5. nextId' >= nextId
    BY <1>1, <2>1 DEF MPTablesOK
  <2> QED BY <2>3, <2>4, <2>5 DEF MPEffect, Turn, Copies
<1> QED BY <1>3, <1>4

\* Every step of a worker.
LEMMA WorkerEffect ==
  ASSUME MPTypeInv, NEW w \in Workers, ObjectStep(w) \/ MPBegin(w) \/ MPStep(w)
  PROVE  MPEffect(w)
<1>1. CASE MPStep(w)
  BY <1>1, CreateEffect, ReadOldPartEffect, PutPartEffect, ListPartsEffect, GatherEffect,
     FinalizeEffect, SweepNextEffect, AllChunksEffect, AbortSteps DEF MPStep
<1> QED BY <1>1, ObjectStepEffect, MPBeginEffect

----------------------------------------------------------------------------
(* Type correctness                                                        *)

\* Owners that were known stay, so a well-formed handler stays one.
LEMMA FormedStays ==
  ASSUME OwnersKept, NEW r \in MPRequests, NEW l \in Locals, MPFormed(owner, r, l)
  PROVE  MPFormed(owner', r, l)
<1>1. Linked(owner', r, l)
  BY NoneAssumption DEF OwnersKept, MPFormed, Linked, Locals
<1> QED BY <1>1 DEF MPFormed

\* A turn of one worker keeps MPTypeInv.
LEMMA TurnType ==
  ASSUME MPTypeInv, NEW w \in Workers, Turn(w)
  PROVE  MPTypeInv'
<1>1. req' \in [Workers -> MPRequests] /\ mp' \in [Workers -> Locals]
  BY DEF Turn, MPMoves
<1>2. ASSUME NEW v \in Workers
      PROVE  MPFormed(owner', req'[v], mp'[v])
  <2>1. CASE v = w
    BY <2>1 DEF Turn, MPMoves
  <2>2. CASE v # w
    BY <2>2, WorkerType, FormedStays DEF Turn, MPMoves
  <2> QED BY <2>1, <2>2
<1>3. \A v \in Workers : MPFormed(owner, req[v], mp[v])'
  BY <1>2 DEF MPFormed, Named, Sourced, Placed, Linked, Lists, OnUpload, Listed
<1> QED BY <1>1, <1>3 DEF MPTypeInv, Turn

\* The idle handler is well-formed, whatever the owners.
LEMMA IdleFormed ==
  ASSUME NEW o
  PROVE  MPFormed(o, Idle, MPIdle)
<1>1. Named(Idle) /\ Sourced(Idle) /\ Placed(Idle)
  BY MPIdleType DEF Named, Sourced, Placed
<1> QED BY <1>1, MPIdleType, StartFormed DEF MPHolding

\* A crash leaves the tables, and idle handlers.
LEMMA MPCrashEffect ==
  ASSUME MPTypeInv, Crash, mp' = [w \in Workers |-> MPIdle], UNCHANGED mpStore
  PROVE  /\ MPTypeInv'
         /\ UNCHANGED <<chunkMap, partMap, owner, channel, nextId>>
         /\ \A w \in Workers : Held(w)' = {} /\ Mine(w)' = {}
<1>1. UNCHANGED <<store, telegram, mpStore>> /\ req' = [w \in Workers |-> Idle]
  BY DEF Crash
<1>2. \A w \in Workers : req'[w] = Idle /\ mp'[w] = MPIdle
  BY <1>1
<1>3. req' \in [Workers -> MPRequests] /\ mp' \in [Workers -> Locals]
  BY <1>1, MPIdleType
<1>4. \A v \in Workers : MPFormed(owner', req'[v], mp'[v])
  BY <1>2, IdleFormed
<1>5. \A v \in Workers : MPFormed(owner, req[v], mp[v])'
  BY <1>4 DEF MPFormed, Named, Sourced, Placed, Linked, Lists, OnUpload, Listed
<1>6. MPTypeInv'
  BY <1>1, <1>3, <1>5, TablesKept DEF MPTypeInv
<1>7. \A w \in Workers : Held(w)' = {} /\ Mine(w)' = {}
  BY <1>2, MPIdleType, EmptyRange, HeldAfter
<1> QED BY <1>1, <1>6, <1>7 DEF store, telegram, mpStore

\* The steps of the specification.
LEMMA MPNextEffect ==
  ASSUME MPTypeInv, [MPNext]_allVars
  PROVE  \/ \E w \in Workers : MPEffect(w)
         \/ Crash /\ mp' = [w \in Workers |-> MPIdle] /\ UNCHANGED mpStore
         \/ UNCHANGED allVars
BY WorkerEffect DEF MPNext

\* MPTypeInv is inductive.
LEMMA MPTypeInvStep ==
  ASSUME MPTypeInv, [MPNext]_allVars
  PROVE  MPTypeInv'
<1>1. CASE UNCHANGED allVars
  BY <1>1 DEF allVars, vars, mpVars, mpStore, MPTypeInv, MPTablesOK, OwnedUploads, NoPartChunks,
              MPFormed, Named, Sourced, Placed, Linked, Lists, OnUpload, Listed
<1> QED BY <1>1, MPNextEffect, TurnType, MPCrashEffect DEF MPEffect

\* MPTypeInv holds initially.
LEMMA MPTypeInvInit == MPInit => MPTypeInv
<1> SUFFICES ASSUME MPInit PROVE MPTypeInv
  OBVIOUS
<1>1. <<>> \in Seq(Messages) /\ 1 \in Nat
  OBVIOUS
<1>2. /\ NoParts \in [PartNumbers -> Parts \cup {None}]
      /\ NoPartChunks \in [PartNumbers -> Seq(Messages)]
  BY <1>1 DEF NoParts, NoPartChunks
<1>3. MPTablesOK
  BY <1>1, <1>2 DEF MPInit, Init, MPTablesOK
<1>4. OwnedUploads
  BY DEF MPInit, OwnedUploads
<1>5. req \in [Workers -> MPRequests] /\ mp \in [Workers -> Locals]
  BY MPIdleType DEF MPInit, Init
<1>6. \A w \in Workers : req[w] = Idle /\ mp[w] = MPIdle
  BY DEF MPInit, Init
<1>7. \A w \in Workers : MPFormed(owner, req[w], mp[w])
  BY <1>6, IdleFormed
<1> QED BY <1>3, <1>4, <1>5, <1>7 DEF MPTypeInv

\* The handlers of the whole gateway, multipart ones and the janitor included,
\* keep their tables and locals well typed under any interleaving, failure and
\* crash.
THEOREM MultipartTypeCorrect == MPSpec => []MPTypeOK
<1>1. MPInit => MPTypeInv
  BY MPTypeInvInit
<1>2. MPTypeInv /\ [MPNext]_allVars => MPTypeInv'
  BY MPTypeInvStep
<1>3. MPTypeInv => MPTypeOK
  <2> SUFFICES ASSUME MPTypeInv PROVE MPTypeOK
    OBVIOUS
  <2>1. ASSUME NEW w \in Workers
        PROVE  /\ [req[w] EXCEPT !.pc = "idle", !.op = "none"] \in Requests
               /\ req[w].pc \in MPPositions /\ req[w].op \in MPOperations
    <3>1. req[w] \in MPRequests
      BY WorkerType
    <3>2. "idle" \in Positions /\ "none" \in Operations
      BY DEF Positions, Operations
    <3> QED BY <3>1, <3>2 DEF MPRequests, Requests
  <2> QED BY <2>1 DEF MPTypeInv, MPTablesOK, Locals, MPTypeOK, MPPositions, MPOperations
<1> QED BY <1>1, <1>2, <1>3, PTL DEF MPSpec

----------------------------------------------------------------------------
(* Who refers to which messages                                            *)

\* Membership in Stored and OfKey, spelled out.
LEMMA StoredMember ==
  ASSUME NEW n, NEW m
  PROVE  m \in Stored(n) <=>
           \/ m \in Range(chunkMap[n])
           \/ \E u \in Uploads, p \in PartNumbers : owner[u] = n /\ m \in Range(partMap[u][p])
BY DEF Stored

\* The same after a step.
LEMMA StoredMemberAfter ==
  ASSUME NEW n, NEW m
  PROVE  m \in Stored(n)' <=>
           \/ m \in Range(chunkMap'[n])
           \/ \E u \in Uploads, p \in PartNumbers : owner'[u] = n /\ m \in Range(partMap'[u][p])
BY DEF Stored

\* A message of key n is stored for it or held by one of its handlers.
LEMMA OfKeyMember ==
  ASSUME NEW n, NEW m
  PROVE  m \in OfKey(n) <=>
           m \in Stored(n) \/ \E w \in Workers : req[w].name = n /\ m \in Held(w)
BY DEF OfKey

\* The same after a step.
LEMMA OfKeyMemberAfter ==
  ASSUME NEW n, NEW m
  PROVE  m \in OfKey(n)' <=>
           m \in Stored(n)' \/ \E w \in Workers : req'[w].name = n /\ m \in Held(w)'
BY DEF OfKey

\* The other workers' references stay as they are.
LEMMA MPOthersKeep ==
  ASSUME NEW w \in Workers, MPMoves(w), NEW v \in Workers, v # w
  PROVE  req'[v] = req[v] /\ Held(v)' = Held(v) /\ Mine(v)' = Mine(v)
<1>1. req'[v] = req[v] /\ mp'[v] = mp[v]
  BY DEF MPMoves
<1> QED BY <1>1, HeldAfter DEF Held, Mine

\* What a handler has sent and not committed it also holds.
LEMMA MineHeld ==
  ASSUME NEW w
  PROVE  Mine(w) \subseteq Held(w) /\ Mine(w)' \subseteq Held(w)'
BY HeldAfter DEF Mine, Held

\* What a key refers to are messages.
LEMMA OfKeyMessages ==
  ASSUME MPTypeInv, NEW n \in Names
  PROVE  OfKey(n) \subseteq Messages
<1> SUFFICES ASSUME NEW m \in OfKey(n) PROVE m \in Messages
  OBVIOUS
<1>1. CASE m \in Range(chunkMap[n])
  BY <1>1 DEF Range, MPTypeInv, MPTablesOK
<1>2. ASSUME NEW u \in Uploads, NEW p \in PartNumbers, m \in Range(partMap[u][p])
      PROVE  m \in Messages
  <2>1. partMap[u][p] \in Seq(Messages)
    BY DEF MPTypeInv, MPTablesOK
  <2> QED BY <1>2, <2>1 DEF Range
<1>3. ASSUME NEW w \in Workers, m \in Held(w)
      PROVE  m \in Messages
  <2>1. /\ req[w].chunks \in Seq(Messages) /\ req[w].old \in Seq(Messages)
        /\ mp[w].all \subseteq Messages
    BY WorkerType DEF MPRequests, Locals
  <2> QED BY <1>3, <2>1 DEF Held, Range
<1> QED BY <1>1, <1>2, <1>3, OfKeyMember, StoredMember

\* What a handler holds belongs to the key it works on.
LEMMA HeldOfKey ==
  ASSUME MPTypeInv, NEW w \in Workers, NEW m \in Held(w)
  PROVE  req[w].name \in Names /\ m \in OfKey(req[w].name)
<1>1. MPFormed(owner, req[w], mp[w])
  BY WorkerType
<1>2. req[w].chunks # <<>> \/ req[w].old # <<>> \/ mp[w].all # {}
  BY EmptyRange DEF Held
<1>3. req[w].name \in Names
  BY <1>1, <1>2 DEF MPFormed, Lists, Named
<1> QED BY <1>3, OfKeyMember

\* A turn that gives a key no message that it did not have keeps the keys apart.
LEMMA KeysStayApart ==
  ASSUME MPTypeInv, KeysApart, nextId' \in Nat, nextId' >= nextId,
         \A n \in Names : \A m \in OfKey(n)' : m \in OfKey(n)
  PROVE  KeysApart'
<1>1. ASSUME NEW n \in Names, NEW m \in OfKey(n)'
      PROVE  m.id < nextId'
  <2>1. m \in OfKey(n) /\ m.id < nextId
    BY DEF KeysApart
  <2>2. m.id \in Nat /\ nextId \in Nat
    BY <2>1, OfKeyMessages DEF Messages, MPTypeInv, MPTablesOK
  <2> QED BY <2>1, <2>2
<1>2. \A n1, n2 \in Names : n1 # n2 => OfKey(n1)' \cap OfKey(n2)' = {}
  BY DEF KeysApart
<1> QED BY <1>1, <1>2 DEF KeysApart

\* The tables store nothing new for any key when they only shrink.
LEMMA StoredShrinks ==
  ASSUME MPTypeInv, Shrinks, OwnersKept, NEW n \in Names
  PROVE  Stored(n)' \subseteq Stored(n)
<1> SUFFICES ASSUME NEW m \in Stored(n)' PROVE m \in Stored(n)
  OBVIOUS
<1>1. CASE m \in Range(chunkMap'[n])
  BY <1>1, StoredMember DEF Shrinks
<1>2. ASSUME NEW u \in Uploads, NEW p \in PartNumbers, owner'[u] = n, m \in Range(partMap'[u][p])
      PROVE  m \in Stored(n)
  <2>1. m \in Range(partMap[u][p])
    BY <1>2 DEF Shrinks
  <2>2. owner[u] # None
    <3>1. NoPartChunks[p] = <<>>
      BY DEF NoPartChunks
    <3> QED BY <2>1, <3>1, EmptyRange DEF MPTypeInv, OwnedUploads
  <2>3. owner[u] = n
    BY <1>2, <2>2 DEF OwnersKept
  <2> QED BY <2>1, <2>3, StoredMember
<1> QED BY <1>1, <1>2, StoredMemberAfter

\* A copy of references keeps them apart.
LEMMA CopiesReferences ==
  ASSUME MPTypeInv, References, NEW w \in Workers, Turn(w), Copies(w)
  PROVE  References'
<1>1. \A n \in Names : Stored(n)' \subseteq Stored(n)
  BY StoredShrinks DEF Turn, Copies
<1>2. \A v \in Workers : v # w => req'[v] = req[v] /\ Held(v)' = Held(v) /\ Mine(v)' = Mine(v)
  BY MPOthersKeep DEF Turn
<1>3. KeysApart'
  <2>1. ASSUME NEW n \in Names, NEW m \in OfKey(n)'
        PROVE  m \in OfKey(n)
    <3>1. CASE m \in Stored(n)'
      BY <1>1, <3>1, OfKeyMember
    <3>2. ASSUME NEW v \in Workers, req'[v].name = n, m \in Held(v)'
          PROVE  m \in OfKey(n)
      <4>1. CASE v # w
        BY <1>2, <3>2, <4>1, OfKeyMember
      <4>2. CASE v = w
        <5>1. req[w].name = n /\ m \in Held(w) \cup Stored(n)
          BY <3>2, <4>2 DEF Copies
        <5> QED BY <5>1, OfKeyMember
      <4> QED BY <4>1, <4>2
    <3> QED BY <2>1, <3>1, <3>2, OfKeyMemberAfter
  <2>2. nextId' \in Nat /\ nextId' >= nextId
    BY DEF Turn, MPTablesOK
  <2> QED BY <2>1, <2>2, KeysStayApart DEF References
<1>4. \A v \in Workers : Mine(v)' \subseteq Mine(v)
  BY <1>2 DEF Copies
<1>5. Private'
  <2> SUFFICES ASSUME NEW v \in Workers
               PROVE  /\ \A n \in Names : Mine(v)' \cap Stored(n)' = {}
                      /\ \A x \in Workers : x # v => Mine(v)' \cap Held(x)' = {}
    BY DEF Private
  <2>1. \A n \in Names : Mine(v)' \cap Stored(n)' = {}
    BY <1>1, <1>4 DEF References, Private
  <2>2. ASSUME NEW x \in Workers, x # v
        PROVE  Mine(v)' \cap Held(x)' = {}
    <3>1. CASE x # w
      BY <1>2, <1>4, <2>2, <3>1 DEF References, Private
    <3>2. CASE x = w
      <4>1. \/ Held(w)' = {}
            \/ /\ req[w].name \in Names
               /\ Held(w)' \subseteq Held(w) \cup Stored(req[w].name)
        BY DEF Copies
      <4>2. Mine(v) \cap Held(w) = {} /\ \A n \in Names : Mine(v) \cap Stored(n) = {}
        BY <2>2, <3>2 DEF References, Private
      <4> QED BY <1>4, <3>2, <4>1, <4>2
    <3> QED BY <3>1, <3>2
  <2> QED BY <2>1, <2>2
<1>6. PartsApart'
  BY DEF References, PartsApart, Copies, Shrinks
<1> QED BY <1>3, <1>5, <1>6 DEF References

\* New messages have new ids, so they are no one else's.
LEMMA SendsReferences ==
  ASSUME MPTypeInv, References, NEW w \in Workers, Turn(w), Sends(w)
  PROVE  References'
<1>1. \A n \in Names : Stored(n)' = Stored(n)
  BY DEF Sends, Stored
<1>2. \A v \in Workers : v # w => req'[v] = req[v] /\ Held(v)' = Held(v) /\ Mine(v)' = Mine(v)
  BY MPOthersKeep DEF Turn
<1>3. /\ req'[w] \in MPRequests /\ mp'[w] \in Locals
      /\ MPFormed(owner', req'[w], mp'[w])
  BY DEF Turn, MPMoves
<1>4. nextId \in Nat /\ nextId' \in Nat /\ nextId' >= nextId
  BY DEF Turn, MPTypeInv, MPTablesOK
<1>5. \A m \in Held(w)' : m.id \in Nat /\ nextId <= m.id /\ m.id < nextId'
  <2>1. /\ req'[w].chunks \in Seq(Messages) /\ req'[w].old \in Seq(Messages)
        /\ mp'[w].all \subseteq Messages
    BY <1>3 DEF MPRequests, Locals
  <2>2. Held(w)' \subseteq Messages
    BY <2>1, HeldAfter DEF Range
  <2> QED BY <2>2 DEF Sends, Messages
<1>6. \A n \in Names : \A m \in OfKey(n) : m \notin Held(w)'
  BY <1>4, <1>5 DEF References, KeysApart
<1>7. \A n \in Names : \A m \in OfKey(n)' :
        m \in OfKey(n) \/ (m \in Held(w)' /\ req'[w].name = n)
  BY <1>1, <1>2, OfKeyMember, OfKeyMemberAfter
<1>8. KeysApart'
  <2>1. ASSUME NEW n \in Names, NEW m \in OfKey(n)'
        PROVE  m.id < nextId'
    <3>1. CASE m \in OfKey(n)
      <4>1. m.id < nextId /\ m.id \in Nat
        BY <3>1, OfKeyMessages DEF References, KeysApart, Messages
      <4> QED BY <1>4, <4>1
    <3>2. CASE m \in Held(w)'
      BY <1>5, <3>2
    <3> QED BY <1>7, <3>1, <3>2
  <2>2. \A n1, n2 \in Names : n1 # n2 => OfKey(n1)' \cap OfKey(n2)' = {}
    BY <1>6, <1>7 DEF References, KeysApart
  <2> QED BY <2>1, <2>2 DEF KeysApart
<1>9. \A v \in Workers : Held(v) \cap Held(w)' = {}
  BY <1>6, HeldOfKey
<1>10. Private'
  <2> SUFFICES ASSUME NEW v \in Workers
               PROVE  /\ \A n \in Names : Mine(v)' \cap Stored(n)' = {}
                      /\ \A x \in Workers : x # v => Mine(v)' \cap Held(x)' = {}
    BY DEF Private
  <2>1. CASE v = w
    <3>1. Mine(v)' \subseteq Held(w)'
      BY <2>1, MineHeld
    <3>2. \A n \in Names : Mine(v)' \cap Stored(n)' = {}
      BY <1>1, <1>6, <3>1, OfKeyMember
    <3>3. \A x \in Workers : x # v => Mine(v)' \cap Held(x)' = {}
      BY <1>2, <1>9, <2>1, <3>1
    <3> QED BY <3>2, <3>3
  <2>2. CASE v # w
    <3>1. Mine(v)' = Mine(v) /\ Mine(v) \subseteq Held(v)
      BY <1>2, <2>2, MineHeld
    <3>2. \A n \in Names : Mine(v)' \cap Stored(n)' = {}
      BY <1>1, <3>1 DEF References, Private
    <3>3. \A x \in Workers : x # v => Mine(v)' \cap Held(x)' = {}
      BY <1>2, <1>9, <3>1 DEF References, Private
    <3> QED BY <3>2, <3>3
  <2> QED BY <2>1, <2>2
<1>11. PartsApart'
  BY DEF References, PartsApart, Sends
<1> QED BY <1>8, <1>10, <1>11 DEF References

\* A transaction hands messages of the key over to the object.
LEMMA CommitsObjectReferences ==
  ASSUME MPTypeInv, References, NEW w \in Workers, Turn(w), CommitsObject(w)
  PROVE  References'
<1> DEFINE name == req[w].name
<1>1. /\ name \in Names /\ req'[w].name = name /\ Mine(w)' = {}
      /\ Held(w)' \subseteq Held(w)
      /\ Range(chunkMap'[name]) \subseteq Held(w)
      /\ \A n \in Names : n # name => chunkMap'[n] = chunkMap[n]
      /\ \A u \in Uploads, p \in PartNumbers : Range(partMap'[u][p]) \subseteq Range(partMap[u][p])
  BY DEF CommitsObject
<1>2. \A v \in Workers : v # w => req'[v] = req[v] /\ Held(v)' = Held(v) /\ Mine(v)' = Mine(v)
  BY MPOthersKeep DEF Turn
<1>3. ASSUME NEW n \in Names, NEW m \in Stored(n)'
      PROVE  m \in Stored(n) \/ (n = name /\ m \in Held(w))
  <2>1. CASE m \in Range(chunkMap'[n])
    BY <1>1, <2>1, StoredMember
  <2>2. ASSUME NEW u \in Uploads, NEW p \in PartNumbers, owner'[u] = n,
               m \in Range(partMap'[u][p])
        PROVE  m \in Stored(n)
    <3>1. m \in Range(partMap[u][p])
      BY <1>1, <2>2
    <3>2. owner[u] # None
      <4>1. NoPartChunks[p] = <<>>
        BY DEF NoPartChunks
      <4> QED BY <3>1, <4>1, EmptyRange DEF MPTypeInv, OwnedUploads
    <3>3. owner[u] = n
      BY <2>2, <3>2 DEF OwnersKept, Turn
    <3> QED BY <3>1, <3>3, StoredMember
  <2> QED BY <1>3, <2>1, <2>2, StoredMemberAfter
<1> HIDE DEF name
<1>4. KeysApart'
  <2>1. ASSUME NEW n \in Names, NEW m \in OfKey(n)'
        PROVE  m \in OfKey(n)
    <3>1. CASE m \in Stored(n)'
      BY <1>3, <3>1, OfKeyMember DEF name
    <3>2. ASSUME NEW v \in Workers, req'[v].name = n, m \in Held(v)'
          PROVE  m \in OfKey(n)
      BY <1>1, <1>2, <3>2, OfKeyMember DEF name
    <3> QED BY <2>1, <3>1, <3>2, OfKeyMemberAfter
  <2>2. nextId' \in Nat /\ nextId' >= nextId
    BY DEF Turn, MPTablesOK
  <2> QED BY <2>1, <2>2, KeysStayApart DEF References
<1>5. Private'
  <2> SUFFICES ASSUME NEW v \in Workers
               PROVE  /\ \A n \in Names : Mine(v)' \cap Stored(n)' = {}
                      /\ \A x \in Workers : x # v => Mine(v)' \cap Held(x)' = {}
    BY DEF Private
  <2>1. CASE v = w
    BY <1>1, <2>1
  <2>2. CASE v # w
    <3>1. Mine(v)' = Mine(v) /\ Mine(v) \cap Held(w) = {}
      BY <1>2, <2>2 DEF References, Private
    <3>2. \A n \in Names : Mine(v)' \cap Stored(n)' = {}
      BY <1>3, <3>1 DEF References, Private
    <3>3. \A x \in Workers : x # v => Mine(v)' \cap Held(x)' = {}
      BY <1>1, <1>2, <3>1 DEF References, Private
    <3> QED BY <3>2, <3>3
  <2> QED BY <2>1, <2>2
<1>6. PartsApart'
  BY <1>1 DEF References, PartsApart
<1> QED BY <1>4, <1>5, <1>6 DEF References

\* A transaction hands the messages sent for a part over to it.
LEMMA CommitsPartReferences ==
  ASSUME MPTypeInv, References, NEW w \in Workers, Turn(w), CommitsPart(w)
  PROVE  References'
<1> DEFINE name == req[w].name
<1>1. PICK u \in Uploads, p \in PartNumbers :
        /\ owner[u] = name
        /\ Range(partMap'[u][p]) \subseteq Mine(w)
        /\ \A v \in Uploads, q \in PartNumbers :
             <<v, q>> # <<u, p>> => partMap'[v][q] = partMap[v][q]
  BY DEF CommitsPart
<1>2. /\ name \in Names /\ req'[w].name = name /\ Mine(w)' = {}
      /\ Held(w)' \subseteq Held(w) /\ UNCHANGED <<chunkMap, owner>>
  BY DEF CommitsPart
<1>3. \A v \in Workers : v # w => req'[v] = req[v] /\ Held(v)' = Held(v) /\ Mine(v)' = Mine(v)
  BY MPOthersKeep DEF Turn
<1>4. Mine(w) \subseteq Held(w)
  BY MineHeld
<1>5. ASSUME NEW v \in Uploads, NEW q \in PartNumbers, NEW m \in Range(partMap'[v][q])
      PROVE  m \in Range(partMap[v][q]) \/ (v = u /\ q = p /\ m \in Mine(w))
  BY <1>1, <1>5
<1>6. ASSUME NEW n \in Names, NEW m \in Stored(n)'
      PROVE  m \in Stored(n) \/ (n = name /\ m \in Mine(w))
  BY <1>1, <1>2, <1>5, <1>6, StoredMember, StoredMemberAfter
<1> HIDE DEF name
<1>7. KeysApart'
  <2>1. ASSUME NEW n \in Names, NEW m \in OfKey(n)'
        PROVE  m \in OfKey(n)
    <3>1. CASE m \in Stored(n)'
      BY <1>4, <1>6, <3>1, OfKeyMember DEF name
    <3>2. ASSUME NEW v \in Workers, req'[v].name = n, m \in Held(v)'
          PROVE  m \in OfKey(n)
      BY <1>2, <1>3, <3>2, OfKeyMember DEF name
    <3> QED BY <2>1, <3>1, <3>2, OfKeyMemberAfter
  <2>2. nextId' \in Nat /\ nextId' >= nextId
    BY DEF Turn, MPTablesOK
  <2> QED BY <2>1, <2>2, KeysStayApart DEF References
<1>8. Private'
  <2> SUFFICES ASSUME NEW v \in Workers
               PROVE  /\ \A n \in Names : Mine(v)' \cap Stored(n)' = {}
                      /\ \A x \in Workers : x # v => Mine(v)' \cap Held(x)' = {}
    BY DEF Private
  <2>1. CASE v = w
    BY <1>2, <2>1
  <2>2. CASE v # w
    <3>1. Mine(v)' = Mine(v) /\ Mine(v) \cap Held(w) = {}
      BY <1>3, <2>2 DEF References, Private
    <3>2. \A n \in Names : Mine(v)' \cap Stored(n)' = {}
      BY <1>4, <1>6, <3>1 DEF References, Private
    <3>3. \A x \in Workers : x # v => Mine(v)' \cap Held(x)' = {}
      BY <1>2, <1>3, <3>1 DEF References, Private
    <3> QED BY <3>2, <3>3
  <2> QED BY <2>1, <2>2
<1>9. PartsApart'
  <2> SUFFICES ASSUME NEW a \in Uploads, NEW b \in Uploads, NEW q \in PartNumbers,
                      NEW s \in PartNumbers, <<a, q>> # <<b, s>>,
                      NEW m \in Range(partMap'[a][q]), m \in Range(partMap'[b][s])
               PROVE  FALSE
    BY DEF PartsApart
  <2>1. ASSUME NEW v \in Uploads, NEW t \in PartNumbers
        PROVE  Mine(w) \cap Range(partMap[v][t]) = {}
    <3>1. CASE owner[v] = None
      <4>1. NoPartChunks[t] = <<>>
        BY DEF NoPartChunks
      <4> QED BY <3>1, <4>1, EmptyRange DEF MPTypeInv, OwnedUploads
    <3>2. CASE owner[v] # None
      <4>1. owner[v] \in Names
        BY <3>2 DEF MPTypeInv, MPTablesOK
      <4> QED BY <4>1, StoredParts DEF References, Private
    <3> QED BY <3>1, <3>2
  <2> QED BY <1>5, <2>1 DEF References, PartsApart
<1> QED BY <1>7, <1>8, <1>9 DEF References

\* References is inductive, together with the types.
LEMMA ReferencesStep ==
  ASSUME MPTypeInv, References, [MPNext]_allVars
  PROVE  References'
<1>1. ASSUME NEW w \in Workers, MPEffect(w)
      PROVE  References'
  BY <1>1, CopiesReferences, SendsReferences, CommitsObjectReferences, CommitsPartReferences
  DEF MPEffect
<1>2. CASE Crash /\ mp' = [w \in Workers |-> MPIdle] /\ UNCHANGED mpStore
  <2>1. /\ UNCHANGED <<chunkMap, partMap, owner, channel, nextId>>
        /\ \A w \in Workers : Held(w)' = {} /\ Mine(w)' = {}
    BY <1>2, MPCrashEffect
  <2>2. \A n \in Names : Stored(n)' = Stored(n)
    BY <2>1 DEF Stored
  <2>3. \A n \in Names : \A m \in OfKey(n)' : m \in OfKey(n)
    BY <2>1, <2>2, OfKeyMember, OfKeyMemberAfter
  <2>4. KeysApart'
    <3>1. nextId' \in Nat /\ nextId' >= nextId
      BY <2>1 DEF MPTypeInv, MPTablesOK
    <3> QED BY <2>3, <3>1, KeysStayApart DEF References
  <2>5. Private' /\ PartsApart'
    BY <2>1 DEF Private, PartsApart, References
  <2> QED BY <2>4, <2>5 DEF References
<1>3. CASE UNCHANGED allVars
  <2>1. UNCHANGED <<chunkMap, partMap, owner, nextId, req, mp>>
    BY <1>3 DEF allVars, vars, mpVars, mpStore
  <2>2. \A w \in Workers : Held(w)' = Held(w) /\ Mine(w)' = Mine(w)
    BY <2>1, HeldAfter DEF Held, Mine
  <2>3. \A n \in Names : Stored(n)' = Stored(n)
    BY <2>1 DEF Stored
  <2>4. \A n \in Names : OfKey(n)' = OfKey(n)
    BY <2>1, <2>2, <2>3 DEF OfKey
  <2>5. KeysApart' /\ Private' /\ PartsApart'
    BY <2>1, <2>2, <2>3, <2>4 DEF References, KeysApart, Private, PartsApart
  <2> QED BY <2>5 DEF References
<1> QED BY <1>1, <1>2, <1>3, MPNextEffect

\* There is no message at the start.
LEMMA ReferencesInit == MPInit => References
<1> SUFFICES ASSUME MPInit PROVE References
  OBVIOUS
<1>1. \A w \in Workers : Held(w) = {} /\ Mine(w) = {}
  BY MPIdleType, EmptyRange DEF MPInit, Init, Held, Mine
<1>2. \A u \in Uploads, p \in PartNumbers : Range(partMap[u][p]) = {}
  BY EmptyRange DEF MPInit, NoPartChunks
<1>3. \A n \in Names : Range(chunkMap[n]) = {}
  BY EmptyRange DEF MPInit, Init
<1>4. \A n \in Names : OfKey(n) = {}
  BY <1>1, <1>2, <1>3, OfKeyMember, StoredMember
<1> QED BY <1>1, <1>2, <1>4 DEF References, KeysApart, Private, PartsApart

\* No two objects, no two parts, and no object and upload to another key ever
\* refer to the same message, whatever races: two completions, an abort under a
\* completion, a part sent again (PutMultipartPart, FinalizeMultipartUpload).
THEOREM KeysShareNothing == MPSpec => []NoCrossKeySharing
<1>1. MPInit => MPTypeInv /\ References
  BY MPTypeInvInit, ReferencesInit
<1>2. MPTypeInv /\ References /\ [MPNext]_allVars => MPTypeInv' /\ References'
  BY MPTypeInvStep, ReferencesStep
<1>3. MPTypeInv /\ References => NoCrossKeySharing
  <2> SUFFICES ASSUME MPTypeInv, References PROVE NoCrossKeySharing
    OBVIOUS
  <2>1. \A n \in Names : Range(chunkMap[n]) \subseteq OfKey(n)
    BY StoredMember, OfKeyMember
  <2>2. \A u \in Uploads, p \in PartNumbers : Range(partMap[u][p]) \subseteq OfKey(owner[u])
    BY StoredMember, OfKeyMember
  <2>3. \A n1, n2 \in Names : n1 # n2 => Range(chunkMap[n1]) \cap Range(chunkMap[n2]) = {}
    BY <2>1 DEF References, KeysApart
  <2>4. ASSUME NEW n \in Names, NEW u \in Uploads, NEW p \in PartNumbers, owner[u] # n
        PROVE  Range(chunkMap[n]) \cap Range(partMap[u][p]) = {}
    <3>1. CASE owner[u] = None
      <4>1. NoPartChunks[p] = <<>>
        BY DEF NoPartChunks
      <4> QED BY <3>1, <4>1, EmptyRange DEF MPTypeInv, OwnedUploads
    <3>2. CASE owner[u] # None
      <4>1. owner[u] \in Names
        BY <3>2 DEF MPTypeInv, MPTablesOK
      <4> QED BY <2>1, <2>2, <2>4, <4>1 DEF References, KeysApart
    <3> QED BY <3>1, <3>2
  <2> QED BY <2>3, <2>4 DEF NoCrossKeySharing, References, PartsApart
<1> QED BY <1>1, <1>2, <1>3, PTL DEF MPSpec

----------------------------------------------------------------------------
(* What is deleted                                                         *)

\* The only steps that remove messages, and which they remove.
LEMMA MPRemoves ==
  ASSUME MPTypeInv, NEW w \in Workers, ObjectStep(w) \/ MPBegin(w) \/ MPStep(w)
  PROVE  \/ channel \subseteq channel'
         \/ req[w].pc \in {"reap", "delReap", "mpReap"} /\ channel \ channel' \subseteq Held(w)
         \/ req[w].pc = "discard" /\ channel \ channel' \subseteq Range(req[w].chunks)
<1>1. channel \subseteq Messages /\ nextId \in Nat /\ req[w] \in MPRequests
  BY WorkerType DEF MPTypeInv, MPTablesOK
<1>2. CASE reapSupersededChunks(w) \/ deleteReap(w) \/ abortReap(w)
  BY <1>1, <1>2, DeleteBatchType DEF reapSupersededChunks, deleteReap, abortReap, Held
<1>3. CASE deleteChunks(w)
  BY <1>1, <1>3, DeleteBatchType DEF deleteChunks
<1>4. CASE Upload(w) \/ CopyUpload(w)
  BY <1>4 DEF Upload, CopyUpload, UploadOK, UploadFails
<1>5. CASE \/ DeleteBucket(w) \/ readOldChunks(w) \/ PutObject(w) \/ loadRow(w)
           \/ loadChunks(w) \/ streamObject(w) \/ deleteOneObject(w) \/ deleteReadChunks(w)
           \/ DeleteObject(w) \/ Answered(w)
  BY <1>5, ZenonT(60)
  DEF DeleteBucket, readOldChunks, PutObject, loadRow, loadChunks, streamObject,
      deleteOneObject, deleteReadChunks, DeleteObject, Answered, telegram
<1>6. CASE Begin(w)
  BY <1>6, ZenonT(60)
  DEF Begin, createBucket, deleteBucketList, putObject, copyObject, getObject,
      deleteObjects, telegram
<1>7. CASE MPBegin(w)
  BY <1>7, ZenonT(60)
  DEF MPBegin, createMultipartUpload, uploadPart, uploadPartCopy,
      completeMultipartUpload, abortMultipartUpload, sweepStaleMultipartUploads, telegram
<1>8. CASE \/ CreateMultipartUpload(w) \/ readOldPartChunks(w) \/ PutMultipartPart(w)
           \/ ListMultipartParts(w) \/ gatherPartChunks(w) \/ FinalizeMultipartUpload(w)
           \/ sweepNext(w) \/ AllMultipartChunks(w) \/ DeleteMultipartUpload(w)
  BY <1>8 DEF CreateMultipartUpload, readOldPartChunks, PutMultipartPart, ListMultipartParts,
              gatherPartChunks, FinalizeMultipartUpload, sweepNext, AllMultipartChunks,
              DeleteMultipartUpload, telegram
<1> QED BY <1>2, <1>3, <1>4, <1>5, <1>6, <1>7, <1>8 DEF ObjectStep, Step, MPStep

\* A message of a current version is deleted only by a request for that object's
\* own key, however many completions, aborts, sweeps and overwrites race: what a
\* handler discards was its own, and what it reaps is of its key (abortReap,
\* reapSupersededChunks, deleteChunks).
THEOREM DamageIsConfined == MPSpec => DamageStaysInKey
<1> DEFINE Confined ==
      \A n \in Names : \A m \in Range(chunkMap[n]) :
        m \in channel \ channel' =>
          \E w \in Workers : /\ req[w].name = n
                            /\ req[w].pc \in {"reap", "delReap", "mpReap"}
<1>1. MPInit => MPTypeInv /\ References
  BY MPTypeInvInit, ReferencesInit
<1>2. MPTypeInv /\ References /\ [MPNext]_allVars => MPTypeInv' /\ References'
  BY MPTypeInvStep, ReferencesStep
<1>3. MPTypeInv /\ References /\ [MPNext]_allVars => [Confined]_allVars
  <2> SUFFICES ASSUME MPTypeInv, References, [MPNext]_allVars, NEW n \in Names,
                      NEW m \in Range(chunkMap[n]), m \in channel \ channel'
               PROVE  \E w \in Workers : /\ req[w].name = n
                                         /\ req[w].pc \in {"reap", "delReap", "mpReap"}
    OBVIOUS
  <2>1. PICK w \in Workers : ObjectStep(w) \/ MPBegin(w) \/ MPStep(w)
    <3>1. CASE Crash \/ UNCHANGED allVars
      BY <3>1 DEF Crash, telegram, allVars, vars
    <3> QED BY <3>1 DEF MPNext
  <2>2. m \in Stored(n) /\ m \in OfKey(n)
    BY StoredMember, OfKeyMember
  <2>3. CASE req[w].pc = "discard" /\ m \in Range(req[w].chunks)
    <3>1. req[w].op # "complete"
      BY <2>3, WorkerType DEF MPFormed, Placed
    <3>2. m \in Mine(w)
      BY <2>3, <3>1 DEF Mine
    <3> QED BY <2>2, <3>2 DEF References, Private
  <2>4. CASE req[w].pc \in {"reap", "delReap", "mpReap"} /\ m \in Held(w)
    <3>1. req[w].name \in Names /\ m \in OfKey(req[w].name)
      BY <2>4, HeldOfKey
    <3>2. req[w].name = n
      BY <2>2, <3>1 DEF References, KeysApart
    <3> QED BY <2>4, <3>2
  <2> QED BY <2>1, <2>3, <2>4, MPRemoves
<1> QED BY <1>1, <1>2, <1>3, PTL DEF MPSpec, DamageStaysInKey

----------------------------------------------------------------------------
(* Requests one after the other: the invariant                             *)

\* One request at a time.
Alone == \A v, w \in Workers : v = w

\* A handler has multipart locals only during a multipart request.
NoLocals(r, l) ==
  r.pc \in {"idle", "done"} \/ r.op \notin {"part", "partCopy", "complete", "abort", "sweep"}
    => l = MPIdle

\* The uploads a handler works on, or a sweep is still to work on, have rows.
OpenUploads(ups, r, l) ==
  /\ OnUpload(r) /\ ~(r.op = "complete" /\ r.pc = "reap") => l.upload \in ups
  /\ l.todo \subseteq ups \ {l.upload}

\* The bucket a handler has seen is there, and the one it found empty is empty.
BucketKept(bs, obs, r) ==
  /\ r.op \in {"put", "copy"} /\ r.pc \notin {"idle", "done"} => r.name[1] \in bs
  /\ r.pc = "dropBucket" => \A n \in Names : n[1] = r.bucket => obs[n] = None

\* A completion has gathered parts, or is about to commit them.
Gathering(r) == r.pc = "mpGather" \/ (r.op = "complete" /\ r.pc \in {"readOld", "commit"})

\* The digests of the first k listed parts.
Digests(l, k) == [i \in 1..k |-> l.stored[l.list[i].num].etag]

\* What a handler is about to commit holds the bytes it was sent, or those of
\* the parts it has gathered, which are still the stored ones.
Carries(ps, r, l) ==
  /\ r.pc \in {"readOld", "commit"} /\ r.op # "complete" => DocsOf(r.chunks) = r.body
  /\ Gathering(r) => /\ l.stored = ps[l.upload]
                     /\ ValidParts(l.list, l.stored)
                     /\ l.got \in 0..Len(l.list)
                     /\ r.pc # "mpGather" => l.got = Len(l.list)
                     /\ DocsOf(r.chunks) = FlattenSeq(Digests(l, l.got))

InTurn(w) ==
  /\ NoLocals(req[w], mp[w])
  /\ OpenUploads(uploads, req[w], mp[w])
  /\ BucketKept(buckets, objects, req[w])
  /\ Carries(parts, req[w], mp[w])

\* An upload without a row has no parts.
EndedGone ==
  \A u \in Uploads : u \notin uploads => parts[u] = NoParts /\ partMap[u] = NoPartChunks

\* A part's ETag is the digest of what its chunks hold.
PartRowsMatch ==
  \A u \in Uploads, p \in PartNumbers :
    parts[u][p] # None => parts[u][p].etag = DocsOf(partMap[u][p])

TablesTrue == EndedGone /\ PartRowsMatch /\ ETagCoversMap /\ PlainObjectsInBuckets

Serial == TablesTrue /\ \A w \in Workers : InTurn(w)

----------------------------------------------------------------------------
(* Requests one after the other: the steps of a handler                    *)

\* The idle locals name no upload.
LEMMA NoLocalsKept ==
  ASSUME NEW r, NEW ups \in SUBSET Uploads, ~OnUpload(r)
  PROVE  OpenUploads(ups, r, MPIdle)
BY MPIdleType DEF OpenUploads

\* A handler that rests is in turn.
LEMMA RestInTurn ==
  ASSUME NEW w \in Workers, req'[w].pc \in {"idle", "done"}, mp'[w] = MPIdle,
         uploads' \in SUBSET Uploads
  PROVE  InTurn(w)'
<1>1. ~OnUpload(req'[w]) /\ ~Gathering(req'[w]) /\ req'[w].pc \notin {"dropBucket", "readOld", "commit"}
  BY DEF OnUpload, Gathering
<1>2. NoLocals(req'[w], mp'[w]) /\ OpenUploads(uploads', req'[w], mp'[w])
  BY <1>1, NoLocalsKept DEF NoLocals
<1>3. BucketKept(buckets', objects', req'[w]) /\ Carries(parts', req'[w], mp'[w])
  BY <1>1 DEF BucketKept, Carries
<1> QED BY <1>2, <1>3 DEF InTurn

\* An object handler that answers rests.
LEMMA AnswerInTurn ==
  ASSUME MPTypeInv, NEW w \in Workers, ObjectLocals(w), req'[w].pc = "done",
         uploads' \in SUBSET Uploads
  PROVE  InTurn(w)'
<1>1. mp'[w] = MPIdle
  BY DEF ObjectLocals, MPTypeInv
<1> QED BY <1>1, RestInTurn

\* An object handler that begins, without multipart locals.
LEMMA StartInTurn ==
  ASSUME MPTypeInv, NEW w \in Workers, InTurn(w), req[w].pc = "idle", mp'[w] = mp[w],
         uploads' \in SUBSET Uploads,
         ~OnUpload(req'[w]), ~Gathering(req'[w]), req'[w].pc \notin {"readOld", "commit"},
         BucketKept(buckets', objects', req'[w])
  PROVE  InTurn(w)'
<1>1. mp'[w] = MPIdle
  BY DEF InTurn, NoLocals
<1>2. NoLocals(req'[w], mp'[w]) /\ OpenUploads(uploads', req'[w], mp'[w])
  BY <1>1, NoLocalsKept DEF NoLocals
<1>3. Carries(parts', req'[w], mp'[w])
  BY DEF Carries
<1> QED BY <1>2, <1>3 DEF InTurn

\* A handler that goes on with its request.
LEMMA GoesOnInTurn ==
  ASSUME NEW w \in Workers, InTurn(w), mp'[w] = mp[w], uploads' = uploads, buckets' = buckets,
         req'[w].op = req[w].op, req'[w].name = req[w].name,
         req[w].pc \notin {"idle", "done"}, req'[w].pc \notin {"idle", "done", "dropBucket"},
         OnUpload(req'[w]) => OnUpload(req[w]),
         req[w].op = "complete" => req[w].pc # "reap",
         Carries(parts', req'[w], mp[w])
  PROVE  InTurn(w)'
<1>1. NoLocals(req'[w], mp'[w])
  BY DEF InTurn, NoLocals
<1>2. OpenUploads(uploads', req'[w], mp'[w])
  BY DEF InTurn, OpenUploads
<1>3. BucketKept(buckets', objects', req'[w])
  BY DEF InTurn, BucketKept
<1> QED BY <1>1, <1>2, <1>3 DEF InTurn

\* What is shown of one worker holds of the only one.
LEMMA OnlyWorker ==
  ASSUME Alone, NEW w \in Workers, InTurn(w)', TablesTrue'
  PROVE  Serial'
<1>1. \A v \in Workers : InTurn(v)'
  BY DEF Alone
<1> QED BY <1>1 DEF Serial

\* Tables that stay are true, also when a bucket is added.
LEMMA TablesStay ==
  ASSUME TablesTrue, UNCHANGED <<objects, chunkMap, uploads, parts, partMap>>,
         buckets \subseteq buckets'
  PROVE  TablesTrue'
<1>1. EndedGone' /\ PartRowsMatch' /\ ETagCoversMap'
  BY DEF TablesTrue, EndedGone, PartRowsMatch, ETagCoversMap, DocsOf
<1>2. PlainObjectsInBuckets'
  BY DEF TablesTrue, PlainObjectsInBuckets
<1> QED BY <1>1, <1>2 DEF TablesTrue

----------------------------------------------------------------------------
(* Requests one after the other: the object handlers                       *)

\* The request of a worker after a step.
LEMMA NewRequest ==
  ASSUME MPTypeInv, NEW w \in Workers, NEW r, req' = [req EXCEPT ![w] = r]
  PROVE  req'[w] = r
BY DEF MPTypeInv

\* An answer is one.
LEMMA Answers ==
  ASSUME MPTypeInv, NEW w \in Workers, NEW s
  PROVE  /\ Answer(w, s) => req'[w].pc = "done"
         /\ AnswerRead(w, s) => req'[w].pc = "done"
BY DEF MPTypeInv, Answer, AnswerRead, Idle

\* The first step of an object handler.
LEMMA BeginInTurn ==
  ASSUME MPTypeInv, Serial, NEW w \in Workers, Begin(w), ObjectLocals(w), UNCHANGED mpStore
  PROVE  InTurn(w)' /\ TablesTrue'
<1>1. /\ UNCHANGED <<objects, chunkMap, uploads, parts, partMap>> /\ buckets \subseteq buckets'
      /\ req[w].pc = "idle"
  BY ZenonT(60)
  DEF Begin, createBucket, deleteBucketList, putObject, copyObject, getObject, deleteObjects,
      store, telegram, mpStore
<1>2. TablesTrue'
  BY <1>1, TablesStay DEF Serial
<1>3. uploads' \in SUBSET Uploads /\ InTurn(w)
  BY <1>1 DEF MPTypeInv, MPTablesOK, Serial
<1>4. ASSUME req'[w].pc = "done"
      PROVE  InTurn(w)'
  BY <1>3, <1>4, AnswerInTurn
<1>5. ASSUME NEW r, req' = [req EXCEPT ![w] = r], r.pc # "done", ~OnUpload(r), ~Gathering(r),
             r.pc \notin {"readOld", "commit"}, BucketKept(buckets', objects', r)
      PROVE  InTurn(w)'
  <2>1. req'[w] = r
    BY <1>5, NewRequest
  <2>2. mp'[w] = mp[w]
    BY <1>5, <2>1 DEF ObjectLocals
  <2> QED BY <1>1, <1>3, <1>5, <2>1, <2>2, StartInTurn
<1>6. ASSUME NEW b \in Buckets, deleteBucketList(w, b), req'[w].pc # "done"
      PROVE  InTurn(w)'
  <2> DEFINE r == [Idle EXCEPT !.pc = "dropBucket", !.op = "deleteBucket", !.bucket = b]
  <2>1. /\ req' = [req EXCEPT ![w] = r] /\ UNCHANGED objects
        /\ \A n \in Names : n[1] = b => objects[n] = None
    BY <1>6, Answers DEF deleteBucketList, store
  <2>2. r.pc = "dropBucket" /\ r.op = "deleteBucket" /\ r.bucket = b
    BY DEF Idle
  <2> HIDE DEF r
  <2>3. ~OnUpload(r) /\ ~Gathering(r) /\ BucketKept(buckets', objects', r)
    BY <2>1, <2>2 DEF OnUpload, Gathering, BucketKept
  <2> QED BY <1>5, <2>1, <2>2, <2>3
<1>7. ASSUME NEW n \in Names, NEW body, putObject(w, n, body), req'[w].pc # "done"
      PROVE  InTurn(w)'
  <2> DEFINE r == [Idle EXCEPT !.pc = "upload", !.op = "put", !.name = n, !.body = body]
  <2>1. req' = [req EXCEPT ![w] = r] /\ UNCHANGED buckets /\ n[1] \in buckets
    BY <1>7, Answers DEF putObject, store, BucketExists
  <2>2. r.pc = "upload" /\ r.op = "put" /\ r.name = n
    BY DEF Idle
  <2> HIDE DEF r
  <2>3. ~OnUpload(r) /\ ~Gathering(r) /\ BucketKept(buckets', objects', r)
    BY <2>1, <2>2 DEF OnUpload, Gathering, BucketKept
  <2> QED BY <1>5, <2>1, <2>2, <2>3
<1>8. ASSUME NEW n \in Names, NEW s, copyObject(w, n, s), req'[w].pc # "done"
      PROVE  InTurn(w)'
  <2> DEFINE r == [Idle EXCEPT !.pc = "loadRow", !.op = "copy", !.name = n, !.src = s]
  <2>1. req' = [req EXCEPT ![w] = r] /\ UNCHANGED buckets /\ n[1] \in buckets
    BY <1>8, Answers DEF copyObject, store, BucketExists
  <2>2. r.pc = "loadRow" /\ r.op = "copy" /\ r.name = n
    BY DEF Idle
  <2> HIDE DEF r
  <2>3. ~OnUpload(r) /\ ~Gathering(r) /\ BucketKept(buckets', objects', r)
    BY <2>1, <2>2 DEF OnUpload, Gathering, BucketKept
  <2> QED BY <1>5, <2>1, <2>2, <2>3
<1>9. ASSUME NEW n, getObject(w, n)
      PROVE  InTurn(w)'
  <2> DEFINE r == [Idle EXCEPT !.pc = "loadRow", !.op = "get", !.name = n, !.src = n]
  <2>1. req' = [req EXCEPT ![w] = r]
    BY <1>9 DEF getObject
  <2>2. r.pc = "loadRow" /\ r.op = "get"
    BY DEF Idle
  <2> HIDE DEF r
  <2>3. ~OnUpload(r) /\ ~Gathering(r) /\ BucketKept(buckets', objects', r)
    BY <2>2 DEF OnUpload, Gathering, BucketKept
  <2> QED BY <1>5, <2>1, <2>2, <2>3
<1>10. ASSUME NEW names, deleteObjects(w, names), req'[w].pc # "done"
       PROVE  InTurn(w)'
  <2> DEFINE r == [Idle EXCEPT !.pc = "delRow", !.op = "delete", !.todo = names, !.name = names[1]]
  <2>1. req' = [req EXCEPT ![w] = r]
    BY <1>10, Answers DEF deleteObjects
  <2>2. r.pc = "delRow" /\ r.op = "delete"
    BY DEF Idle
  <2> HIDE DEF r
  <2>3. ~OnUpload(r) /\ ~Gathering(r) /\ BucketKept(buckets', objects', r)
    BY <2>2 DEF OnUpload, Gathering, BucketKept
  <2> QED BY <1>5, <2>1, <2>2, <2>3
<1>11. ASSUME NEW b \in Buckets, createBucket(w, b)
       PROVE  InTurn(w)'
  BY <1>4, <1>11, Answers DEF createBucket
<1>12. InTurn(w)'
  BY <1>4, <1>6, <1>7, <1>8, <1>9, <1>10, <1>11, Zenon DEF Begin
<1> QED BY <1>2, <1>12

----------------------------------------------------------------------------
(* Requests one after the other: the object handlers go on                 *)

\* A handler at none of the positions of a commit carries nothing.
LEMMA CarriesNothing ==
  ASSUME NEW ps, NEW r, NEW l, r.pc \notin {"readOld", "commit", "mpGather"}
  PROVE  Carries(ps, r, l)
BY DEF Carries, Gathering

\* An object handler that goes on with the same operation on the same key.
LEMMA ObjectGoesOn ==
  ASSUME MPTypeInv, NEW w \in Workers, InTurn(w), ObjectLocals(w),
         uploads' = uploads, buckets' = buckets,
         NEW r, req' = [req EXCEPT ![w] = r], r.op = req[w].op, r.name = req[w].name,
         req[w].pc \in {"upload", "copyUpload", "readOld", "commit", "loadRow", "loadChunks",
                        "delRow", "delChunks", "delReap", "delCommit"},
         r.pc \notin {"idle", "done", "dropBucket"},
         r.pc \notin {"mpParts", "mpGather", "mpAll", "mpReap", "mpDrop"},
         Carries(parts', r, mp[w])
  PROVE  InTurn(w)'
<1>1. req'[w] = r
  BY NewRequest
<1>2. mp'[w] = mp[w]
  BY <1>1 DEF ObjectLocals
<1>3. OnUpload(r) => OnUpload(req[w])
  BY DEF OnUpload
<1> QED BY <1>1, <1>2, <1>3, GoesOnInTurn

\* The steps of an object handler that leave the tables alone.
LEMMA QuietInTurn ==
  ASSUME MPTypeInv, Serial, NEW w \in Workers, ObjectLocals(w), UNCHANGED mpStore,
         \/ Upload(w) \/ CopyUpload(w) \/ readOldChunks(w) \/ reapSupersededChunks(w)
         \/ deleteChunks(w) \/ loadRow(w) \/ loadChunks(w) \/ streamObject(w)
         \/ deleteReadChunks(w) \/ deleteReap(w) \/ deleteOneObject(w)
  PROVE  InTurn(w)' /\ TablesTrue'
<1>1. UNCHANGED <<objects, chunkMap, uploads, parts, partMap, buckets>>
  BY ZenonT(60)
  DEF Upload, CopyUpload, readOldChunks, reapSupersededChunks, deleteChunks, loadRow,
      loadChunks, streamObject, deleteReadChunks, deleteReap, deleteOneObject, store, mpStore
<1>2. TablesTrue'
  BY <1>1, TablesStay DEF Serial
<1>3. /\ uploads' \in SUBSET Uploads /\ InTurn(w)
      /\ req[w] \in MPRequests /\ MPFormed(owner, req[w], mp[w])
  BY <1>1, WorkerType DEF MPTypeInv, MPTablesOK, Serial
<1>4. ASSUME req'[w].pc = "done"
      PROVE  InTurn(w)'
  BY <1>3, <1>4, AnswerInTurn
<1>5. ASSUME NEW body \in Seq(Documents), NEW p \in {"readOld", "discard"},
             UploadOK(w, body, p), req[w].pc \in {"upload", "copyUpload"}
      PROVE  InTurn(w)'
  <2> DEFINE r == [req[w] EXCEPT !.pc = p, !.chunks = Sent(nextId, body), !.body = body,
                                 !.row = None, !.read = <<>>]
  <2>1. req' = [req EXCEPT ![w] = r]
    BY <1>5 DEF UploadOK
  <2>2. /\ r.pc = p /\ r.op = req[w].op /\ r.name = req[w].name
        /\ r.chunks = Sent(nextId, body) /\ r.body = body
    BY <1>3 DEF MPRequests
  <2> HIDE DEF r
  <2>3. DocsOf(Sent(nextId, body)) = body
    BY SentType DEF MPTypeInv, MPTablesOK
  <2>4. req[w].op # "complete"
    BY <1>3, <1>5 DEF MPFormed, Placed
  <2>5. Carries(parts', r, mp[w])
    BY <2>2, <2>3, <2>4 DEF Carries, Gathering
  <2> QED BY <1>1, <1>3, <1>5, <2>1, <2>2, <2>5, ObjectGoesOn
<1>6. CASE Upload(w)
  <2>1. CASE UploadFails(w, req[w].body)
    BY <1>2, <1>4, <2>1, Answers DEF UploadFails
  <2>2. ASSUME NEW p \in {"readOld", "discard"}, UploadOK(w, req[w].body, p)
        PROVE  InTurn(w)'
    BY <1>3, <1>5, <1>6, <2>2 DEF Upload, MPRequests
  <2> QED BY <1>2, <1>6, <2>1, <2>2 DEF Upload
<1>7. CASE CopyUpload(w)
  <2>1. CASE UploadFails(w, SourceBytes(w))
    BY <1>2, <1>4, <2>1, Answers DEF UploadFails
  <2>2. ASSUME UploadOK(w, SourceBytes(w), "readOld")
        PROVE  InTurn(w)'
    <3>1. SourceBytes(w) \in Seq(Documents)
      BY <1>3, <1>7, SourceBytesType DEF CopyUpload, MPFormed, Sourced, MPRequests
    <3> QED BY <1>5, <1>7, <2>2, <3>1 DEF CopyUpload
  <2> QED BY <1>2, <1>7, <2>1, <2>2 DEF CopyUpload
<1>8. CASE readOldChunks(w)
  <2>1. PICK old : req' = [req EXCEPT ![w] = [req[w] EXCEPT !.pc = "commit", !.old = old]]
    BY <1>8, Zenon DEF readOldChunks
  <2> DEFINE r == [req[w] EXCEPT !.pc = "commit", !.old = old]
  <2>2. /\ r.pc = "commit" /\ r.op = req[w].op /\ r.name = req[w].name
        /\ r.chunks = req[w].chunks /\ r.body = req[w].body
    BY <1>3 DEF MPRequests
  <2> HIDE DEF r
  <2>3. req[w].pc = "readOld"
    BY <1>8, Zenon DEF readOldChunks
  <2>4. Carries(parts', r, mp[w])
    BY <1>1, <1>3, <2>2, <2>3 DEF InTurn, Carries, Gathering
  <2>5. InTurn(w)'
    BY <1>1, <1>3, <2>1, <2>2, <2>3, <2>4, ObjectGoesOn DEF r
  <2> QED BY <1>2, <2>5
<1>9. CASE reapSupersededChunks(w) \/ deleteChunks(w)
  BY <1>2, <1>4, <1>9, Answers DEF reapSupersededChunks, deleteChunks
<1>10. CASE loadRow(w)
  <2>1. ASSUME req'[w].pc # "done"
        PROVE  InTurn(w)'
    <3> DEFINE r == [req[w] EXCEPT !.pc = "loadChunks", !.row = objects[req[w].src]]
    <3>1. req' = [req EXCEPT ![w] = r] /\ req[w].pc = "loadRow"
      BY <1>10, <2>1, Answers DEF loadRow
    <3>2. r.pc = "loadChunks" /\ r.op = req[w].op /\ r.name = req[w].name
      BY <1>3 DEF MPRequests
    <3> HIDE DEF r
    <3> QED BY <1>1, <1>3, <3>1, <3>2, CarriesNothing, ObjectGoesOn
  <2> QED BY <1>2, <1>4, <2>1
<1>11. CASE loadChunks(w)
  <2>1. ASSUME req'[w].pc # "done"
        PROVE  InTurn(w)'
    <3> DEFINE q == IF req[w].op = "get" THEN "stream" ELSE "copyUpload"
               r == [req[w] EXCEPT !.pc = q, !.read = chunkMap[req[w].src]]
    <3>1. req' = [req EXCEPT ![w] = r] /\ req[w].pc = "loadChunks"
      BY <1>11, <2>1, Answers DEF loadChunks
    <3>2. r.pc = q /\ r.op = req[w].op /\ r.name = req[w].name
      BY <1>3 DEF MPRequests
    <3> HIDE DEF r
    <3> QED BY <1>1, <1>3, <3>1, <3>2, CarriesNothing, ObjectGoesOn
  <2> QED BY <1>2, <1>4, <2>1
<1>12. CASE streamObject(w)
  <2>1. req'[w].pc = "done"
    <3> DEFINE r == [req[w] EXCEPT !.pc = "done", !.status = "ok", !.body = SourceBytes(w)]
    <3>1. r.pc = "done"
      BY <1>3 DEF MPRequests
    <3>2. req' = [req EXCEPT ![w] = r] \/ AnswerRead(w, "error")
      BY <1>12 DEF streamObject
    <3> HIDE DEF r
    <3> QED BY <3>1, <3>2, NewRequest, Answers
  <2> QED BY <1>2, <1>4, <2>1
<1>13. ASSUME NEW s, NextKey(w, s), req[w].pc \in {"delRow", "delChunks"}
       PROVE  InTurn(w)'
  <2>1. CASE Answer(w, s)
    BY <1>4, <2>1, Answers
  <2>2. CASE ~Answer(w, s)
    <3> DEFINE r == [req[w] EXCEPT !.pc = "delRow", !.todo = Tail(req[w].todo),
                                   !.name = req[w].todo[2], !.old = <<>>]
    <3>1. req' = [req EXCEPT ![w] = r]
      BY <1>13, <2>2 DEF NextKey
    <3>2. r.pc = "delRow" /\ r.op = "delete"
      BY <1>3, <1>13 DEF MPRequests, MPFormed, Placed
    <3> HIDE DEF r
    <3>3. req'[w] = r /\ mp'[w] = mp[w] /\ mp[w] = MPIdle
      BY <1>3, <1>13, <3>1, <3>2, NewRequest DEF ObjectLocals, InTurn, NoLocals, MPFormed, Placed
    <3>4. ~OnUpload(r) /\ BucketKept(buckets', objects', r) /\ NoLocals(r, MPIdle)
      BY <3>2 DEF OnUpload, BucketKept, NoLocals
    <3>5. OpenUploads(uploads', r, MPIdle)
      BY <1>3, <3>4, NoLocalsKept
    <3> QED BY <3>2, <3>3, <3>4, <3>5, CarriesNothing DEF InTurn
  <2> QED BY <2>1, <2>2
<1>14. ASSUME NEW p \in {"delChunks", "delCommit"}, Goto(w, p),
              req[w].pc \in {"delRow", "delReap"}
       PROVE  InTurn(w)'
  <2> DEFINE r == [req[w] EXCEPT !.pc = p]
  <2>1. req' = [req EXCEPT ![w] = r]
    BY <1>14 DEF Goto, MPTypeInv
  <2>2. r.pc = p /\ r.op = req[w].op /\ r.name = req[w].name
    BY <1>3 DEF MPRequests
  <2> HIDE DEF r
  <2> QED BY <1>1, <1>3, <1>14, <2>1, <2>2, CarriesNothing, ObjectGoesOn
<1>15. CASE deleteReadChunks(w)
  <2>1. ASSUME req' = [req EXCEPT ![w] = [req[w] EXCEPT !.pc = "delReap",
                                                       !.old = chunkMap[req[w].name]]]
        PROVE  InTurn(w)'
    <3> DEFINE r == [req[w] EXCEPT !.pc = "delReap", !.old = chunkMap[req[w].name]]
    <3>1. r.pc = "delReap" /\ r.op = req[w].op /\ r.name = req[w].name
      BY <1>3 DEF MPRequests
    <3>2. req' = [req EXCEPT ![w] = r] /\ req[w].pc = "delChunks"
      BY <1>15, <2>1 DEF deleteReadChunks
    <3> HIDE DEF r
    <3> QED BY <1>1, <1>3, <3>1, <3>2, CarriesNothing, ObjectGoesOn
  <2> QED BY <1>2, <1>13, <1>15, <2>1 DEF deleteReadChunks
<1>16. CASE deleteReap(w)
  BY <1>2, <1>14, <1>16 DEF deleteReap
<1>17. CASE deleteOneObject(w)
  BY <1>2, <1>13, <1>14, <1>17 DEF deleteOneObject
<1> QED
  BY <1>6, <1>7, <1>8, <1>9, <1>10, <1>11, <1>12, <1>15, <1>16, <1>17, Zenon

----------------------------------------------------------------------------
(* Requests one after the other: the object handlers change the tables     *)

\* The flattening of one body.
LEMMA OneDigest ==
  ASSUME NEW body \in Seq(Documents)
  PROVE  FlattenSeq(Md5(body).digests) = body
BY FlattenOne DEF Md5

\* The tables of parts in a step that leaves them alone.
LEMMA PartsStay ==
  ASSUME TablesTrue, UNCHANGED <<uploads, parts, partMap>>
  PROVE  EndedGone' /\ PartRowsMatch'
BY DEF TablesTrue, EndedGone, PartRowsMatch, DocsOf

\* PutObject and DeleteObject: one object has a new row and a new chunk map.
LEMMA NewVersion ==
  ASSUME MPTypeInv, TablesTrue, NEW n \in Names, NEW row, NEW ms,
         objects' = [objects EXCEPT ![n] = row], chunkMap' = [chunkMap EXCEPT ![n] = ms],
         UNCHANGED buckets,
         row # None => /\ FlattenSeq(row.etag.digests) = DocsOf(ms)
                       /\ row.size = Len(ms)
                       /\ row.etag.parts = 0 => n[1] \in buckets
  PROVE  ETagCoversMap' /\ PlainObjectsInBuckets'
<1>1. /\ objects'[n] = row /\ chunkMap'[n] = ms
      /\ \A m \in Names : m # n => objects'[m] = objects[m] /\ chunkMap'[m] = chunkMap[m]
  BY DEF MPTypeInv, MPTablesOK
<1>2. ASSUME NEW m \in Names, objects'[m] # None
      PROVE  /\ FlattenSeq(objects'[m].etag.digests) = DocsOf(chunkMap'[m])
             /\ objects'[m].size = Len(chunkMap'[m])
             /\ objects'[m].etag.parts = 0 => m[1] \in buckets
  <2>1. CASE m = n
    BY <1>1, <1>2, <2>1
  <2>2. CASE m # n
    BY <1>1, <1>2, <2>2 DEF TablesTrue, ETagCoversMap, PlainObjectsInBuckets
  <2> QED BY <2>1, <2>2
<1> QED BY <1>2 DEF ETagCoversMap, PlainObjectsInBuckets, DocsOf

\* PutObject.
LEMMA PutInTurn ==
  ASSUME MPTypeInv, Serial, NEW w \in Workers, ObjectLocals(w), UNCHANGED mpStore, PutObject(w)
  PROVE  InTurn(w)' /\ TablesTrue'
<1>1. /\ req[w] \in MPRequests /\ MPFormed(owner, req[w], mp[w]) /\ InTurn(w) /\ TablesTrue
      /\ req[w].name \in Names
  BY WorkerType DEF PutObject, MPFormed, Named, Serial
<1>2. /\ req[w].pc = "commit" /\ req[w].op \in {"put", "copy"}
      /\ UNCHANGED <<buckets, uploads, parts, partMap>>
  BY DEF PutObject, mpStore
<1>3. ASSUME NEW p \in {"reap", "discard"}, Goto(w, p)
      PROVE  InTurn(w)'
  <2> DEFINE r == [req[w] EXCEPT !.pc = p]
  <2>1. req' = [req EXCEPT ![w] = r]
    BY <1>3 DEF Goto, MPTypeInv
  <2>2. r.pc = p /\ r.op = req[w].op /\ r.name = req[w].name
    BY <1>1 DEF MPRequests
  <2> HIDE DEF r
  <2> QED BY <1>1, <1>2, <2>1, <2>2, CarriesNothing, ObjectGoesOn
<1>4. CASE UNCHANGED <<objects, chunkMap>>
  BY <1>1, <1>2, <1>3, <1>4, TablesStay DEF PutObject
<1>5. CASE ~UNCHANGED <<objects, chunkMap>>
  <2> DEFINE n == req[w].name
             row == ObjectRow(req[w].body)
             ms == req[w].chunks
  <2>1. /\ objects' = [objects EXCEPT ![n] = row] /\ chunkMap' = [chunkMap EXCEPT ![n] = ms]
        /\ Goto(w, "reap")
    BY <1>5 DEF PutObject, replaceObjectChunksTx
  <2>2. DocsOf(ms) = req[w].body /\ req[w].body \in Seq(Documents) /\ ms \in Seq(Messages)
    BY <1>1, <1>2 DEF InTurn, Carries, MPRequests
  <2>3. Len(req[w].body) = Len(ms)
    BY <2>2 DEF DocsOf
  <2>4. row.etag = Md5(req[w].body) /\ row.size = Len(req[w].body)
    BY DEF ObjectRow
  <2>5. n[1] \in buckets
    BY <1>1, <1>2 DEF InTurn, BucketKept
  <2> HIDE DEF n, row, ms
  <2>6. FlattenSeq(row.etag.digests) = DocsOf(ms)
    BY <2>2, <2>4, OneDigest
  <2>7. ETagCoversMap' /\ PlainObjectsInBuckets'
    BY <1>1, <1>2, <2>1, <2>2, <2>3, <2>4, <2>5, <2>6, NewVersion DEF n
  <2> QED BY <1>1, <1>2, <1>3, <2>1, <2>7, PartsStay DEF TablesTrue
<1> QED BY <1>4, <1>5

\* DeleteObject.
LEMMA DeleteInTurn ==
  ASSUME MPTypeInv, Serial, NEW w \in Workers, ObjectLocals(w), UNCHANGED mpStore, DeleteObject(w)
  PROVE  InTurn(w)' /\ TablesTrue'
<1>1. /\ req[w] \in MPRequests /\ MPFormed(owner, req[w], mp[w]) /\ InTurn(w) /\ TablesTrue
      /\ req[w].name \in Names /\ uploads \in SUBSET Uploads
  BY WorkerType DEF DeleteObject, MPFormed, Named, Serial, MPTypeInv, MPTablesOK
<1>2. /\ req[w].pc = "delCommit" /\ UNCHANGED <<buckets, uploads, parts, partMap>>
      /\ \E s : NextKey(w, s)
  BY DEF DeleteObject, mpStore
<1>3. PICK s : NextKey(w, s)
  BY <1>2
<1>4. InTurn(w)'
  <2>1. CASE Answer(w, s)
    BY <1>1, <1>2, <2>1, Answers, AnswerInTurn
  <2>2. CASE ~Answer(w, s)
    <3> DEFINE r == [req[w] EXCEPT !.pc = "delRow", !.todo = Tail(req[w].todo),
                                   !.name = req[w].todo[2], !.old = <<>>]
    <3>1. req' = [req EXCEPT ![w] = r]
      BY <1>3, <2>2 DEF NextKey
    <3>2. r.pc = "delRow" /\ r.op = "delete"
      BY <1>1, <1>2 DEF MPRequests, MPFormed, Placed
    <3> HIDE DEF r
    <3>3. req'[w] = r /\ mp'[w] = mp[w] /\ mp[w] = MPIdle
      BY <1>1, <1>2, <3>1, <3>2, NewRequest DEF ObjectLocals, InTurn, NoLocals, MPFormed, Placed
    <3>4. ~OnUpload(r) /\ BucketKept(buckets', objects', r) /\ NoLocals(r, MPIdle)
      BY <3>2 DEF OnUpload, BucketKept, NoLocals
    <3>5. OpenUploads(uploads', r, MPIdle)
      BY <1>1, <1>2, <3>4, NoLocalsKept
    <3> QED BY <3>2, <3>3, <3>4, <3>5, CarriesNothing DEF InTurn
  <2> QED BY <2>1, <2>2
<1>5. CASE UNCHANGED <<objects, chunkMap>>
  BY <1>1, <1>2, <1>4, <1>5, TablesStay
<1>6. CASE ~UNCHANGED <<objects, chunkMap>>
  <2> DEFINE n == req[w].name
             ms == <<>>
  <2>1. objects' = [objects EXCEPT ![n] = None] /\ chunkMap' = [chunkMap EXCEPT ![n] = ms]
    BY <1>6 DEF DeleteObject
  <2> HIDE DEF n, ms
  <2>2. ETagCoversMap' /\ PlainObjectsInBuckets'
    BY <1>1, <1>2, <2>1, NewVersion DEF n
  <2> QED BY <1>1, <1>2, <1>4, <2>2, PartsStay DEF TablesTrue
<1> QED BY <1>5, <1>6

\* DeleteBucket, which drops a bucket found empty, and the end of an answer.
LEMMA EndInTurn ==
  ASSUME MPTypeInv, Serial, NEW w \in Workers, ObjectLocals(w), UNCHANGED mpStore,
         DeleteBucket(w) \/ Answered(w)
  PROVE  InTurn(w)' /\ TablesTrue'
<1>1. /\ req[w] \in MPRequests /\ InTurn(w) /\ TablesTrue /\ uploads \in SUBSET Uploads
      /\ mp \in [Workers -> Locals] /\ UNCHANGED <<objects, chunkMap, uploads, parts, partMap>>
  BY WorkerType DEF DeleteBucket, Answered, Serial, MPTypeInv, MPTablesOK, store, mpStore
<1>2. CASE DeleteBucket(w)
  <2>1. req'[w].pc = "done"
    BY <1>2, Answers DEF DeleteBucket
  <2>2. CASE UNCHANGED buckets
    BY <1>1, <2>1, <2>2, AnswerInTurn, TablesStay
  <2>3. CASE ~UNCHANGED buckets
    <3>1. buckets' = buckets \ {req[w].bucket} /\ req[w].pc = "dropBucket"
      BY <1>2, <2>3 DEF DeleteBucket
    <3>2. \A n \in Names : n[1] = req[w].bucket => objects[n] = None
      BY <1>1, <3>1 DEF InTurn, BucketKept
    <3>3. PlainObjectsInBuckets'
      BY <1>1, <3>1, <3>2 DEF TablesTrue, PlainObjectsInBuckets
    <3>4. EndedGone' /\ PartRowsMatch' /\ ETagCoversMap'
      BY <1>1, PartsStay DEF TablesTrue, ETagCoversMap, DocsOf
    <3> QED BY <1>1, <2>1, <3>3, <3>4, AnswerInTurn DEF TablesTrue
  <2> QED BY <2>2, <2>3
<1>3. CASE Answered(w)
  <2>1. req'[w] = Idle /\ Idle.pc = "idle" /\ UNCHANGED buckets /\ req[w].pc = "done"
    BY <1>3, NewRequest, MPIdleType DEF Answered, store
  <2>2. mp'[w] = MPIdle
    BY <1>1, <2>1 DEF ObjectLocals, InTurn, NoLocals
  <2> QED BY <1>1, <2>1, <2>2, RestInTurn, TablesStay
<1> QED BY <1>2, <1>3

\* Every step of an object handler.
LEMMA ObjectInTurn ==
  ASSUME MPTypeInv, Serial, NEW w \in Workers, ObjectStep(w)
  PROVE  InTurn(w)' /\ TablesTrue'
<1>1. ObjectLocals(w) /\ UNCHANGED mpStore
  BY DEF ObjectStep, ObjectLocals
<1>2. CASE Begin(w)
  BY <1>1, <1>2, BeginInTurn
<1>3. CASE Step(w)
  BY <1>1, <1>3, QuietInTurn, PutInTurn, DeleteInTurn, EndInTurn, Zenon DEF Step
<1> QED BY <1>2, <1>3 DEF ObjectStep

----------------------------------------------------------------------------
(* Requests one after the other: the multipart handlers begin              *)

\* A multipart handler that goes on, or begins.
LEMMA MPInTurn ==
  ASSUME MPTypeInv, NEW w \in Workers, NEW r, NEW l,
         req' = [req EXCEPT ![w] = r],
         mp' = [mp EXCEPT ![w] = l] \/ (l = mp[w] /\ UNCHANGED mp),
         r.op \in {"part", "partCopy", "complete", "abort", "sweep"},
         r.pc \notin {"idle", "done", "dropBucket"},
         OpenUploads(uploads', r, l), Carries(parts', r, l)
  PROVE  InTurn(w)'
<1>1. req'[w] = r /\ mp'[w] = l
  BY DEF MPTypeInv
<1>2. NoLocals(r, l) /\ BucketKept(buckets', objects', r)
  BY DEF NoLocals, BucketKept
<1> QED BY <1>1, <1>2 DEF InTurn

\* A multipart handler that answers rests.
LEMMA MPAnswerInTurn ==
  ASSUME MPTypeInv, NEW w \in Workers, NEW s, Answer(w, s), uploads' \in SUBSET Uploads,
         \/ mp' = [mp EXCEPT ![w] = MPIdle]
         \/ UNCHANGED mp /\ mp[w] = MPIdle
  PROVE  InTurn(w)'
<1>1. req'[w].pc = "done"
  BY Answers
<1>2. mp'[w] = MPIdle
  BY DEF MPTypeInv
<1> QED BY <1>1, <1>2, RestInTurn

\* The first step of a request for an upload with a row.
LEMMA UploadBeginInTurn ==
  ASSUME MPTypeInv, NEW w \in Workers, NEW u \in uploads, NEW r, NEW l,
         req' = [req EXCEPT ![w] = r], mp' = [mp EXCEPT ![w] = l], UNCHANGED uploads,
         r.op \in {"part", "partCopy", "complete", "abort"},
         r.pc \in {"upload", "loadRow", "mpParts", "mpAll"},
         l.upload = u, l.todo = {}
  PROVE  InTurn(w)'
<1>1. OpenUploads(uploads', r, l)
  BY DEF OpenUploads
<1>2. Carries(parts', r, l)
  BY CarriesNothing
<1> QED BY <1>1, <1>2, MPInTurn

\* The first step of a multipart handler.
LEMMA MPBeginInTurn ==
  ASSUME MPTypeInv, Serial, NEW w \in Workers, MPBegin(w)
  PROVE  InTurn(w)' /\ TablesTrue'
<1>1. UNCHANGED <<store, telegram, mpStore>> /\ req[w].pc = "idle"
  BY ZenonT(60)
  DEF MPBegin, createMultipartUpload, uploadPart, uploadPartCopy, completeMultipartUpload,
      abortMultipartUpload, sweepStaleMultipartUploads, mpVars
<1>2. /\ UNCHANGED <<objects, chunkMap, uploads, parts, partMap, buckets>>
      /\ InTurn(w) /\ TablesTrue /\ uploads' \in SUBSET Uploads /\ mp[w] = MPIdle
  BY <1>1 DEF store, mpStore, Serial, InTurn, NoLocals, MPTypeInv, MPTablesOK
<1>3. TablesTrue'
  BY <1>2, TablesStay
<1>4. ASSUME NEW s, Answer(w, s), UNCHANGED mp
      PROVE  InTurn(w)'
  BY <1>2, <1>4, MPAnswerInTurn
<1>5. ASSUME NEW n \in Names, createMultipartUpload(w, n)
      PROVE  InTurn(w)'
  <2> DEFINE r == [Idle EXCEPT !.pc = "mpCreate", !.op = "create", !.name = n]
  <2>1. UNCHANGED mp /\ (req' = [req EXCEPT ![w] = r] \/ \E s : Answer(w, s))
    BY <1>5 DEF createMultipartUpload, mpVars
  <2>2. r.pc = "mpCreate" /\ r.op = "create"
    BY DEF Idle
  <2> HIDE DEF r
  <2>3. CASE req' = [req EXCEPT ![w] = r]
    <3>1. req'[w] = r /\ ~OnUpload(r) /\ ~Gathering(r) /\ BucketKept(buckets', objects', r)
      BY <2>2, <2>3, NewRequest DEF OnUpload, Gathering, BucketKept
    <3> QED BY <1>1, <1>2, <2>1, <2>2, <3>1, StartInTurn
  <2> QED BY <1>4, <2>1, <2>3
<1>6. ASSUME NEW u \in Uploads, NEW p \in PartNumbers, NEW body \in Bodies,
             uploadPart(w, u, p, body)
      PROVE  InTurn(w)'
  <2> DEFINE r == [Idle EXCEPT !.pc = "upload", !.op = "part", !.name = owner[u], !.body = body]
             l == [MPIdle EXCEPT !.upload = u, !.part = p]
  <2>1. \/ u \in uploads /\ req' = [req EXCEPT ![w] = r] /\ mp' = [mp EXCEPT ![w] = l]
        \/ UNCHANGED mp /\ \E s : Answer(w, s)
    BY <1>6 DEF uploadPart, resolveUpload
  <2>2. r.pc = "upload" /\ r.op = "part" /\ l.upload = u /\ l.todo = {}
    BY DEF Idle, MPIdle
  <2> HIDE DEF r, l
  <2> QED BY <1>2, <1>4, <2>1, <2>2, UploadBeginInTurn
<1>7. ASSUME NEW u \in Uploads, NEW p \in PartNumbers, NEW s \in Names,
             uploadPartCopy(w, u, p, s)
      PROVE  InTurn(w)'
  <2> DEFINE r == [Idle EXCEPT !.pc = "loadRow", !.op = "partCopy", !.name = owner[u], !.src = s]
             l == [MPIdle EXCEPT !.upload = u, !.part = p]
  <2>1. u \in uploads /\ req' = [req EXCEPT ![w] = r] /\ mp' = [mp EXCEPT ![w] = l]
    BY <1>7 DEF uploadPartCopy, resolveUpload
  <2>2. r.pc = "loadRow" /\ r.op = "partCopy" /\ l.upload = u /\ l.todo = {}
    BY DEF Idle, MPIdle
  <2> HIDE DEF r, l
  <2> QED BY <1>2, <2>1, <2>2, UploadBeginInTurn
<1>8. ASSUME NEW u \in Uploads, NEW list \in CompleteLists, completeMultipartUpload(w, u, list)
      PROVE  InTurn(w)'
  <2> DEFINE r == [Idle EXCEPT !.pc = "mpParts", !.op = "complete", !.name = owner[u]]
             l == [MPIdle EXCEPT !.upload = u, !.list = list]
  <2>1. \/ u \in uploads /\ req' = [req EXCEPT ![w] = r] /\ mp' = [mp EXCEPT ![w] = l]
        \/ UNCHANGED mp /\ \E s : Answer(w, s)
    BY <1>8 DEF completeMultipartUpload, resolveUpload
  <2>2. r.pc = "mpParts" /\ r.op = "complete" /\ l.upload = u /\ l.todo = {}
    BY DEF Idle, MPIdle
  <2> HIDE DEF r, l
  <2> QED BY <1>2, <1>4, <2>1, <2>2, UploadBeginInTurn
<1>9. ASSUME NEW u \in Uploads, abortMultipartUpload(w, u)
      PROVE  InTurn(w)'
  <2> DEFINE r == [Idle EXCEPT !.pc = "mpAll", !.op = "abort", !.name = owner[u]]
             l == [MPIdle EXCEPT !.upload = u]
  <2>1. \/ u \in uploads /\ req' = [req EXCEPT ![w] = r] /\ mp' = [mp EXCEPT ![w] = l]
        \/ UNCHANGED mp /\ \E s : Answer(w, s)
    BY <1>9 DEF abortMultipartUpload, resolveUpload
  <2>2. r.pc = "mpAll" /\ r.op = "abort" /\ l.upload = u /\ l.todo = {}
    BY DEF Idle, MPIdle
  <2> HIDE DEF r, l
  <2> QED BY <1>2, <1>4, <2>1, <2>2, UploadBeginInTurn
<1>10. ASSUME sweepStaleMultipartUploads(w)
       PROVE  InTurn(w)'
  <2>1. PICK stale \in SUBSET uploads :
          /\ req' = [req EXCEPT ![w] = [Idle EXCEPT !.pc = "sweepNext", !.op = "sweep"]]
          /\ mp' = [mp EXCEPT ![w] = [MPIdle EXCEPT !.todo = stale]]
    BY <1>10, Zenon DEF sweepStaleMultipartUploads
  <2> DEFINE r == [Idle EXCEPT !.pc = "sweepNext", !.op = "sweep"]
             l == [MPIdle EXCEPT !.todo = stale]
  <2>2. r.pc = "sweepNext" /\ r.op = "sweep" /\ l.upload = None /\ l.todo = stale
    BY DEF Idle, MPIdle
  <2>3. req' = [req EXCEPT ![w] = r] /\ mp' = [mp EXCEPT ![w] = l]
    BY <2>1
  <2> HIDE DEF r, l
  <2>4. None \notin uploads
    BY <1>2, NoUploadAssumption
  <2>5. OpenUploads(uploads', r, l)
    BY <1>2, <2>2, <2>4 DEF OpenUploads, OnUpload
  <2>6. Carries(parts', r, l)
    BY <2>2, CarriesNothing
  <2> QED BY <2>2, <2>3, <2>5, <2>6, MPInTurn
<1>11. InTurn(w)'
  BY <1>5, <1>6, <1>7, <1>8, <1>9, <1>10, Zenon DEF MPBegin
<1> QED BY <1>3, <1>11

----------------------------------------------------------------------------
(* Requests one after the other: the upload of a part                      *)

\* What the invariant says of a multipart handler.
LEMMA HandlerInTurn ==
  ASSUME MPTypeInv, Serial, NEW w \in Workers
  PROVE  /\ req[w] \in MPRequests /\ mp[w] \in Locals /\ MPFormed(owner, req[w], mp[w])
         /\ InTurn(w) /\ TablesTrue /\ uploads \in SUBSET Uploads
BY WorkerType DEF Serial, MPTypeInv, MPTablesOK

\* CreateMultipartUpload: a row for an upload, which has no parts.
LEMMA CreateInTurn ==
  ASSUME MPTypeInv, Serial, NEW w \in Workers, CreateMultipartUpload(w)
  PROVE  InTurn(w)' /\ TablesTrue'
<1>1. /\ InTurn(w) /\ TablesTrue /\ uploads \in SUBSET Uploads /\ MPFormed(owner, req[w], mp[w])
      /\ req[w].pc = "mpCreate" /\ UNCHANGED <<buckets, objects, chunkMap, parts, partMap, mp>>
  BY HandlerInTurn DEF CreateMultipartUpload, store
<1>2. mp[w] = MPIdle
  BY <1>1 DEF MPFormed, Placed, InTurn, NoLocals
<1>3. uploads \subseteq uploads' /\ uploads' \in SUBSET Uploads /\ \E s : Answer(w, s)
  BY <1>1 DEF CreateMultipartUpload
<1>4. InTurn(w)'
  BY <1>1, <1>2, <1>3, MPAnswerInTurn
<1>5. EndedGone' /\ PartRowsMatch' /\ ETagCoversMap' /\ PlainObjectsInBuckets'
  BY <1>1, <1>3
  DEF TablesTrue, EndedGone, PartRowsMatch, ETagCoversMap, PlainObjectsInBuckets, DocsOf
<1> QED BY <1>4, <1>5 DEF TablesTrue

\* readOldPartChunks.
LEMMA ReadOldPartInTurn ==
  ASSUME MPTypeInv, Serial, NEW w \in Workers, readOldPartChunks(w)
  PROVE  InTurn(w)' /\ TablesTrue'
<1>1. /\ InTurn(w) /\ TablesTrue /\ req[w] \in MPRequests
      /\ req[w].pc = "readOld" /\ req[w].op \in {"part", "partCopy"}
      /\ UNCHANGED <<buckets, objects, chunkMap, uploads, parts, partMap, mp>>
  BY HandlerInTurn, ZenonT(60) DEF readOldPartChunks, store, mpVars, mpStore
<1>2. PICK old : req' = [req EXCEPT ![w] = [req[w] EXCEPT !.pc = "commit", !.old = old]]
  BY Zenon DEF readOldPartChunks
<1> DEFINE r == [req[w] EXCEPT !.pc = "commit", !.old = old]
<1>3. /\ r.pc = "commit" /\ r.op = req[w].op /\ r.chunks = req[w].chunks
      /\ r.body = req[w].body
  BY <1>1 DEF MPRequests
<1>4. req' = [req EXCEPT ![w] = r]
  BY <1>2
<1> HIDE DEF r
<1>5. OpenUploads(uploads', r, mp[w])
  BY <1>1, <1>3 DEF InTurn, OpenUploads, OnUpload
<1>6. Carries(parts', r, mp[w])
  BY <1>1, <1>3 DEF InTurn, Carries, Gathering
<1> QED BY <1>1, <1>3, <1>4, <1>5, <1>6, MPInTurn, TablesStay

\* A multipart handler that goes to another position with the same locals.
LEMMA GotoInTurn ==
  ASSUME MPTypeInv, NEW w \in Workers, NEW p, Goto(w, p), UNCHANGED mp,
         req[w].op \in {"part", "partCopy", "complete", "abort", "sweep"},
         p \notin {"idle", "done", "dropBucket", "readOld", "commit", "mpGather"},
         OpenUploads(uploads', [req[w] EXCEPT !.pc = p], mp[w])
  PROVE  InTurn(w)'
<1> DEFINE r == [req[w] EXCEPT !.pc = p]
<1>1. req' = [req EXCEPT ![w] = r]
  BY DEF Goto, MPTypeInv
<1>2. r.pc = p /\ r.op = req[w].op
  BY DEF MPTypeInv, MPRequests
<1> HIDE DEF r
<1>3. Carries(parts', r, mp[w])
  BY <1>2, CarriesNothing
<1> QED BY <1>1, <1>2, <1>3, MPInTurn DEF r

\* PutMultipartPart: the row and the chunks of a part of an upload with a row.
LEMMA PutPartInTurn ==
  ASSUME MPTypeInv, Serial, NEW w \in Workers, PutMultipartPart(w)
  PROVE  InTurn(w)' /\ TablesTrue'
<1> DEFINE u == mp[w].upload
           p == mp[w].part
<1>1. /\ InTurn(w) /\ TablesTrue /\ req[w] \in MPRequests
      /\ MPFormed(owner, req[w], mp[w])
      /\ req[w].pc = "commit" /\ req[w].op \in {"part", "partCopy"}
      /\ UNCHANGED <<buckets, objects, chunkMap, uploads, mp>>
      /\ \/ /\ parts' = [parts EXCEPT ![u][p] = [etag |-> req[w].body, size |-> Len(req[w].body)]]
            /\ partMap' = [partMap EXCEPT ![u][p] = req[w].chunks]
         \/ UNCHANGED <<parts, partMap>>
      /\ \E q \in {"reap", "discard"} : Goto(w, q)
  BY HandlerInTurn DEF PutMultipartPart, store
<1>2. u \in uploads /\ p \in PartNumbers /\ DocsOf(req[w].chunks) = req[w].body
  BY <1>1 DEF InTurn, OpenUploads, OnUpload, MPFormed, Linked, Carries
<1>3. InTurn(w)'
  <2>1. PICK q \in {"reap", "discard"} : Goto(w, q)
    BY <1>1
  <2>2. OpenUploads(uploads', [req[w] EXCEPT !.pc = q], mp[w])
    BY <1>1 DEF InTurn, OpenUploads, OnUpload, MPRequests
  <2> QED BY <1>1, <2>1, <2>2, GotoInTurn
<1>4. ETagCoversMap' /\ PlainObjectsInBuckets'
  BY <1>1 DEF TablesTrue, ETagCoversMap, PlainObjectsInBuckets, DocsOf
<1>5. CASE UNCHANGED <<parts, partMap>>
  BY <1>1, <1>3, <1>4, <1>5, PartsStay DEF TablesTrue
<1>6. ASSUME parts' = [parts EXCEPT ![u][p] = [etag |-> req[w].body, size |-> Len(req[w].body)]],
             partMap' = [partMap EXCEPT ![u][p] = req[w].chunks]
      PROVE  EndedGone' /\ PartRowsMatch'
  <2> DEFINE row == [etag |-> req[w].body, size |-> Len(req[w].body)]
  <2>1. /\ parts \in [Uploads -> [PartNumbers -> Parts \cup {None}]]
        /\ partMap \in [Uploads -> [PartNumbers -> Seq(Messages)]]
        /\ row.etag = req[w].body /\ uploads \subseteq Uploads
    BY DEF MPTypeInv, MPTablesOK
  <2>2. parts' = [parts EXCEPT ![u][p] = row] /\ partMap' = [partMap EXCEPT ![u][p] = req[w].chunks]
    BY <1>6
  <2> HIDE DEF u, p, row
  <2>3. /\ \A v \in Uploads : v # u => parts'[v] = parts[v] /\ partMap'[v] = partMap[v]
        /\ \A q \in PartNumbers : q # p => parts'[u][q] = parts[u][q] /\ partMap'[u][q] = partMap[u][q]
        /\ parts'[u][p] = row /\ partMap'[u][p] = req[w].chunks
    BY <1>2, <2>1, <2>2
  <2>4. EndedGone'
    BY <1>1, <1>2, <2>3 DEF TablesTrue, EndedGone
  <2>5. ASSUME NEW v \in Uploads, NEW q \in PartNumbers, parts'[v][q] # None
        PROVE  parts'[v][q].etag = DocsOf(partMap'[v][q])
    <3>1. CASE v = u /\ q = p
      BY <1>2, <2>1, <2>3, <3>1
    <3>2. CASE ~(v = u /\ q = p)
      <4>1. parts'[v][q] = parts[v][q] /\ partMap'[v][q] = partMap[v][q]
        BY <2>3, <3>2
      <4> QED BY <1>1, <2>5, <4>1 DEF TablesTrue, PartRowsMatch
    <3> QED BY <3>1, <3>2
  <2> QED BY <2>4, <2>5 DEF PartRowsMatch, DocsOf
<1> QED BY <1>1, <1>3, <1>4, <1>5, <1>6 DEF TablesTrue

----------------------------------------------------------------------------
(* Requests one after the other: a completion                              *)

\* The documents of messages put together.
LEMMA DocsConcat ==
  ASSUME NEW a \in Seq(Messages), NEW b \in Seq(Messages)
  PROVE  /\ DocsOf(a) \in Seq(Documents)
         /\ DocsOf(<<>>) = <<>>
         /\ DocsOf(a \o b) = DocsOf(a) \o DocsOf(b)
<1>1. ASSUME NEW ms \in Seq(Messages)
      PROVE  /\ DocsOf(ms) \in Seq(Documents) /\ Len(DocsOf(ms)) = Len(ms)
             /\ \A i \in 1..Len(ms) : DocsOf(ms)[i] = ms[i].doc
  <2>1. \A i \in 1..Len(ms) : ms[i].doc \in Documents
    <3>1. \A i \in 1..Len(ms) : ms[i] \in Messages
      BY ElementOfSeq
    <3> QED BY <3>1 DEF Messages
  <2>2. DocsOf(ms) \in [1..Len(ms) -> Documents] /\ Len(ms) \in Nat
    BY <2>1 DEF DocsOf
  <2> QED BY <2>1, <2>2 DEF DocsOf
<1>2. DocsOf(<<>>) = <<>>
  BY DEF DocsOf
<1>3. /\ a \o b \in Seq(Messages) /\ Len(a \o b) = Len(a) + Len(b)
      /\ \A i \in 1..Len(a) + Len(b) : (a \o b)[i] = IF i <= Len(a) THEN a[i] ELSE b[i - Len(a)]
  BY ConcatProperties
<1> DEFINE x == DocsOf(a \o b)
           y == DocsOf(a) \o DocsOf(b)
<1>4. /\ y \in Seq(Documents) /\ Len(y) = Len(a) + Len(b)
      /\ \A i \in 1..Len(a) + Len(b) :
           y[i] = IF i <= Len(a) THEN DocsOf(a)[i] ELSE DocsOf(b)[i - Len(a)]
  <2> DEFINE p == DocsOf(a)
             q == DocsOf(b)
  <2>1. p \in Seq(Documents) /\ q \in Seq(Documents) /\ Len(p) = Len(a) /\ Len(q) = Len(b)
    BY <1>1
  <2> HIDE DEF p, q
  <2>2. /\ p \o q \in Seq(Documents) /\ Len(p \o q) = Len(p) + Len(q)
        /\ \A i \in 1..Len(p) + Len(q) : (p \o q)[i] = IF i <= Len(p) THEN p[i] ELSE q[i - Len(p)]
    BY <2>1, ConcatProperties
  <2> QED BY <2>1, <2>2 DEF p, q
<1>5. /\ x \in Seq(Documents) /\ Len(x) = Len(a) + Len(b)
      /\ \A i \in 1..Len(a) + Len(b) : x[i] = (a \o b)[i].doc
  BY <1>1, <1>3
<1>6. Len(a) \in Nat /\ Len(b) \in Nat
  BY LenProperties
<1> HIDE DEF x, y
<1>7. ASSUME NEW i \in 1..Len(x)
      PROVE  x[i] = y[i]
  <2>1. i \in 1..Len(a) + Len(b) /\ x[i] = (a \o b)[i].doc
    BY <1>5
  <2>2. CASE i <= Len(a)
    <3>1. i \in 1..Len(a)
      BY <1>6, <2>1, <2>2
    <3>2. x[i] = a[i].doc /\ y[i] = DocsOf(a)[i]
      BY <1>3, <1>4, <2>1, <2>2
    <3> QED BY <1>1, <3>1, <3>2
  <2>3. CASE ~(i <= Len(a))
    <3>1. i - Len(a) \in 1..Len(b)
      BY <1>6, <2>1, <2>3
    <3>2. x[i] = b[i - Len(a)].doc /\ y[i] = DocsOf(b)[i - Len(a)]
      BY <1>3, <1>4, <2>1, <2>3
    <3> QED BY <1>1, <3>1, <3>2
  <2> QED BY <2>2, <2>3
<1>8. x = y
  BY <1>4, <1>5, <1>7, SeqEqual
<1> QED BY <1>1, <1>2, <1>8 DEF x, y

\* The digests of the listed parts, one after the other.
LEMMA NextDigest ==
  ASSUME NEW l \in Locals, ValidParts(l.list, l.stored),
         NEW k \in Nat, k < Len(l.list)
  PROVE  /\ Digests(l, k) \in Seq(Seq(Documents))
         /\ Digests(l, 0) = <<>>
         /\ Digests(l, k + 1) = Append(Digests(l, k), l.stored[l.list[k + 1].num].etag)
         /\ l.stored[l.list[k + 1].num].etag \in Seq(Documents)
         /\ l.list[k + 1].num \in PartNumbers /\ l.stored[l.list[k + 1].num] # None
<1>1. l.list \in Seq(PartEntries) /\ l.stored \in [PartNumbers -> Parts \cup {None}]
  BY DEF Locals
<1>2. DOMAIN l.list = 1..Len(l.list) /\ Len(l.list) \in Nat
  BY <1>1
<1>3. ASSUME NEW i \in 1..Len(l.list)
      PROVE  /\ l.stored[l.list[i].num].etag \in Seq(Documents)
             /\ l.list[i].num \in PartNumbers /\ l.stored[l.list[i].num] # None
  <2>1. l.list[i].num \in PartNumbers /\ l.stored[l.list[i].num] # None
    BY <1>2 DEF ValidParts
  <2> QED BY <1>1, <2>1 DEF Parts
<1> DEFINE e == [i \in 1..Len(l.list) |-> l.stored[l.list[i].num].etag]
<1>4. \A j \in 0..Len(l.list) : Digests(l, j) = [i \in 1..j |-> e[i]]
  BY <1>2 DEF Digests
<1>5. \A i \in 1..Len(l.list) : e[i] \in Seq(Documents)
  BY <1>3
<1>6. e[k + 1] = l.stored[l.list[k + 1].num].etag /\ k + 1 \in 1..Len(l.list)
  BY <1>2
<1> HIDE DEF e
<1>7. ASSUME NEW S, \A i \in 1..Len(l.list) : e[i] \in S
      PROVE  /\ [i \in 1..k |-> e[i]] \in Seq(S) /\ [i \in 1..0 |-> e[i]] = <<>>
             /\ [i \in 1..(k + 1) |-> e[i]] = Append([i \in 1..k |-> e[i]], e[k + 1])
  <2>1. \A i \in 1..k : e[i] \in S
    BY <1>2, <1>7
  <2>2. \A i \in 1..(k + 1) : e[i] \in S
    BY <1>2, <1>7
  <2> DEFINE a == [i \in 1..k |-> e[i]]
             b == [i \in 1..(k + 1) |-> e[i]]
  <2>3. a \in Seq(S) /\ Len(a) = k /\ \A i \in 1..k : a[i] = e[i]
    BY <2>1
  <2>4. b \in Seq(S) /\ Len(b) = k + 1 /\ \A i \in 1..(k + 1) : b[i] = e[i]
    BY <2>2
  <2>5. [i \in 1..0 |-> e[i]] = <<>>
    OBVIOUS
  <2> HIDE DEF a, b
  <2>6. e[k + 1] \in S
    BY <1>6, <1>7
  <2>7. /\ Append(a, e[k + 1]) \in Seq(S) /\ Len(Append(a, e[k + 1])) = k + 1
        /\ \A i \in 1..k : Append(a, e[k + 1])[i] = a[i]
        /\ Append(a, e[k + 1])[k + 1] = e[k + 1]
    BY <2>3, <2>6, Appended
  <2>8. \A i \in 1..(k + 1) : i \in 1..k \/ i = k + 1
    OBVIOUS
  <2>9. \A i \in 1..Len(b) : b[i] = Append(a, e[k + 1])[i]
    BY <2>3, <2>4, <2>7, <2>8
  <2>10. b = Append(a, e[k + 1])
    BY <2>4, <2>7, <2>9, SeqEqual
  <2> QED BY <2>3, <2>5, <2>10 DEF a, b
<1>8. k \in 0..Len(l.list) /\ 0 \in 0..Len(l.list) /\ k + 1 \in 0..Len(l.list)
  BY <1>2
<1> QED BY <1>3, <1>4, <1>5, <1>6, <1>7, <1>8

\* ListMultipartParts: nothing is gathered yet.
LEMMA ListPartsInTurn ==
  ASSUME MPTypeInv, Serial, NEW w \in Workers, ListMultipartParts(w)
  PROVE  InTurn(w)' /\ TablesTrue'
<1>1. /\ InTurn(w) /\ TablesTrue /\ req[w] \in MPRequests /\ mp[w] \in Locals
      /\ MPFormed(owner, req[w], mp[w]) /\ uploads' \in SUBSET Uploads
      /\ req[w].pc = "mpParts"
      /\ UNCHANGED <<buckets, objects, chunkMap, uploads, parts, partMap>>
  BY HandlerInTurn DEF ListMultipartParts, store, mpStore
<1>2. CASE \E s : MPAnswer(w, s)
  BY <1>1, <1>2, MPAnswerInTurn, TablesStay DEF MPAnswer
<1> DEFINE stored == parts[mp[w].upload]
           r == [req[w] EXCEPT !.pc = "mpGather"]
           l == [mp[w] EXCEPT !.stored = stored]
<1>3. CASE ValidParts(mp[w].list, stored) /\ Goto(w, "mpGather")
           /\ mp' = [mp EXCEPT ![w].stored = stored]
  <2>1. /\ r.pc = "mpGather" /\ r.op = req[w].op /\ r.chunks = req[w].chunks
        /\ l.upload = mp[w].upload /\ l.todo = mp[w].todo /\ l.list = mp[w].list
        /\ l.got = mp[w].got /\ l.stored = stored
    BY <1>1 DEF MPRequests, Locals
  <2>2. req' = [req EXCEPT ![w] = r] /\ mp' = [mp EXCEPT ![w] = l]
    BY <1>3 DEF MPTypeInv, Goto
  <2>3. /\ req[w].op = "complete" /\ mp[w].got = 0 /\ req[w].chunks = <<>>
        /\ mp[w].upload \in Uploads
    BY <1>1 DEF MPFormed, Placed, Linked, Lists, OnUpload
  <2>4. stored \in [PartNumbers -> Parts \cup {None}] /\ mp[w].list \in Seq(PartEntries)
    BY <1>1, <2>3 DEF MPTypeInv, MPTablesOK, Locals
  <2>5. l \in Locals
    BY <1>1, <2>4 DEF Locals
  <2>6. l.list # <<>> /\ ValidParts(l.list, l.stored)
    BY <1>3, <2>1 DEF ValidParts
  <2> HIDE DEF r, l, stored
  <2>7. 0 < Len(l.list) /\ 0 \in 0..Len(l.list)
    BY <2>1, <2>4, <2>6
  <2>8. Digests(l, 0) = <<>>
    BY <2>5, <2>6, <2>7, NextDigest
  <2>9. FlattenSeq(<<>>) = <<>> /\ DocsOf(<<>>) = <<>>
    BY FlattenAppend, DocsConcat, EmptySeq
  <2>10. DocsOf(r.chunks) = FlattenSeq(Digests(l, l.got))
    BY <2>1, <2>3, <2>8, <2>9
  <2>11. Carries(parts', r, l)
    BY <1>1, <2>1, <2>3, <2>6, <2>7, <2>10 DEF Carries, stored
  <2>12. OpenUploads(uploads', r, l)
    BY <1>1, <2>1, <2>3 DEF InTurn, OpenUploads, OnUpload
  <2> QED BY <1>1, <2>1, <2>2, <2>3, <2>11, <2>12, MPInTurn, TablesStay
<1> QED BY <1>2, <1>3 DEF ListMultipartParts

\* gatherPartChunks: what is gathered grows by the chunks of the next part, which
\* hold what its ETag says.
LEMMA GatherInTurn ==
  ASSUME MPTypeInv, Serial, NEW w \in Workers, gatherPartChunks(w)
  PROVE  InTurn(w)' /\ TablesTrue'
<1>1. /\ InTurn(w) /\ TablesTrue /\ req[w] \in MPRequests /\ mp[w] \in Locals
      /\ MPFormed(owner, req[w], mp[w]) /\ uploads' \in SUBSET Uploads
      /\ req[w].pc = "mpGather"
      /\ UNCHANGED <<buckets, objects, chunkMap, uploads, parts, partMap>>
  BY HandlerInTurn, Zenon DEF gatherPartChunks, store, mpStore
<1>2. TablesTrue'
  BY <1>1, TablesStay
<1>3. CASE MPAnswer(w, "error")
  BY <1>1, <1>2, <1>3, MPAnswerInTurn DEF MPAnswer
<1> DEFINE i == mp[w].got + 1
           u == mp[w].upload
           list == mp[w].list
           x == partMap[u][list[i].num]
           q == IF i = Len(list) THEN "readOld" ELSE req[w].pc
           ms == req[w].chunks \o x
           r == [req[w] EXCEPT !.pc = q, !.chunks = ms]
           l == [mp[w] EXCEPT !.got = i]
           e == mp[w].stored[list[i].num].etag
           d == Digests(mp[w], mp[w].got)
<1>4. CASE /\ req' = [req EXCEPT ![w].pc = IF i = Len(list) THEN "readOld" ELSE @,
                                 ![w].chunks = @ \o x]
           /\ mp' = [mp EXCEPT ![w].got = i]
  <2>1. /\ req[w].op = "complete" /\ mp[w].got \in Nat /\ mp[w].got < Len(list)
        /\ u \in Uploads /\ Gathering(req[w]) /\ list \in Seq(PartEntries)
    BY <1>1 DEF MPFormed, Placed, Linked, OnUpload, Gathering, Locals
  <2>2. /\ mp[w].stored = parts[u] /\ ValidParts(list, mp[w].stored)
        /\ DocsOf(req[w].chunks) = FlattenSeq(d)
    BY <1>1, <2>1 DEF InTurn, Carries
  <2>3. /\ d \in Seq(Seq(Documents)) /\ e \in Seq(Documents)
        /\ Digests(mp[w], i) = Append(d, e)
        /\ list[i].num \in PartNumbers /\ mp[w].stored[list[i].num] # None
    <3> HIDE DEF u
    <3> QED BY <1>1, <2>1, <2>2, NextDigest, Zenon
  <2>4. i \in Nat /\ i \in 1..Len(list) /\ i \in 0..Len(list)
    BY <2>1
  <2>5. e = DocsOf(x)
    <3> HIDE DEF i, u, list
    <3> QED BY <1>1, <2>1, <2>2, <2>3, Zenon DEF TablesTrue, PartRowsMatch
  <2>6. x \in Seq(Messages) /\ req[w].chunks \in Seq(Messages)
    <3> HIDE DEF i, u, list
    <3> QED BY <1>1, <2>1, <2>3 DEF MPTypeInv, MPTablesOK, MPRequests
  <2>7. req' = [req EXCEPT ![w] = r] /\ mp' = [mp EXCEPT ![w] = l]
    <3>1. req \in [Workers -> MPRequests]
      BY DEF MPTypeInv
    <3> HIDE DEF x, i, list
    <3> QED BY <1>4, <3>1, ZenonT(60) DEF MPRequests
  <2>8. q \in {"readOld", "mpGather"} /\ (q # "mpGather" => i = Len(list))
    BY <1>1, <2>1
  <2> HIDE DEF ms, q, x, e, d
  <2>9. r.pc = q /\ r.chunks = ms /\ r.op = req[w].op
    BY <1>1 DEF MPRequests
  <2> HIDE DEF i
  <2>10. /\ l.got = i /\ l.upload = u /\ l.list = list
         /\ l.stored = mp[w].stored /\ l.todo = mp[w].todo
    BY <1>1 DEF Locals
  <2> HIDE DEF r, l, u, list
  <2>11. Digests(l, i) = Digests(mp[w], i)
    BY <2>10, Zenon DEF Digests, list
  <2>12. DocsOf(ms) = DocsOf(req[w].chunks) \o DocsOf(x)
    BY <2>6, DocsConcat DEF ms
  <2>13. FlattenSeq(Append(d, e)) = FlattenSeq(d) \o e
    BY <2>3, FlattenAppend
  <2>14. DocsOf(r.chunks) = FlattenSeq(Digests(l, l.got))
    BY <2>2, <2>3, <2>5, <2>9, <2>10, <2>11, <2>12, <2>13, Zenon
  <2>15. Carries(parts', r, l)
    BY <1>1, <2>1, <2>2, <2>4, <2>8, <2>9, <2>10, <2>14 DEF Carries, Gathering
  <2>16. OpenUploads(uploads', r, l)
    BY <1>1, <2>1, <2>8, <2>9, <2>10 DEF InTurn, OpenUploads, OnUpload, u
  <2> QED BY <1>2, <2>1, <2>7, <2>8, <2>9, <2>15, <2>16, MPInTurn
<1> QED BY <1>3, <1>4, ZenonT(60) DEF gatherPartChunks

\* The tables of parts when an upload loses its row and its parts.
LEMMA UploadEnds ==
  ASSUME MPTypeInv, TablesTrue, NEW u \in Uploads,
         uploads' = uploads \ {u},
         parts' = [parts EXCEPT ![u] = NoParts], partMap' = [partMap EXCEPT ![u] = NoPartChunks]
  PROVE  EndedGone' /\ PartRowsMatch'
<1>1. /\ parts'[u] = NoParts /\ partMap'[u] = NoPartChunks
      /\ \A v \in Uploads : v # u => parts'[v] = parts[v] /\ partMap'[v] = partMap[v]
  BY DEF MPTypeInv, MPTablesOK
<1>2. EndedGone'
  BY <1>1 DEF TablesTrue, EndedGone
<1>3. ASSUME NEW v \in Uploads, NEW p \in PartNumbers, parts'[v][p] # None
      PROVE  parts'[v][p].etag = DocsOf(partMap'[v][p])
  <2>1. v # u
    BY <1>1, <1>3 DEF NoParts
  <2>2. parts'[v][p] = parts[v][p] /\ partMap'[v][p] = partMap[v][p]
    BY <1>1, <2>1
  <2> QED BY <1>3, <2>2 DEF TablesTrue, PartRowsMatch
<1> QED BY <1>2, <1>3 DEF PartRowsMatch, DocsOf

\* FinalizeMultipartUpload: the ETag of the object names the digests gathered.
LEMMA FinalizeInTurn ==
  ASSUME MPTypeInv, Serial, NEW w \in Workers, FinalizeMultipartUpload(w)
  PROVE  InTurn(w)' /\ TablesTrue'
<1>1. /\ InTurn(w) /\ TablesTrue /\ req[w] \in MPRequests /\ mp[w] \in Locals
      /\ MPFormed(owner, req[w], mp[w]) /\ uploads \in SUBSET Uploads
      /\ req[w].pc = "commit" /\ req[w].op = "complete" /\ UNCHANGED buckets
  BY HandlerInTurn DEF FinalizeMultipartUpload
<1>2. CASE UNCHANGED <<objects, chunkMap, uploads, parts, partMap>> /\ MPAnswer(w, "error")
  BY <1>1, <1>2, MPAnswerInTurn, TablesStay DEF MPAnswer
<1>3. CASE ~(UNCHANGED <<objects, chunkMap, uploads, parts, partMap>> /\ MPAnswer(w, "error"))
  <2> DEFINE u == mp[w].upload
             n == req[w].name
             ms == req[w].chunks
             row == AssembledRow(w)
             list == mp[w].list
  <2>1. /\ objects' = [objects EXCEPT ![n] = row] /\ chunkMap' = [chunkMap EXCEPT ![n] = ms]
        /\ uploads' = uploads \ {u}
        /\ parts' = [parts EXCEPT ![u] = NoParts]
        /\ partMap' = [partMap EXCEPT ![u] = NoPartChunks]
        /\ Goto(w, "reap") /\ UNCHANGED mp
    BY <1>3 DEF FinalizeMultipartUpload, replaceObjectChunksTx
  <2>2. u \in Uploads /\ n \in Names /\ list \in Seq(PartEntries)
    BY <1>1 DEF MPFormed, Linked, OnUpload, Locals
  <2>3. /\ ValidParts(list, mp[w].stored) /\ mp[w].got = Len(list)
        /\ DocsOf(ms) = FlattenSeq(Digests(mp[w], Len(list)))
    BY <1>1 DEF InTurn, Carries, Gathering
  <2>4. row.size = Len(ms) /\ row.etag.parts = Len(list)
    BY DEF AssembledRow
  <2>5. DOMAIN list = 1..Len(list) /\ Len(list) # 0
    BY <2>2, <2>3 DEF ValidParts
  <2>6. row.etag.digests = Digests(mp[w], Len(list))
    BY <2>5 DEF AssembledRow, Digests
  <2>7. InTurn(w)'
    <3>1. OpenUploads(uploads', [req[w] EXCEPT !.pc = "reap"], mp[w])
      BY <1>1, <2>1 DEF InTurn, OpenUploads, OnUpload, MPRequests
    <3> QED BY <1>1, <2>1, <3>1, GotoInTurn
  <2> HIDE DEF u, n, ms, row, list
  <2>8. ETagCoversMap' /\ PlainObjectsInBuckets'
    BY <1>1, <2>1, <2>2, <2>3, <2>4, <2>5, <2>6, NewVersion
  <2>9. EndedGone' /\ PartRowsMatch'
    BY <1>1, <2>1, <2>2, UploadEnds
  <2> QED BY <2>7, <2>8, <2>9 DEF TablesTrue
<1> QED BY <1>2, <1>3

----------------------------------------------------------------------------
(* Requests one after the other: aborts and the janitor                    *)

\* The end of an abort: the sweep's other uploads still have rows.
LEMMA AbortDoneInTurn ==
  ASSUME MPTypeInv, NEW w \in Workers, NEW s, AbortDone(w, s),
         uploads' \in SUBSET Uploads, req[w].op \in {"abort", "sweep"},
         mp[w].todo \subseteq uploads' \ {mp[w].upload}
  PROVE  InTurn(w)'
<1>1. CASE MPAnswer(w, s)
  BY <1>1, MPAnswerInTurn DEF MPAnswer
<1>2. CASE Goto(w, "sweepNext") /\ UNCHANGED mp
  <2>1. OpenUploads(uploads', [req[w] EXCEPT !.pc = "sweepNext"], mp[w])
    BY DEF OpenUploads, OnUpload, MPTypeInv, MPRequests
  <2> QED BY <1>2, <2>1, GotoInTurn
<1> QED BY <1>1, <1>2 DEF AbortDone

\* sweepNext: the next upload of the sweep has a row.
LEMMA SweepNextInTurn ==
  ASSUME MPTypeInv, Serial, NEW w \in Workers, sweepNext(w)
  PROVE  InTurn(w)' /\ TablesTrue'
<1>1. /\ InTurn(w) /\ TablesTrue /\ req[w] \in MPRequests /\ mp[w] \in Locals
      /\ MPFormed(owner, req[w], mp[w])
      /\ req[w].pc = "sweepNext"
      /\ UNCHANGED <<buckets, objects, chunkMap, uploads, parts, partMap>>
  BY HandlerInTurn DEF sweepNext, store, mpStore
<1>2. PICK u \in mp[w].todo :
        /\ req' = [req EXCEPT ![w] = [req[w] EXCEPT !.pc = "mpAll", !.name = owner[u]]]
        /\ mp' = [mp EXCEPT ![w] = [mp[w] EXCEPT !.upload = u, !.all = {}, !.todo = @ \ {u}]]
  BY DEF sweepNext, MPTypeInv
<1> DEFINE r == [req[w] EXCEPT !.pc = "mpAll", !.name = owner[u]]
           l == [mp[w] EXCEPT !.upload = u, !.all = {}, !.todo = @ \ {u}]
<1>3. r.pc = "mpAll" /\ r.op = req[w].op /\ l.upload = u /\ l.todo = mp[w].todo \ {u}
  BY <1>1 DEF MPRequests, Locals
<1>4. req' = [req EXCEPT ![w] = r] /\ mp' = [mp EXCEPT ![w] = l]
  BY <1>2
<1>5. req[w].op \in {"abort", "sweep"}
  BY <1>1 DEF MPFormed, Placed
<1> HIDE DEF r, l
<1>6. OpenUploads(uploads', r, l)
  BY <1>1, <1>3 DEF InTurn, OpenUploads
<1>7. Carries(parts', r, l)
  BY <1>3, CarriesNothing
<1> QED BY <1>1, <1>3, <1>4, <1>5, <1>6, <1>7, MPInTurn, TablesStay

\* AllMultipartChunks.
LEMMA AllChunksInTurn ==
  ASSUME MPTypeInv, Serial, NEW w \in Workers, AllMultipartChunks(w)
  PROVE  InTurn(w)' /\ TablesTrue'
<1>1. /\ InTurn(w) /\ TablesTrue /\ req[w] \in MPRequests /\ mp[w] \in Locals
      /\ MPFormed(owner, req[w], mp[w]) /\ uploads \in SUBSET Uploads
      /\ req[w].pc = "mpAll"
      /\ UNCHANGED <<buckets, objects, chunkMap, uploads, parts, partMap>>
  BY HandlerInTurn DEF AllMultipartChunks, store, mpStore
<1>2. req[w].op \in {"abort", "sweep"} /\ mp[w].todo \subseteq uploads \ {mp[w].upload}
  BY <1>1 DEF MPFormed, Placed, InTurn, OpenUploads
<1>3. TablesTrue'
  BY <1>1, TablesStay
<1>4. CASE AbortDone(w, "error")
  BY <1>1, <1>2, <1>3, <1>4, AbortDoneInTurn
<1> DEFINE all == UNION {Range(partMap[mp[w].upload][p]) : p \in PartNumbers}
<1>5. CASE Goto(w, "mpReap") /\ mp' = [mp EXCEPT ![w].all = all]
  <2> DEFINE r == [req[w] EXCEPT !.pc = "mpReap"]
             l == [mp[w] EXCEPT !.all = all]
  <2>1. req' = [req EXCEPT ![w] = r] /\ mp' = [mp EXCEPT ![w] = l]
    <3> HIDE DEF all
    <3> QED BY <1>5 DEF Goto, MPTypeInv
  <2> HIDE DEF all
  <2>2. r.pc = "mpReap" /\ r.op = req[w].op /\ l.upload = mp[w].upload /\ l.todo = mp[w].todo
    BY <1>1 DEF MPRequests, Locals
  <2> HIDE DEF r, l
  <2>3. OpenUploads(uploads', r, l) /\ Carries(parts', r, l)
    BY <1>1, <1>2, <2>2, CarriesNothing DEF InTurn, OpenUploads, OnUpload
  <2> QED BY <1>2, <1>3, <2>1, <2>2, <2>3, MPInTurn
<1> QED BY <1>4, <1>5, Zenon DEF AllMultipartChunks

\* abortReap.
LEMMA AbortReapInTurn ==
  ASSUME MPTypeInv, Serial, NEW w \in Workers, abortReap(w)
  PROVE  InTurn(w)' /\ TablesTrue'
<1>1. /\ InTurn(w) /\ TablesTrue /\ req[w] \in MPRequests
      /\ MPFormed(owner, req[w], mp[w]) /\ req[w].pc = "mpReap"
      /\ UNCHANGED <<buckets, objects, chunkMap, uploads, parts, partMap, mp>>
      /\ Goto(w, "mpDrop")
  BY HandlerInTurn DEF abortReap, store, mpVars, mpStore
<1>2. req[w].op \in {"abort", "sweep"}
  BY <1>1 DEF MPFormed, Placed
<1>3. OpenUploads(uploads', [req[w] EXCEPT !.pc = "mpDrop"], mp[w])
  BY <1>1 DEF InTurn, OpenUploads, OnUpload, MPRequests
<1> QED BY <1>1, <1>2, <1>3, GotoInTurn, TablesStay

\* DeleteMultipartUpload: the row goes, and the parts with it.
LEMMA DropInTurn ==
  ASSUME MPTypeInv, Serial, NEW w \in Workers, DeleteMultipartUpload(w)
  PROVE  InTurn(w)' /\ TablesTrue'
<1>1. /\ InTurn(w) /\ TablesTrue /\ req[w] \in MPRequests
      /\ MPFormed(owner, req[w], mp[w]) /\ uploads \in SUBSET Uploads
      /\ req[w].pc = "mpDrop" /\ UNCHANGED <<buckets, objects, chunkMap>>
      /\ \E s : AbortDone(w, s)
  BY HandlerInTurn DEF DeleteMultipartUpload, store
<1>2. /\ req[w].op \in {"abort", "sweep"} /\ mp[w].todo \subseteq uploads \ {mp[w].upload}
      /\ mp[w].upload \in Uploads
  BY <1>1 DEF MPFormed, Placed, Linked, OnUpload, InTurn, OpenUploads
<1>3. ETagCoversMap' /\ PlainObjectsInBuckets'
  BY <1>1 DEF TablesTrue, ETagCoversMap, PlainObjectsInBuckets, DocsOf
<1>4. CASE UNCHANGED <<uploads, parts, partMap>>
  BY <1>1, <1>2, <1>4, AbortDoneInTurn, TablesStay
<1>5. CASE ~UNCHANGED <<uploads, parts, partMap>>
  <2>1. /\ uploads' = uploads \ {mp[w].upload}
        /\ parts' = [parts EXCEPT ![mp[w].upload] = NoParts]
        /\ partMap' = [partMap EXCEPT ![mp[w].upload] = NoPartChunks]
    BY <1>5 DEF DeleteMultipartUpload
  <2>2. EndedGone' /\ PartRowsMatch'
    BY <1>1, <1>2, <2>1, UploadEnds
  <2>3. uploads' \in SUBSET Uploads /\ mp[w].todo \subseteq uploads' \ {mp[w].upload}
    BY <1>1, <1>2, <2>1
  <2>4. InTurn(w)'
    BY <1>1, <1>2, <2>3, AbortDoneInTurn
  <2> QED BY <1>3, <2>2, <2>4 DEF TablesTrue
<1> QED BY <1>4, <1>5

----------------------------------------------------------------------------
(* Requests one after the other: what holds                                *)

\* The process dies: all handlers rest.
LEMMA CrashInTurn ==
  ASSUME MPTypeInv, Serial, Crash, mp' = [w \in Workers |-> MPIdle], UNCHANGED mpStore
  PROVE  Serial'
<1>1. TablesTrue'
  BY TablesStay DEF Serial, Crash, store, mpStore
<1>2. ASSUME NEW w \in Workers
      PROVE  InTurn(w)'
  <2>1. req'[w] = Idle /\ mp'[w] = MPIdle /\ Idle.pc = "idle"
    BY MPIdleType DEF Crash
  <2>2. uploads' \in SUBSET Uploads
    BY DEF MPTypeInv, MPTablesOK, mpStore
  <2> QED BY <2>1, <2>2, RestInTurn
<1> QED BY <1>1, <1>2 DEF Serial

\* Serial holds initially.
LEMMA SerialInit ==
  ASSUME MPInit
  PROVE  Serial
<1>1. ASSUME NEW w \in Workers
      PROVE  InTurn(w)
  <2>1. req[w] = Idle /\ mp[w] = MPIdle /\ Idle.pc = "idle"
    BY MPIdleType DEF MPInit, Init
  <2>2. ~OnUpload(req[w]) /\ ~Gathering(req[w]) /\ uploads \in SUBSET Uploads
    BY <2>1 DEF OnUpload, Gathering, MPInit
  <2>3. NoLocals(req[w], mp[w]) /\ OpenUploads(uploads, req[w], mp[w])
    BY <2>1, <2>2, NoLocalsKept DEF NoLocals
  <2>4. BucketKept(buckets, objects, req[w]) /\ Carries(parts, req[w], mp[w])
    BY <2>1, <2>2 DEF BucketKept, Carries
  <2> QED BY <2>3, <2>4 DEF InTurn
<1>2. EndedGone /\ PartRowsMatch /\ ETagCoversMap /\ PlainObjectsInBuckets
  BY DEF MPInit, Init, EndedGone, PartRowsMatch, ETagCoversMap, PlainObjectsInBuckets, NoParts
<1> QED BY <1>1, <1>2 DEF Serial, TablesTrue

\* Every step of the only worker keeps Serial.
LEMMA SerialStep ==
  ASSUME Alone, MPTypeInv, Serial, [MPNext]_allVars
  PROVE  Serial'
<1>1. ASSUME NEW w \in Workers, MPStep(w)
      PROVE  InTurn(w)' /\ TablesTrue'
  BY <1>1, CreateInTurn, ReadOldPartInTurn, PutPartInTurn, ListPartsInTurn, GatherInTurn,
     FinalizeInTurn, SweepNextInTurn, AllChunksInTurn, AbortReapInTurn, DropInTurn, Zenon
  DEF MPStep
<1>2. ASSUME NEW w \in Workers, ObjectStep(w) \/ MPBegin(w) \/ MPStep(w)
      PROVE  Serial'
  BY <1>1, <1>2, ObjectInTurn, MPBeginInTurn, OnlyWorker
<1>3. CASE UNCHANGED allVars
  BY <1>3
  DEF allVars, vars, store, telegram, mpVars, mpStore, Serial, InTurn, NoLocals, OpenUploads,
      BucketKept, Carries, TablesTrue, EndedGone, PartRowsMatch, ETagCoversMap,
      PlainObjectsInBuckets, OnUpload, Gathering, Digests, DocsOf
<1> QED BY <1>2, <1>3, CrashInTurn, Zenon DEF MPNext

\* Requests one after the other keep Serial, whatever fails and whenever the
\* process dies.
LEMMA SerialHolds ==
  ASSUME Alone
  PROVE  MPSpec => [](MPTypeInv /\ Serial)
<1>1. MPInit => MPTypeInv /\ Serial
  BY MPTypeInvInit, SerialInit
<1>2. MPTypeInv /\ Serial /\ [MPNext]_allVars => (MPTypeInv /\ Serial)'
  BY MPTypeInvStep, SerialStep
<1> QED BY <1>1, <1>2, PTL DEF MPSpec

\* Of requests one after the other, with failures and crashes between and within
\* them, every object's ETag describes the bytes its chunk map holds: a
\* completion puts together what the part ETags it has checked stand for.
THEOREM SequentialETags ==
  ASSUME Alone
  PROVE  MPSpec => []ETagCoversMap
<1>1. Serial => ETagCoversMap
  BY DEF Serial, TablesTrue
<1> QED BY <1>1, SerialHolds, PTL

\* Of requests one after the other, failures and crashes included, an upload
\* that was completed or aborted has no part chunks.
THEOREM SequentialUploadsEnd ==
  ASSUME Alone
  PROVE  MPSpec => []NoRowsOfEndedUpload
<1>1. Serial => NoRowsOfEndedUpload
  BY DEF Serial, TablesTrue, EndedGone, NoRowsOfEndedUpload
<1> QED BY <1>1, SerialHolds, PTL

\* Of requests one after the other, failures and crashes included, an object
\* stored by PUT or COPY is in an existing bucket.
THEOREM SequentialBuckets ==
  ASSUME Alone
  PROVE  MPSpec => []PlainObjectsInBuckets
<1>1. Serial => PlainObjectsInBuckets
  BY DEF Serial, TablesTrue
<1> QED BY <1>1, SerialHolds, PTL

----------------------------------------------------------------------------
(* Requests one after the other, without failures: the invariant           *)

\* Completions list all parts: the lists in ascending order do.
ListsAll ==
  \A list \in CompleteLists :
    (\A i \in 1..Len(list) - 1 : list[i].num < list[i + 1].num)
      => PartNumbers \subseteq {list[i].num : i \in DOMAIN list}

\* The messages of the parts with chunk maps ps.
PartMessages(ps) == UNION {Range(ps[p]) : p \in PartNumbers}

\* The messages the chunk maps cm of the objects and pm of the parts refer to.
Used(cm, pm) ==
  (UNION {Range(cm[n]) : n \in Names}) \cup (UNION {PartMessages(pm[u]) : u \in Uploads})

\* Objects and parts share no message.
NotShared(cm, pm) ==
  \A n \in Names, u \in Uploads : Range(cm[n]) \cap PartMessages(pm[u]) = {}

\* The messages a handler has sent and not committed, or has superseded and not
\* removed.
Spare(r) ==
  IF r.pc \in {"readOld", "commit", "discard"} /\ r.op # "complete" THEN Range(r.chunks)
  ELSE IF r.pc = "reap" THEN Range(r.old) ELSE {}

\* The messages it has removed and whose rows are still there.
Missing(r, l) ==
  IF r.pc = "delCommit" THEN Range(r.old) ELSE IF r.pc = "mpDrop" THEN l.all ELSE {}

\* The messages used, but for those a handler has removed, and its spare ones
\* are in the channel, and if completions list all parts no others are.
Accounts(used, ch, r, l) ==
  /\ Spare(r) \cap used = {}
  /\ (used \ Missing(r, l)) \cup Spare(r) \subseteq ch
  /\ ListsAll => ch \subseteq (used \ Missing(r, l)) \cup Spare(r)

\* The messages of the parts a completion has gathered.
Gathered(ps, l) == UNION {Range(ps[l.list[i].num]) : i \in 1..l.got}

\* The lists of messages a handler has read are those of the tables.
ListsCurrent(cm, pm, r, l) ==
  /\ r.pc = "commit" /\ r.op \in {"part", "partCopy"} => r.old = pm[l.upload][l.part]
  /\ r.pc = "commit" /\ r.op \notin {"part", "partCopy"} => r.old = cm[r.name]
  /\ r.pc \in {"delReap", "delCommit"} => r.old = cm[r.name]
  /\ r.pc \in {"mpReap", "mpDrop"} => l.all = PartMessages(pm[l.upload])
  /\ r.pc = "mpParts" \/ Gathering(r) => l.list \in CompleteLists
  /\ Gathering(r) => Range(r.chunks) = Gathered(pm[l.upload], l)

\* What a GET has read is current, and so is what it answers.
ReadsCurrent(obs, cm, r) ==
  r.op = "get" =>
    /\ r.pc \in {"loadRow", "loadChunks", "stream"} => r.src = r.name /\ r.name \in Names
    /\ r.pc \in {"loadChunks", "stream"} => r.row = obs[r.src] /\ r.row # None
    /\ r.pc = "stream" => r.read = cm[r.src]
    /\ r.pc = "done" =>
         IF obs[r.name] = None
           THEN r.status = "missing"
           ELSE /\ r.status \in {"ok", "conflict"}
                /\ r.status = "ok" => r.row = obs[r.name] /\ r.body = DocsOf(cm[r.name])

InOrder(w) ==
  /\ Accounts(Used(chunkMap, partMap), channel, req[w], mp[w])
  /\ ListsCurrent(chunkMap, partMap, req[w], mp[w])
  /\ ReadsCurrent(objects, chunkMap, req[w])

Clean == NotShared(chunkMap, partMap) /\ \A w \in Workers : InOrder(w)

----------------------------------------------------------------------------
(* Requests one after the other, without failures: the messages in use     *)

\* Chunk maps of which no two entries share a message.
Disjoint(cm, pm) ==
  /\ NotShared(cm, pm)
  /\ \A n, m \in Names : n # m => Range(cm[n]) \cap Range(cm[m]) = {}
  /\ \A u, v \in Uploads, p, q \in PartNumbers :
       <<u, p>> # <<v, q>> => Range(pm[u][p]) \cap Range(pm[v][q]) = {}

\* The chunk maps the tables hold.
ObjectMaps == [Names -> Seq(Messages)]

PartMaps == [Uploads -> [PartNumbers -> Seq(Messages)]]

\* The members of PartMessages and Used.
LEMMA UsedMember ==
  ASSUME NEW cm, NEW pm, NEW m
  PROVE  /\ \A ps : m \in PartMessages(ps) <=> \E p \in PartNumbers : m \in Range(ps[p])
         /\ m \in Used(cm, pm) <=> \/ \E n \in Names : m \in Range(cm[n])
                                   \/ \E u \in Uploads : m \in PartMessages(pm[u])
<1>1. \A ps : m \in PartMessages(ps) <=> \E p \in PartNumbers : m \in Range(ps[p])
  BY DEF PartMessages
<1>2. m \in Used(cm, pm) <=> \/ \E n \in Names : m \in Range(cm[n])
                             \/ \E u \in Uploads : m \in PartMessages(pm[u])
  BY DEF Used
<1> QED BY <1>1, <1>2

\* The parts of two uploads share no message.
LEMMA UploadsApart ==
  ASSUME NEW cm, NEW pm, Disjoint(cm, pm), NEW u \in Uploads, NEW v \in Uploads, u # v
  PROVE  PartMessages(pm[u]) \cap PartMessages(pm[v]) = {}
<1> SUFFICES ASSUME NEW m \in PartMessages(pm[u]), m \in PartMessages(pm[v])
             PROVE FALSE
  OBVIOUS
<1>1. PICK p \in PartNumbers, q \in PartNumbers : m \in Range(pm[u][p]) /\ m \in Range(pm[v][q])
  BY UsedMember
<1>2. <<u, p>> # <<v, q>>
  OBVIOUS
<1> QED BY <1>1, <1>2 DEF Disjoint

\* An object gets chunks that nothing uses.
LEMMA ObjectReplaced ==
  ASSUME NEW cm \in ObjectMaps, NEW pm \in PartMaps, Disjoint(cm, pm), NEW n \in Names,
         NEW ms, Range(ms) \cap Used(cm, pm) = {}
  PROVE  /\ Used([cm EXCEPT ![n] = ms], pm) = (Used(cm, pm) \ Range(cm[n])) \cup Range(ms)
         /\ NotShared([cm EXCEPT ![n] = ms], pm)
<1> DEFINE dm == [cm EXCEPT ![n] = ms]
<1>1. dm[n] = ms /\ \A k \in Names : k # n => dm[k] = cm[k]
  BY DEF ObjectMaps
<1> HIDE DEF dm
<1>2. ASSUME NEW m
      PROVE  m \in Used(dm, pm) <=> m \in (Used(cm, pm) \ Range(cm[n])) \cup Range(ms)
  <2>1. ASSUME m \in Range(cm[n])
        PROVE  /\ \A k \in Names : k # n => m \notin Range(cm[k])
               /\ \A u \in Uploads : m \notin PartMessages(pm[u])
               /\ m \notin Range(ms)
    BY <2>1, UsedMember DEF Disjoint, NotShared
  <2>2. CASE m \in Range(cm[n])
    BY <1>1, <2>1, <2>2, UsedMember
  <2>3. CASE m \notin Range(cm[n])
    BY <1>1, <2>3, UsedMember
  <2> QED BY <2>2, <2>3
<1>3. Used(dm, pm) = (Used(cm, pm) \ Range(cm[n])) \cup Range(ms)
  BY <1>2
<1>4. ASSUME NEW k \in Names, NEW u \in Uploads, NEW m \in Range(dm[k]), m \in PartMessages(pm[u])
      PROVE  FALSE
  <2>1. CASE k = n
    BY <1>1, <1>4, <2>1, UsedMember
  <2>2. CASE k # n
    BY <1>1, <1>4, <2>2 DEF Disjoint, NotShared
  <2> QED BY <2>1, <2>2
<1>5. NotShared(dm, pm)
  BY <1>4 DEF NotShared
<1> QED BY <1>3, <1>5 DEF dm

\* A part gets chunks that nothing uses.
LEMMA PartReplaced ==
  ASSUME NEW cm \in ObjectMaps, NEW pm \in PartMaps, Disjoint(cm, pm),
         NEW u \in Uploads, NEW p \in PartNumbers,
         NEW ms, Range(ms) \cap Used(cm, pm) = {}
  PROVE  /\ Used(cm, [pm EXCEPT ![u][p] = ms]) = (Used(cm, pm) \ Range(pm[u][p])) \cup Range(ms)
         /\ NotShared(cm, [pm EXCEPT ![u][p] = ms])
<1> DEFINE qm == [pm EXCEPT ![u][p] = ms]
<1>1. /\ qm[u][p] = ms
      /\ \A v \in Uploads, q \in PartNumbers : <<v, q>> # <<u, p>> => qm[v][q] = pm[v][q]
  BY DEF PartMaps
<1> HIDE DEF qm
<1>2. ASSUME NEW m
      PROVE  /\ m \in Used(cm, pm) <=> \/ \E n \in Names : m \in Range(cm[n])
                                       \/ \E v \in Uploads, q \in PartNumbers : m \in Range(pm[v][q])
             /\ m \in Used(cm, qm) <=> \/ \E n \in Names : m \in Range(cm[n])
                                       \/ \E v \in Uploads, q \in PartNumbers : m \in Range(qm[v][q])
  BY UsedMember
<1>3. ASSUME NEW m
      PROVE  m \in Used(cm, qm) <=> m \in (Used(cm, pm) \ Range(pm[u][p])) \cup Range(ms)
  <2>1. ASSUME m \in Range(pm[u][p])
        PROVE  /\ \A n \in Names : m \notin Range(cm[n])
               /\ \A v \in Uploads, q \in PartNumbers :
                    <<v, q>> # <<u, p>> => m \notin Range(pm[v][q])
               /\ m \notin Range(ms)
    <3>1. m \in PartMessages(pm[u])
      BY <2>1, UsedMember
    <3> QED BY <1>2, <2>1, <3>1 DEF Disjoint, NotShared
  <2>2. CASE m \in Range(pm[u][p])
    BY <1>1, <1>2, <2>1, <2>2
  <2>3. CASE m \notin Range(pm[u][p])
    BY <1>1, <1>2, <2>3
  <2> QED BY <2>2, <2>3
<1>4. Used(cm, qm) = (Used(cm, pm) \ Range(pm[u][p])) \cup Range(ms)
  BY <1>3
<1>5. ASSUME NEW n \in Names, NEW v \in Uploads, NEW m \in Range(cm[n]), m \in PartMessages(qm[v])
      PROVE  FALSE
  <2>1. PICK q \in PartNumbers : m \in Range(qm[v][q])
    BY <1>5, UsedMember
  <2>2. CASE <<v, q>> = <<u, p>>
    BY <1>1, <1>2, <1>5, <2>1, <2>2
  <2>3. CASE <<v, q>> # <<u, p>>
    <3>1. m \in PartMessages(pm[v])
      BY <1>1, <2>1, <2>3, UsedMember
    <3> QED BY <1>5, <3>1 DEF Disjoint, NotShared
  <2> QED BY <2>2, <2>3
<1>6. NotShared(cm, qm)
  BY <1>5 DEF NotShared
<1> QED BY <1>4, <1>6 DEF qm

\* An upload loses its parts.
LEMMA PartsDropped ==
  ASSUME NEW cm \in ObjectMaps, NEW pm \in PartMaps, Disjoint(cm, pm), NEW u \in Uploads
  PROVE  /\ Used(cm, [pm EXCEPT ![u] = NoPartChunks]) = Used(cm, pm) \ PartMessages(pm[u])
         /\ Disjoint(cm, [pm EXCEPT ![u] = NoPartChunks])
<1> DEFINE qm == [pm EXCEPT ![u] = NoPartChunks]
<1>1. /\ qm[u] = NoPartChunks /\ \A p \in PartNumbers : qm[u][p] = <<>>
      /\ \A v \in Uploads : v # u => qm[v] = pm[v]
  BY DEF PartMaps, NoPartChunks
<1>2. PartMessages(qm[u]) = {}
  BY <1>1, UsedMember, EmptyRange
<1> HIDE DEF qm
<1>3. ASSUME NEW m
      PROVE  m \in Used(cm, qm) <=> m \in Used(cm, pm) \ PartMessages(pm[u])
  <2>1. ASSUME m \in PartMessages(pm[u])
        PROVE  /\ \A n \in Names : m \notin Range(cm[n])
               /\ \A v \in Uploads : v # u => m \notin PartMessages(pm[v])
    BY <2>1, UploadsApart DEF Disjoint, NotShared
  <2>2. CASE m \in PartMessages(pm[u])
    BY <1>1, <1>2, <2>1, <2>2, UsedMember
  <2>3. CASE m \notin PartMessages(pm[u])
    BY <1>1, <1>2, <2>3, UsedMember
  <2> QED BY <2>2, <2>3
<1>4. Used(cm, qm) = Used(cm, pm) \ PartMessages(pm[u])
  BY <1>3
<1>5. \A v \in Uploads, p \in PartNumbers : Range(qm[v][p]) \subseteq Range(pm[v][p])
  BY <1>1, EmptyRange
<1>6. \A v \in Uploads : PartMessages(qm[v]) \subseteq PartMessages(pm[v])
  BY <1>5, UsedMember
<1>7. NotShared(cm, qm)
  BY <1>6 DEF Disjoint, NotShared
<1>8. ASSUME NEW v \in Uploads, NEW w \in Uploads, NEW p \in PartNumbers, NEW q \in PartNumbers,
             <<v, p>> # <<w, q>>
      PROVE  Range(qm[v][p]) \cap Range(qm[w][q]) = {}
  <2>1. Range(pm[v][p]) \cap Range(pm[w][q]) = {}
    BY <1>8 DEF Disjoint
  <2> QED BY <1>5, <2>1
<1>9. Disjoint(cm, qm)
  BY <1>7, <1>8 DEF Disjoint
<1> QED BY <1>4, <1>9 DEF qm

\* An object gets chunks of an upload's parts, which are dropped.
LEMMA PartsMoved ==
  ASSUME NEW cm \in ObjectMaps, NEW pm \in PartMaps, Disjoint(cm, pm), NEW u \in Uploads,
         NEW n \in Names, NEW ms, Range(ms) \subseteq PartMessages(pm[u])
  PROVE  LET dm == [cm EXCEPT ![n] = ms]
             qm == [pm EXCEPT ![u] = NoPartChunks]
         IN /\ Used(dm, qm) =
                 ((Used(cm, pm) \ PartMessages(pm[u])) \ Range(cm[n])) \cup Range(ms)
            /\ NotShared(dm, qm)
<1> DEFINE qm == [pm EXCEPT ![u] = NoPartChunks]
<1>1. qm \in PartMaps
  <2>1. NoPartChunks \in [PartNumbers -> Seq(Messages)]
    BY DEF NoPartChunks
  <2> QED BY <2>1 DEF PartMaps
<1>2. Used(cm, qm) = Used(cm, pm) \ PartMessages(pm[u]) /\ Disjoint(cm, qm)
  BY PartsDropped
<1> HIDE DEF qm
<1>3. Range(ms) \cap Used(cm, qm) = {}
  BY <1>2
<1>4. /\ Used([cm EXCEPT ![n] = ms], qm) = (Used(cm, qm) \ Range(cm[n])) \cup Range(ms)
      /\ NotShared([cm EXCEPT ![n] = ms], qm)
  BY <1>1, <1>2, <1>3, ObjectReplaced
<1> QED BY <1>2, <1>4 DEF qm

----------------------------------------------------------------------------
(* Requests one after the other, without failures: the steps of a handler  *)

\* Positions at which a handler has nothing to keep account of.
Settled(r) ==
  /\ r.pc \notin {"readOld", "commit", "discard", "reap", "delReap", "delCommit", "mpParts",
                  "mpGather", "mpReap", "mpDrop"}
  /\ r.op # "get"

\* A settled handler is in order as far as its own lists go.
LEMMA SettledLists ==
  ASSUME NEW r, NEW l, Settled(r), NEW obs, NEW cm, NEW pm
  PROVE  /\ Spare(r) = {} /\ Missing(r, l) = {}
         /\ ListsCurrent(cm, pm, r, l) /\ ReadsCurrent(obs, cm, r)
<1>1. ~Gathering(r)
  BY DEF Settled, Gathering
<1> QED BY <1>1 DEF Settled, Spare, Missing, ListsCurrent, ReadsCurrent

\* A handler at another position than these has removed nothing and has nothing
\* to spare.
LEMMA NothingToSpare ==
  ASSUME NEW r, NEW l, r.pc \notin {"readOld", "commit", "discard", "reap", "delCommit", "mpDrop"}
  PROVE  Spare(r) = {} /\ Missing(r, l) = {}
BY DEF Spare, Missing

\* The tables' chunk maps.
LEMMA MapsDisjoint ==
  ASSUME MPTypeInv, References, Clean
  PROVE  /\ chunkMap \in ObjectMaps /\ partMap \in PartMaps
         /\ Disjoint(chunkMap, partMap)
         /\ \A m \in Used(chunkMap, partMap) : m.id < nextId
<1>1. chunkMap \in ObjectMaps /\ partMap \in PartMaps
  BY DEF MPTypeInv, MPTablesOK, ObjectMaps, PartMaps
<1>2. ASSUME NEW n \in Names, NEW m \in Range(chunkMap[n])
      PROVE  m \in OfKey(n)
  BY <1>2 DEF OfKey, Stored
<1>3. ASSUME NEW n \in Names, NEW k \in Names, n # k
      PROVE  Range(chunkMap[n]) \cap Range(chunkMap[k]) = {}
  BY <1>2, <1>3 DEF References, KeysApart
<1>4. Disjoint(chunkMap, partMap)
  BY <1>3 DEF Disjoint, Clean, References, PartsApart
<1>5. ASSUME NEW u \in Uploads, NEW p \in PartNumbers, NEW m \in Range(partMap[u][p])
      PROVE  m.id < nextId
  <2>1. owner[u] # None
    BY <1>5, EmptyRange DEF MPTypeInv, OwnedUploads, NoPartChunks
  <2>2. owner[u] \in Names
    BY <2>1 DEF MPTypeInv, MPTablesOK
  <2>3. m \in Stored(owner[u])
    BY <1>5, StoredMember
  <2> QED BY <2>2, <2>3, OfKeyMember DEF References, KeysApart
<1>6. ASSUME NEW m \in Used(chunkMap, partMap)
      PROVE  m.id < nextId
  BY <1>2, <1>5, <1>6, UsedMember DEF References, KeysApart
<1> QED BY <1>1, <1>4, <1>6

\* A step that neither changes the chunk maps nor the channel.
LEMMA KeepsAccounts ==
  ASSUME Clean, NEW w \in Workers, UNCHANGED <<chunkMap, partMap, channel>>,
         Spare(req'[w]) = Spare(req[w]), Missing(req'[w], mp'[w]) = Missing(req[w], mp[w])
  PROVE  /\ NotShared(chunkMap', partMap')
         /\ Accounts(Used(chunkMap', partMap'), channel', req'[w], mp'[w])
BY DEF Clean, InOrder, Accounts

\* Such a step of a handler that settles.
LEMMA SettlesInOrder ==
  ASSUME Clean, NEW w \in Workers, UNCHANGED <<chunkMap, partMap, channel>>,
         Spare(req[w]) = {}, Missing(req[w], mp[w]) = {}, Settled(req'[w])
  PROVE  NotShared(chunkMap', partMap') /\ InOrder(w)'
<1>1. /\ Spare(req'[w]) = {} /\ Missing(req'[w], mp'[w]) = {}
      /\ ListsCurrent(chunkMap', partMap', req'[w], mp'[w])
      /\ ReadsCurrent(objects', chunkMap', req'[w])
  BY SettledLists
<1> QED BY <1>1, KeepsAccounts DEF InOrder

\* An answer settles.
LEMMA AnswersSettled ==
  ASSUME MPTypeInv, NEW w \in Workers, NEW s, Answer(w, s)
  PROVE  Settled(req'[w])
BY DEF MPTypeInv, Answer, Idle, Settled

\* A new request that settles.
LEMMA SettledRequest ==
  ASSUME MPTypeInv, NEW w \in Workers, NEW r, req' = [req EXCEPT ![w] = r],
         r.op # "get",
         r.pc \in {"idle", "done", "upload", "copyUpload", "loadRow", "loadChunks", "delRow",
                   "delChunks", "dropBucket", "mpCreate", "mpAll", "sweepNext"}
  PROVE  Settled(req'[w])
<1>1. req'[w] = r
  BY NewRequest
<1> QED BY <1>1 DEF Settled

\* What is shown of one worker holds of the only one.
LEMMA OnlyWorkerClean ==
  ASSUME Alone, NEW w \in Workers, NotShared(chunkMap', partMap'), InOrder(w)'
  PROVE  Clean'
<1>1. \A v \in Workers : InOrder(v)'
  BY DEF Alone
<1> QED BY <1>1 DEF Clean

----------------------------------------------------------------------------
(* Requests one after the other, without failures: requests begin          *)

\* The first step of an object handler.
LEMMA BeginInOrder ==
  ASSUME MPTypeInv, Clean, NEW w \in Workers, Begin(w), UNCHANGED mpStore
  PROVE  NotShared(chunkMap', partMap') /\ InOrder(w)'
<1>1. UNCHANGED <<objects, chunkMap, partMap, channel>> /\ req[w].pc = "idle"
  BY ZenonT(60)
  DEF Begin, createBucket, deleteBucketList, putObject, copyObject, getObject, deleteObjects,
      store, telegram, mpStore
<1>2. Spare(req[w]) = {} /\ Missing(req[w], mp[w]) = {}
  BY <1>1, NothingToSpare
<1>3. ASSUME Settled(req'[w])
      PROVE  NotShared(chunkMap', partMap') /\ InOrder(w)'
  BY <1>1, <1>2, <1>3, SettlesInOrder
<1>4. ASSUME NEW b \in Buckets, createBucket(w, b)
      PROVE  Settled(req'[w])
  BY <1>4, AnswersSettled DEF createBucket
<1>5. ASSUME NEW b \in Buckets, deleteBucketList(w, b)
      PROVE  Settled(req'[w])
  <2> DEFINE r == [Idle EXCEPT !.pc = "dropBucket", !.op = "deleteBucket", !.bucket = b]
  <2>1. req' = [req EXCEPT ![w] = r] \/ \E s : Answer(w, s)
    BY <1>5 DEF deleteBucketList
  <2>2. r.pc = "dropBucket" /\ r.op = "deleteBucket"
    BY DEF Idle
  <2> HIDE DEF r
  <2> QED BY <2>1, <2>2, AnswersSettled, SettledRequest
<1>6. ASSUME NEW n \in Names, NEW body, putObject(w, n, body)
      PROVE  Settled(req'[w])
  <2> DEFINE r == [Idle EXCEPT !.pc = "upload", !.op = "put", !.name = n, !.body = body]
  <2>1. req' = [req EXCEPT ![w] = r] \/ \E s : Answer(w, s)
    BY <1>6 DEF putObject
  <2>2. r.pc = "upload" /\ r.op = "put"
    BY DEF Idle
  <2> HIDE DEF r
  <2> QED BY <2>1, <2>2, AnswersSettled, SettledRequest
<1>7. ASSUME NEW n \in Names, NEW s, copyObject(w, n, s)
      PROVE  Settled(req'[w])
  <2> DEFINE r == [Idle EXCEPT !.pc = "loadRow", !.op = "copy", !.name = n, !.src = s]
  <2>1. req' = [req EXCEPT ![w] = r] \/ \E t : Answer(w, t)
    BY <1>7 DEF copyObject
  <2>2. r.pc = "loadRow" /\ r.op = "copy"
    BY DEF Idle
  <2> HIDE DEF r
  <2> QED BY <2>1, <2>2, AnswersSettled, SettledRequest
<1>8. ASSUME NEW names, deleteObjects(w, names)
      PROVE  Settled(req'[w])
  <2> DEFINE r == [Idle EXCEPT !.pc = "delRow", !.op = "delete", !.todo = names, !.name = names[1]]
  <2>1. req' = [req EXCEPT ![w] = r] \/ \E s : Answer(w, s)
    BY <1>8 DEF deleteObjects
  <2>2. r.pc = "delRow" /\ r.op = "delete"
    BY DEF Idle
  <2> HIDE DEF r
  <2> QED BY <2>1, <2>2, AnswersSettled, SettledRequest
<1>9. ASSUME NEW n \in Names, getObject(w, n)
      PROVE  NotShared(chunkMap', partMap') /\ InOrder(w)'
  <2> DEFINE r == [Idle EXCEPT !.pc = "loadRow", !.op = "get", !.name = n, !.src = n]
  <2>1. req'[w] = r
    BY <1>9, NewRequest DEF getObject
  <2>2. r.pc = "loadRow" /\ r.op = "get" /\ r.name = n /\ r.src = n
    BY DEF Idle
  <2> HIDE DEF r
  <2>3. Spare(r) = {} /\ Missing(r, mp'[w]) = {}
    BY <2>2, NothingToSpare
  <2>4. ListsCurrent(chunkMap', partMap', r, mp'[w]) /\ ReadsCurrent(objects', chunkMap', r)
    BY <2>2 DEF ListsCurrent, ReadsCurrent, Gathering
  <2> QED BY <1>1, <1>2, <2>1, <2>3, <2>4, KeepsAccounts DEF InOrder
<1> QED BY <1>3, <1>4, <1>5, <1>6, <1>7, <1>8, <1>9, Zenon DEF Begin

\* The first step of a multipart handler.
LEMMA MPBeginInOrder ==
  ASSUME MPTypeInv, Clean, NEW w \in Workers, MPBegin(w)
  PROVE  NotShared(chunkMap', partMap') /\ InOrder(w)'
<1>1. UNCHANGED <<store, telegram, mpStore>> /\ req[w].pc = "idle"
  BY ZenonT(60)
  DEF MPBegin, createMultipartUpload, uploadPart, uploadPartCopy, completeMultipartUpload,
      abortMultipartUpload, sweepStaleMultipartUploads, mpVars
<1>2. /\ UNCHANGED <<objects, chunkMap, partMap, channel>>
      /\ Spare(req[w]) = {} /\ Missing(req[w], mp[w]) = {}
  BY <1>1, NothingToSpare DEF store, telegram, mpStore
<1>3. ASSUME Settled(req'[w])
      PROVE  NotShared(chunkMap', partMap') /\ InOrder(w)'
  BY <1>2, <1>3, SettlesInOrder
<1>4. ASSUME NEW n \in Names, createMultipartUpload(w, n)
      PROVE  Settled(req'[w])
  <2> DEFINE r == [Idle EXCEPT !.pc = "mpCreate", !.op = "create", !.name = n]
  <2>1. req' = [req EXCEPT ![w] = r] \/ \E s : Answer(w, s)
    BY <1>4 DEF createMultipartUpload
  <2>2. r.pc = "mpCreate" /\ r.op = "create"
    BY DEF Idle
  <2> HIDE DEF r
  <2> QED BY <2>1, <2>2, AnswersSettled, SettledRequest
<1>5. ASSUME NEW u \in Uploads, NEW p \in PartNumbers, NEW body \in Bodies,
             uploadPart(w, u, p, body)
      PROVE  Settled(req'[w])
  <2> DEFINE r == [Idle EXCEPT !.pc = "upload", !.op = "part", !.name = owner[u], !.body = body]
  <2>1. req' = [req EXCEPT ![w] = r] \/ \E s : Answer(w, s)
    BY <1>5 DEF uploadPart
  <2>2. r.pc = "upload" /\ r.op = "part"
    BY DEF Idle
  <2> HIDE DEF r
  <2> QED BY <2>1, <2>2, AnswersSettled, SettledRequest
<1>6. ASSUME NEW u \in Uploads, NEW p \in PartNumbers, NEW s \in Names,
             uploadPartCopy(w, u, p, s)
      PROVE  Settled(req'[w])
  <2> DEFINE r == [Idle EXCEPT !.pc = "loadRow", !.op = "partCopy", !.name = owner[u], !.src = s]
  <2>1. req' = [req EXCEPT ![w] = r]
    BY <1>6 DEF uploadPartCopy
  <2>2. r.pc = "loadRow" /\ r.op = "partCopy"
    BY DEF Idle
  <2> HIDE DEF r
  <2> QED BY <2>1, <2>2, SettledRequest
<1>7. ASSUME NEW u \in Uploads, NEW list \in CompleteLists, completeMultipartUpload(w, u, list)
      PROVE  NotShared(chunkMap', partMap') /\ InOrder(w)'
  <2> DEFINE r == [Idle EXCEPT !.pc = "mpParts", !.op = "complete", !.name = owner[u]]
             l == [MPIdle EXCEPT !.upload = u, !.list = list]
  <2>1. \/ req' = [req EXCEPT ![w] = r] /\ mp' = [mp EXCEPT ![w] = l]
        \/ \E s : Answer(w, s)
    BY <1>7 DEF completeMultipartUpload
  <2>2. r.pc = "mpParts" /\ r.op = "complete" /\ l.list = list
    BY DEF Idle, MPIdle
  <2> HIDE DEF r, l
  <2>3. CASE \E s : Answer(w, s)
    BY <1>3, <2>3, AnswersSettled
  <2>4. CASE req' = [req EXCEPT ![w] = r] /\ mp' = [mp EXCEPT ![w] = l]
    <3>1. req'[w] = r /\ mp'[w] = l
      BY <2>4 DEF MPTypeInv
    <3>2. Spare(r) = {} /\ Missing(r, l) = {}
      BY <2>2, NothingToSpare
    <3>3. ListsCurrent(chunkMap', partMap', r, l) /\ ReadsCurrent(objects', chunkMap', r)
      BY <2>2 DEF ListsCurrent, ReadsCurrent, Gathering
    <3> QED BY <1>2, <3>1, <3>2, <3>3, KeepsAccounts DEF InOrder
  <2> QED BY <2>1, <2>3, <2>4
<1>8. ASSUME NEW u \in Uploads, abortMultipartUpload(w, u)
      PROVE  Settled(req'[w])
  <2> DEFINE r == [Idle EXCEPT !.pc = "mpAll", !.op = "abort", !.name = owner[u]]
  <2>1. req' = [req EXCEPT ![w] = r] \/ \E s : Answer(w, s)
    BY <1>8 DEF abortMultipartUpload
  <2>2. r.pc = "mpAll" /\ r.op = "abort"
    BY DEF Idle
  <2> HIDE DEF r
  <2> QED BY <2>1, <2>2, AnswersSettled, SettledRequest
<1>9. ASSUME sweepStaleMultipartUploads(w)
      PROVE  Settled(req'[w])
  <2> DEFINE r == [Idle EXCEPT !.pc = "sweepNext", !.op = "sweep"]
  <2>1. req' = [req EXCEPT ![w] = r]
    BY <1>9, Zenon DEF sweepStaleMultipartUploads
  <2>2. r.pc = "sweepNext" /\ r.op = "sweep"
    BY DEF Idle
  <2> HIDE DEF r
  <2> QED BY <2>1, <2>2, SettledRequest
<1> QED BY <1>3, <1>4, <1>5, <1>6, <1>7, <1>8, <1>9, Zenon DEF MPBegin

----------------------------------------------------------------------------
(* Requests one after the other, without failures: uploads and overwrites  *)

\* What the invariants say of a handler.
LEMMA HandlerInOrder ==
  ASSUME MPTypeInv, Clean, NEW w \in Workers
  PROVE  /\ req[w] \in MPRequests /\ mp[w] \in Locals /\ MPFormed(owner, req[w], mp[w])
         /\ InOrder(w) /\ NotShared(chunkMap, partMap)
BY WorkerType DEF Clean

\* A handler that settles when the channel holds what the chunk maps name.
LEMMA SettlesWith ==
  ASSUME NEW w \in Workers, Settled(req'[w]), NotShared(chunkMap', partMap'),
         Used(chunkMap', partMap') \subseteq channel',
         ListsAll => channel' \subseteq Used(chunkMap', partMap')
  PROVE  NotShared(chunkMap', partMap') /\ InOrder(w)'
<1>1. /\ Spare(req'[w]) = {} /\ Missing(req'[w], mp'[w]) = {}
      /\ ListsCurrent(chunkMap', partMap', req'[w], mp'[w])
      /\ ReadsCurrent(objects', chunkMap', req'[w])
  BY SettledLists
<1>2. Accounts(Used(chunkMap', partMap'), channel', req'[w], mp'[w])
  BY <1>1 DEF Accounts
<1> QED BY <1>1, <1>2 DEF InOrder

\* A handler that goes on at a position p without using its locals.
LEMMA GoesOnSettled ==
  ASSUME MPTypeInv, NEW w \in Workers, req[w].op # "get",
         NEW p \in {"upload", "copyUpload", "delChunks", "mpAll", "sweepNext"}, Goto(w, p)
  PROVE  Settled(req'[w])
<1> DEFINE r == [req[w] EXCEPT !.pc = p]
<1>1. req' = [req EXCEPT ![w] = r]
  BY DEF Goto, MPTypeInv
<1>2. r.pc = p /\ r.op = req[w].op
  BY DEF MPTypeInv, MPRequests
<1> HIDE DEF r
<1> QED BY <1>1, <1>2, SettledRequest

\* What an upload has sent is spare: nothing refers to it yet.
LEMMA UploadOKInOrder ==
  ASSUME MPTypeInv, References, Clean, NEW w \in Workers,
         req[w].pc \in {"upload", "copyUpload"}, UNCHANGED <<chunkMap, partMap>>,
         NEW body \in Seq(Documents), NEW p \in {"readOld", "discard"}, UploadOK(w, body, p)
  PROVE  NotShared(chunkMap', partMap') /\ InOrder(w)'
<1> DEFINE ms == Sent(nextId, body)
           r == [req[w] EXCEPT !.pc = p, !.chunks = ms, !.body = body, !.row = None, !.read = <<>>]
           used == Used(chunkMap, partMap)
<1>1. /\ req[w] \in MPRequests /\ MPFormed(owner, req[w], mp[w]) /\ InOrder(w)
      /\ NotShared(chunkMap, partMap) /\ nextId \in Nat
  BY HandlerInOrder DEF MPTypeInv, MPTablesOK
<1>2. channel' = channel \cup Range(ms) /\ req' = [req EXCEPT ![w] = r]
  BY DEF UploadOK
<1>3. r.pc = p /\ r.op = req[w].op /\ r.chunks = ms
  BY <1>1 DEF MPRequests
<1>4. ms \in Seq(Messages) /\ \A m \in Range(ms) : nextId <= m.id
  BY <1>1, SentType
<1>5. req'[w] = r
  BY <1>2, NewRequest
<1> HIDE DEF r, ms
<1>6. r.op # "complete"
  BY <1>1, <1>3 DEF MPFormed, Placed
<1>7. Spare(r) = Range(ms) /\ Missing(r, mp'[w]) = {}
  BY <1>3, <1>6 DEF Spare, Missing
<1>8. Range(ms) \cap used = {}
  <2> SUFFICES ASSUME NEW m \in Range(ms), m \in used PROVE FALSE
    OBVIOUS
  <2>1. m.id < nextId /\ nextId <= m.id
    BY <1>4, MapsDisjoint
  <2>2. m \in Messages
    BY <1>4 DEF Range
  <2>3. m.id \in Nat
    BY <2>2 DEF Messages
  <2> QED BY <1>1, <2>1, <2>3
<1>9. used \subseteq channel /\ (ListsAll => channel \subseteq used)
  BY <1>1, NothingToSpare DEF InOrder, Accounts
<1>10. Accounts(used, channel', r, mp'[w])
  BY <1>2, <1>7, <1>8, <1>9 DEF Accounts
<1>11. ListsCurrent(chunkMap', partMap', r, mp'[w]) /\ ReadsCurrent(objects', chunkMap', r)
  BY <1>3, <1>6 DEF ListsCurrent, ReadsCurrent, Gathering
<1> QED BY <1>1, <1>5, <1>10, <1>11 DEF InOrder

\* Upload and CopyUpload.
LEMMA UploadsInOrder ==
  ASSUME ~Faulty, MPTypeInv, References, Clean, NEW w \in Workers, UNCHANGED mpStore,
         Upload(w) \/ CopyUpload(w)
  PROVE  NotShared(chunkMap', partMap') /\ InOrder(w)'
<1>1. /\ req[w] \in MPRequests /\ MPFormed(owner, req[w], mp[w])
      /\ req[w].pc \in {"upload", "copyUpload"} /\ UNCHANGED <<chunkMap, partMap>>
  BY HandlerInOrder DEF Upload, CopyUpload, store, mpStore
<1>2. ASSUME NEW body, UploadFails(w, body)
      PROVE  NotShared(chunkMap', partMap') /\ InOrder(w)'
  <2>1. channel' = channel \cup {Sent(nextId, body)[i] : i \in {}}
    BY <1>2 DEF UploadFails
  <2>2. channel' = channel
    BY <2>1
  <2>3. Settled(req'[w])
    BY <1>2, AnswersSettled DEF UploadFails
  <2> QED BY <1>1, <2>2, <2>3, NothingToSpare, SettlesInOrder
<1>3. CASE Upload(w)
  <2>1. req[w].body \in Seq(Documents)
    BY <1>1 DEF MPRequests
  <2> QED BY <1>1, <1>2, <1>3, <2>1, UploadOKInOrder DEF Upload
<1>4. CASE CopyUpload(w)
  <2>1. SourceBytes(w) \in Seq(Documents)
    BY <1>1, <1>4, SourceBytesType DEF CopyUpload, MPFormed, Sourced, MPRequests
  <2> QED BY <1>1, <1>2, <1>4, <2>1, UploadOKInOrder DEF CopyUpload
<1> QED BY <1>3, <1>4

\* A handler that has read the chunks it is about to supersede.
LEMMA ReadOldInOrder ==
  ASSUME MPTypeInv, Clean, NEW w \in Workers, UNCHANGED <<chunkMap, partMap, channel, mp>>,
         req[w].pc = "readOld", NEW old,
         req' = [req EXCEPT ![w] = [req[w] EXCEPT !.pc = "commit", !.old = old]],
         old = IF req[w].op \in {"part", "partCopy"} THEN partMap[mp[w].upload][mp[w].part]
                                                    ELSE chunkMap[req[w].name]
  PROVE  NotShared(chunkMap', partMap') /\ InOrder(w)'
<1> DEFINE r == [req[w] EXCEPT !.pc = "commit", !.old = old]
<1>1. req[w] \in MPRequests /\ InOrder(w)
  BY HandlerInOrder
<1>2. /\ r.pc = "commit" /\ r.op = req[w].op /\ r.name = req[w].name
      /\ r.chunks = req[w].chunks /\ r.old = old
  BY <1>1 DEF MPRequests
<1>3. req'[w] = r
  BY NewRequest
<1> HIDE DEF r
<1>4. /\ Spare(r) = Spare(req[w]) /\ Missing(r, mp'[w]) = Missing(req[w], mp[w])
      /\ Gathering(r) = Gathering(req[w])
  BY <1>2 DEF Spare, Missing, Gathering
<1>5. ListsCurrent(chunkMap', partMap', r, mp'[w])
  BY <1>1, <1>2, <1>4 DEF InOrder, ListsCurrent
<1>6. ReadsCurrent(objects', chunkMap', r)
  BY <1>2 DEF ReadsCurrent
<1> QED BY <1>3, <1>4, <1>5, <1>6, KeepsAccounts DEF InOrder

\* readOldChunks and readOldPartChunks.
LEMMA ReadOldsInOrder ==
  ASSUME ~Faulty, MPTypeInv, Clean, NEW w \in Workers,
         \/ readOldChunks(w) /\ ObjectLocals(w) /\ UNCHANGED mpStore
         \/ readOldPartChunks(w)
  PROVE  NotShared(chunkMap', partMap') /\ InOrder(w)'
<1>1. CASE readOldChunks(w) /\ ObjectLocals(w) /\ UNCHANGED mpStore
  <2> DEFINE old == chunkMap[req[w].name]
             r == [req[w] EXCEPT !.pc = "commit", !.old = old]
  <2>1. req' = [req EXCEPT ![w] = r] /\ req[w].pc = "readOld" /\ req[w].op \in Overwrites
    BY <1>1, Zenon DEF readOldChunks
  <2>2. UNCHANGED <<chunkMap, partMap, channel>>
    BY <1>1, Zenon DEF readOldChunks, store, telegram, mpStore
  <2>3. UNCHANGED mp
    <3>1. r.pc = "commit"
      BY HandlerInOrder DEF MPRequests
    <3>2. req'[w] = r
      BY <2>1, NewRequest
    <3> QED BY <1>1, <3>1, <3>2 DEF ObjectLocals
  <2>4. req[w].op \notin {"part", "partCopy"}
    BY <2>1 DEF Overwrites
  <2> QED BY <2>1, <2>2, <2>3, <2>4, ReadOldInOrder
<1>2. CASE readOldPartChunks(w)
  <2> DEFINE old == partMap[mp[w].upload][mp[w].part]
             r == [req[w] EXCEPT !.pc = "commit", !.old = old]
  <2>1. /\ req' = [req EXCEPT ![w] = r] /\ req[w].pc = "readOld"
        /\ req[w].op \in {"part", "partCopy"}
    BY <1>2, Zenon DEF readOldPartChunks
  <2>2. UNCHANGED <<chunkMap, partMap, channel, mp>>
    BY <1>2, Zenon DEF readOldPartChunks, store, telegram, mpVars, mpStore
  <2> QED BY <2>1, <2>2, ReadOldInOrder
<1> QED BY <1>1, <1>2

\* A commit: what was spare is used, what it replaces is spare.
LEMMA Replaces ==
  ASSUME NEW used, NEW ch, NEW r, NEW l, Accounts(used, ch, r, l), r.pc = "commit",
         r.op # "complete", NEW q, NEW k, q.pc = "reap", q.old = r.old,
         Range(r.old) \subseteq used
  PROVE  Accounts((used \ Range(r.old)) \cup Range(r.chunks), ch, q, k)
<1>1. /\ Spare(r) = Range(r.chunks) /\ Missing(r, l) = {}
      /\ Spare(q) = Range(r.old) /\ Missing(q, k) = {}
  BY DEF Spare, Missing
<1>2. /\ Range(r.chunks) \cap used = {} /\ used \cup Range(r.chunks) \subseteq ch
      /\ ListsAll => ch \subseteq used \cup Range(r.chunks)
  BY <1>1 DEF Accounts
<1> QED BY <1>1, <1>2 DEF Accounts

\* A request that has committed goes on to remove what it has replaced.
LEMMA CommittedRequest ==
  ASSUME MPTypeInv, NEW w \in Workers, Goto(w, "reap"), NEW cm, NEW pm, NEW obs, NEW l
  PROVE  /\ req'[w].pc = "reap" /\ req'[w].op = req[w].op /\ req'[w].old = req[w].old
         /\ ListsCurrent(cm, pm, req'[w], l) /\ ReadsCurrent(obs, cm, req'[w])
<1> DEFINE r == [req[w] EXCEPT !.pc = "reap"]
<1>1. req' = [req EXCEPT ![w] = r]
  BY DEF Goto, MPTypeInv
<1>2. r.pc = "reap" /\ r.op = req[w].op /\ r.old = req[w].old
  BY DEF MPTypeInv, MPRequests
<1> HIDE DEF r
<1>3. req'[w] = r
  BY <1>1, NewRequest
<1>4. ListsCurrent(cm, pm, r, l) /\ ReadsCurrent(obs, cm, r)
  BY <1>2 DEF ListsCurrent, ReadsCurrent, Gathering
<1> QED BY <1>2, <1>3, <1>4

\* PutObject.
LEMMA PutInOrder ==
  ASSUME ~Faulty, MPTypeInv, References, Clean, NEW w \in Workers, UNCHANGED mpStore, PutObject(w)
  PROVE  NotShared(chunkMap', partMap') /\ InOrder(w)'
<1> DEFINE n == req[w].name
           ms == req[w].chunks
           used == Used(chunkMap, partMap)
<1>1. /\ req[w].pc = "commit" /\ req[w].op \in {"put", "copy"}
      /\ chunkMap' = [chunkMap EXCEPT ![n] = ms]
      /\ UNCHANGED <<partMap, channel>> /\ Goto(w, "reap")
  BY DEF PutObject, replaceObjectChunksTx, telegram, mpStore
<1>2. InOrder(w) /\ n \in Names /\ req[w] \in MPRequests
  BY <1>1, HandlerInOrder DEF MPFormed, Named
<1>3. req[w].old = chunkMap[n] /\ Accounts(used, channel, req[w], mp[w])
  BY <1>1, <1>2 DEF InOrder, ListsCurrent
<1>4. Range(ms) \cap used = {}
  BY <1>1, <1>3 DEF Accounts, Spare
<1>5. /\ chunkMap \in ObjectMaps /\ partMap \in PartMaps /\ Disjoint(chunkMap, partMap)
      /\ Range(chunkMap[n]) \subseteq used
  BY <1>2, MapsDisjoint, UsedMember
<1> HIDE DEF n, ms, used
<1>6. /\ Used(chunkMap', partMap') = (used \ Range(chunkMap[n])) \cup Range(ms)
      /\ NotShared(chunkMap', partMap')
  <2>1. /\ Used([chunkMap EXCEPT ![n] = ms], partMap) = (used \ Range(chunkMap[n])) \cup Range(ms)
        /\ NotShared([chunkMap EXCEPT ![n] = ms], partMap)
    BY <1>2, <1>4, <1>5, ObjectReplaced, Zenon DEF used
  <2> QED BY <1>1, <2>1, Zenon
<1>7. /\ req'[w].pc = "reap" /\ req'[w].op = req[w].op /\ req'[w].old = req[w].old
      /\ ListsCurrent(chunkMap', partMap', req'[w], mp'[w])
      /\ ReadsCurrent(objects', chunkMap', req'[w])
  BY <1>1, CommittedRequest
<1>8. Accounts((used \ Range(req[w].old)) \cup Range(ms), channel, req'[w], mp'[w])
  BY <1>1, <1>3, <1>5, <1>7, Replaces DEF ms
<1> QED BY <1>1, <1>3, <1>6, <1>7, <1>8 DEF InOrder

\* PutMultipartPart.
LEMMA PutPartInOrder ==
  ASSUME ~Faulty, MPTypeInv, References, Clean, NEW w \in Workers, PutMultipartPart(w)
  PROVE  NotShared(chunkMap', partMap') /\ InOrder(w)'
<1> DEFINE u == mp[w].upload
           p == mp[w].part
           ms == req[w].chunks
           used == Used(chunkMap, partMap)
<1>1. /\ req[w].pc = "commit" /\ req[w].op \in {"part", "partCopy"}
      /\ partMap' = [partMap EXCEPT ![u][p] = ms]
      /\ UNCHANGED <<chunkMap, channel>> /\ Goto(w, "reap")
  BY DEF PutMultipartPart, telegram, store
<1>2. InOrder(w) /\ u \in Uploads /\ p \in PartNumbers /\ req[w] \in MPRequests
  BY <1>1, HandlerInOrder DEF MPFormed, Linked, OnUpload
<1>3. req[w].old = partMap[u][p] /\ Accounts(used, channel, req[w], mp[w])
  BY <1>1, <1>2 DEF InOrder, ListsCurrent
<1>4. Range(ms) \cap used = {}
  BY <1>1, <1>3 DEF Accounts, Spare
<1>5. /\ chunkMap \in ObjectMaps /\ partMap \in PartMaps /\ Disjoint(chunkMap, partMap)
      /\ Range(partMap[u][p]) \subseteq used
  BY <1>2, MapsDisjoint, UsedMember
<1> HIDE DEF u, p, ms, used
<1>6. /\ Used(chunkMap', partMap') = (used \ Range(partMap[u][p])) \cup Range(ms)
      /\ NotShared(chunkMap', partMap')
  <2>1. /\ Used(chunkMap, [partMap EXCEPT ![u][p] = ms]) = (used \ Range(partMap[u][p])) \cup Range(ms)
        /\ NotShared(chunkMap, [partMap EXCEPT ![u][p] = ms])
    BY <1>2, <1>4, <1>5, PartReplaced, Zenon DEF used
  <2> QED BY <1>1, <2>1, Zenon
<1>7. /\ req'[w].pc = "reap" /\ req'[w].op = req[w].op /\ req'[w].old = req[w].old
      /\ ListsCurrent(chunkMap', partMap', req'[w], mp'[w])
      /\ ReadsCurrent(objects', chunkMap', req'[w])
  BY <1>1, CommittedRequest
<1>8. Accounts((used \ Range(req[w].old)) \cup Range(ms), channel, req'[w], mp'[w])
  BY <1>1, <1>3, <1>5, <1>7, Replaces DEF ms
<1> QED BY <1>1, <1>3, <1>6, <1>7, <1>8 DEF InOrder

\* reapSupersededChunks and deleteChunks: what was spare goes.
LEMMA RemovesInOrder ==
  ASSUME ~Faulty, MPTypeInv, Clean, NEW w \in Workers, UNCHANGED mpStore,
         reapSupersededChunks(w) \/ deleteChunks(w)
  PROVE  NotShared(chunkMap', partMap') /\ InOrder(w)'
<1> DEFINE gone == IF req[w].pc = "reap" THEN Range(req[w].old) ELSE Range(req[w].chunks)
           used == Used(chunkMap, partMap)
<1>1. /\ req[w].pc \in {"reap", "discard"} /\ channel' = channel \ gone
      /\ UNCHANGED <<chunkMap, partMap>> /\ \E s : Answer(w, s)
  BY DEF reapSupersededChunks, deleteChunks, DeleteBatch, store, mpStore
<1>2. /\ InOrder(w) /\ NotShared(chunkMap, partMap) /\ MPFormed(owner, req[w], mp[w])
  BY HandlerInOrder
<1>3. Spare(req[w]) = gone /\ Missing(req[w], mp[w]) = {}
  BY <1>1, <1>2 DEF Spare, Missing, MPFormed, Placed
<1>4. /\ gone \cap used = {} /\ used \cup gone \subseteq channel
      /\ ListsAll => channel \subseteq used \cup gone
  BY <1>2, <1>3 DEF InOrder, Accounts
<1>5. Settled(req'[w])
  BY <1>1, AnswersSettled
<1> HIDE DEF gone
<1> QED BY <1>1, <1>2, <1>4, <1>5, SettlesWith

----------------------------------------------------------------------------
(* Requests one after the other, without failures: deletes and reads       *)

\* The next key of a DELETE, or its answer, settles.
LEMMA NextKeySettled ==
  ASSUME MPTypeInv, NEW w \in Workers, NEW s, NextKey(w, s), req[w].op = "delete"
  PROVE  Settled(req'[w])
<1> DEFINE r == [req[w] EXCEPT !.pc = "delRow", !.todo = Tail(req[w].todo),
                               !.name = req[w].todo[2], !.old = <<>>]
<1>1. Answer(w, s) \/ req' = [req EXCEPT ![w] = r]
  BY DEF NextKey
<1>2. r.pc = "delRow" /\ r.op = "delete"
  BY DEF MPTypeInv, MPRequests
<1> HIDE DEF r
<1> QED BY <1>1, <1>2, AnswersSettled, SettledRequest

\* DeleteBucket, the end of an answer and the first query of deleteOneObject.
LEMMA EndInOrder ==
  ASSUME ~Faulty, MPTypeInv, Clean, NEW w \in Workers, UNCHANGED mpStore,
         DeleteBucket(w) \/ Answered(w) \/ deleteOneObject(w)
  PROVE  NotShared(chunkMap', partMap') /\ InOrder(w)'
<1>1. UNCHANGED <<chunkMap, partMap, channel>> /\ req[w].pc \in {"dropBucket", "done", "delRow"}
  BY DEF DeleteBucket, Answered, deleteOneObject, store, telegram, mpStore
<1>2. MPFormed(owner, req[w], mp[w])
  BY HandlerInOrder
<1>3. CASE DeleteBucket(w)
  <2>1. Settled(req'[w])
    BY <1>3, AnswersSettled DEF DeleteBucket
  <2> QED BY <1>1, <2>1, NothingToSpare, SettlesInOrder
<1>4. CASE Answered(w)
  <2>1. Idle.pc = "idle" /\ Idle.op # "get"
    BY DEF Idle
  <2>2. Settled(req'[w])
    BY <1>4, <2>1, SettledRequest DEF Answered
  <2> QED BY <1>1, <2>2, NothingToSpare, SettlesInOrder
<1>5. CASE deleteOneObject(w)
  <2>1. req[w].op = "delete"
    BY <1>2, <1>5 DEF MPFormed, Placed, deleteOneObject
  <2>2. NextKey(w, "ok") \/ Goto(w, "delChunks")
    BY <1>5 DEF deleteOneObject
  <2>3. Settled(req'[w])
    BY <2>1, <2>2, NextKeySettled, GoesOnSettled
  <2> QED BY <1>1, <2>3, NothingToSpare, SettlesInOrder
<1> QED BY <1>3, <1>4, <1>5

\* deleteReadChunks: the list is that of the table.
LEMMA DeleteReadsInOrder ==
  ASSUME ~Faulty, MPTypeInv, Clean, NEW w \in Workers, UNCHANGED mpStore, deleteReadChunks(w)
  PROVE  NotShared(chunkMap', partMap') /\ InOrder(w)'
<1> DEFINE old == chunkMap[req[w].name]
           r == [req[w] EXCEPT !.pc = "delReap", !.old = old]
<1>1. /\ req[w].pc = "delChunks" /\ UNCHANGED <<chunkMap, partMap, channel>>
      /\ req' = [req EXCEPT ![w] = r]
  BY DEF deleteReadChunks, store, telegram, mpStore
<1>2. req[w] \in MPRequests /\ MPFormed(owner, req[w], mp[w])
  BY HandlerInOrder
<1>3. req[w].op = "delete"
  BY <1>1, <1>2 DEF MPFormed, Placed
<1>4. r.pc = "delReap" /\ r.op = "delete" /\ r.name = req[w].name /\ r.old = old
  BY <1>2, <1>3 DEF MPRequests
<1>5. req'[w] = r
  BY <1>1, NewRequest
<1> HIDE DEF r
<1>6. ListsCurrent(chunkMap', partMap', r, mp'[w]) /\ ReadsCurrent(objects', chunkMap', r)
  BY <1>1, <1>4 DEF ListsCurrent, ReadsCurrent, Gathering
<1>7. /\ Spare(r) = {} /\ Missing(r, mp'[w]) = {}
      /\ Spare(req[w]) = {} /\ Missing(req[w], mp[w]) = {}
  BY <1>1, <1>4, NothingToSpare
<1> QED BY <1>1, <1>5, <1>6, <1>7, KeepsAccounts DEF InOrder

\* A handler that goes to another position.
LEMMA WentTo ==
  ASSUME MPTypeInv, NEW w \in Workers, NEW p, Goto(w, p)
  PROVE  /\ req'[w].pc = p /\ req'[w].op = req[w].op /\ req'[w].name = req[w].name
         /\ req'[w].old = req[w].old /\ req'[w].chunks = req[w].chunks
BY DEF MPTypeInv, MPRequests, Goto

\* deleteReap: the messages are gone before their rows.
LEMMA DeleteReapInOrder ==
  ASSUME ~Faulty, MPTypeInv, Clean, NEW w \in Workers, UNCHANGED mpStore, deleteReap(w)
  PROVE  NotShared(chunkMap', partMap') /\ InOrder(w)'
<1> DEFINE gone == Range(req[w].old)
           used == Used(chunkMap, partMap)
<1>1. /\ req[w].pc = "delReap" /\ channel' = channel \ gone
      /\ UNCHANGED <<chunkMap, partMap>> /\ Goto(w, "delCommit")
  BY DEF deleteReap, DeleteBatch, store, mpStore
<1>2. InOrder(w) /\ NotShared(chunkMap, partMap) /\ MPFormed(owner, req[w], mp[w])
  BY HandlerInOrder
<1>3. req[w].op = "delete" /\ req[w].old = chunkMap[req[w].name]
  BY <1>1, <1>2 DEF MPFormed, Placed, InOrder, ListsCurrent
<1>4. used \subseteq channel /\ (ListsAll => channel \subseteq used)
  BY <1>1, <1>2, NothingToSpare DEF InOrder, Accounts
<1>5. /\ req'[w].pc = "delCommit" /\ req'[w].op = "delete" /\ req'[w].name = req[w].name
      /\ req'[w].old = req[w].old
  BY <1>1, <1>3, WentTo
<1>6. Spare(req'[w]) = {} /\ Missing(req'[w], mp'[w]) = gone
  BY <1>5 DEF Spare, Missing
<1>7. /\ ListsCurrent(chunkMap', partMap', req'[w], mp'[w])
      /\ ReadsCurrent(objects', chunkMap', req'[w])
  BY <1>1, <1>3, <1>5 DEF ListsCurrent, ReadsCurrent, Gathering
<1> HIDE DEF gone, used
<1>8. Accounts(used, channel', req'[w], mp'[w])
  BY <1>1, <1>4, <1>6 DEF Accounts
<1> QED BY <1>1, <1>2, <1>7, <1>8 DEF InOrder, used

\* DeleteObject: the rows follow the messages.
LEMMA DeleteInOrder ==
  ASSUME ~Faulty, MPTypeInv, References, Clean, NEW w \in Workers, UNCHANGED mpStore,
         DeleteObject(w)
  PROVE  NotShared(chunkMap', partMap') /\ InOrder(w)'
<1> DEFINE n == req[w].name
           ms == <<>>
           used == Used(chunkMap, partMap)
<1>1. /\ req[w].pc = "delCommit" /\ chunkMap' = [chunkMap EXCEPT ![n] = ms]
      /\ UNCHANGED <<partMap, channel>> /\ NextKey(w, "ok")
  BY DEF DeleteObject, telegram, mpStore
<1>2. InOrder(w) /\ n \in Names /\ req[w].op = "delete"
  BY <1>1, HandlerInOrder DEF MPFormed, Named, Placed
<1>3. req[w].old = chunkMap[n] /\ Accounts(used, channel, req[w], mp[w])
  BY <1>1, <1>2 DEF InOrder, ListsCurrent
<1>4. Spare(req[w]) = {} /\ Missing(req[w], mp[w]) = Range(chunkMap[n])
  BY <1>1, <1>3 DEF Spare, Missing
<1>5. Range(ms) = {} /\ Range(ms) \cap used = {}
  BY EmptyRange
<1>6. chunkMap \in ObjectMaps /\ partMap \in PartMaps /\ Disjoint(chunkMap, partMap)
  BY MapsDisjoint
<1> HIDE DEF n, ms, used
<1>7. /\ Used(chunkMap', partMap') = used \ Range(chunkMap[n])
      /\ NotShared(chunkMap', partMap')
  <2>1. /\ Used([chunkMap EXCEPT ![n] = ms], partMap) = (used \ Range(chunkMap[n])) \cup Range(ms)
        /\ NotShared([chunkMap EXCEPT ![n] = ms], partMap)
    BY <1>2, <1>5, <1>6, ObjectReplaced, Zenon DEF used
  <2> QED BY <1>1, <1>5, <2>1
<1>8. /\ used \ Range(chunkMap[n]) \subseteq channel'
      /\ ListsAll => channel' \subseteq used \ Range(chunkMap[n])
  BY <1>1, <1>3, <1>4 DEF Accounts
<1>9. Settled(req'[w])
  BY <1>1, <1>2, NextKeySettled
<1> QED BY <1>7, <1>8, <1>9, SettlesWith

\* The answer of a request that reads an object.
LEMMA ReadAnswered ==
  ASSUME MPTypeInv, NEW w \in Workers, NEW s, AnswerRead(w, s)
  PROVE  /\ req'[w].pc = "done" /\ req'[w].op = req[w].op
         /\ req'[w].name = req[w].name /\ req'[w].status = s
<1> DEFINE r == [Idle EXCEPT !.pc = "done", !.op = req[w].op, !.name = req[w].name, !.status = s]
<1>1. req'[w] = r
  BY NewRequest DEF AnswerRead
<1>2. r.pc = "done" /\ r.op = req[w].op /\ r.name = req[w].name /\ r.status = s
  BY DEF Idle
<1> QED BY <1>1, <1>2

\* A GET that goes on with what it has read.
LEMMA GetGoesOn ==
  ASSUME Clean, NEW w \in Workers, UNCHANGED <<objects, chunkMap, partMap, channel>>,
         req[w].pc \in {"loadRow", "loadChunks", "stream"},
         req'[w].pc \in {"loadChunks", "stream", "done"}, req'[w].op = "get",
         ReadsCurrent(objects, chunkMap, req'[w])
  PROVE  NotShared(chunkMap', partMap') /\ InOrder(w)'
<1>1. /\ Spare(req[w]) = {} /\ Missing(req[w], mp[w]) = {}
      /\ Spare(req'[w]) = {} /\ Missing(req'[w], mp'[w]) = {}
  BY NothingToSpare
<1>2. ListsCurrent(chunkMap', partMap', req'[w], mp'[w])
  BY DEF ListsCurrent, Gathering
<1> QED BY <1>1, <1>2, KeepsAccounts DEF InOrder

\* loadRow and loadChunks.
LEMMA LoadsInOrder ==
  ASSUME ~Faulty, MPTypeInv, Clean, NEW w \in Workers, UNCHANGED mpStore,
         loadRow(w) \/ loadChunks(w)
  PROVE  NotShared(chunkMap', partMap') /\ InOrder(w)'
<1> DEFINE s == req[w].src
           row == objects[s]
           q == IF req[w].op = "get" THEN "stream" ELSE "copyUpload"
           ms == chunkMap[s]
           r1 == [req[w] EXCEPT !.pc = "loadChunks", !.row = row]
           r2 == [req[w] EXCEPT !.pc = q, !.read = ms]
<1>1. /\ UNCHANGED <<objects, chunkMap, partMap, channel>>
      /\ req[w].pc \in {"loadRow", "loadChunks"}
  BY DEF loadRow, loadChunks, store, telegram, mpStore
<1>2. req[w] \in MPRequests /\ InOrder(w)
  BY HandlerInOrder
<1>3. /\ r1.pc = "loadChunks" /\ r1.op = req[w].op /\ r1.name = req[w].name /\ r1.src = s
      /\ r1.row = row
      /\ r2.pc = q /\ r2.op = req[w].op /\ r2.name = req[w].name /\ r2.src = s
      /\ r2.row = req[w].row /\ r2.read = ms
  BY <1>2 DEF MPRequests
<1>4. \/ req[w].pc = "loadRow" /\ row # None /\ req' = [req EXCEPT ![w] = r1]
      \/ req[w].pc = "loadRow" /\ row = None /\ AnswerRead(w, "missing")
      \/ req[w].pc = "loadChunks" /\ req' = [req EXCEPT ![w] = r2]
      \/ req[w].pc = "loadChunks" /\ req[w].op = "get" /\ AnswerRead(w, "conflict")
  BY DEF loadRow, loadChunks
<1> HIDE DEF r1, r2
<1>5. CASE req[w].op # "get"
  <2>1. r1.op # "get" /\ r2.op # "get" /\ r2.pc = "copyUpload"
    BY <1>3, <1>5
  <2>2. Settled(req'[w])
    <3>1. CASE AnswerRead(w, "missing")
      BY <1>5, <3>1, ReadAnswered DEF Settled
    <3> QED BY <1>3, <1>4, <1>5, <2>1, <3>1, SettledRequest
  <2> QED BY <1>1, <2>2, NothingToSpare, SettlesInOrder
<1>6. CASE req[w].op = "get"
  <2>1. /\ s = req[w].name /\ req[w].name \in Names
        /\ req[w].pc = "loadChunks" => req[w].row = row /\ row # None
    BY <1>1, <1>2, <1>6 DEF InOrder, ReadsCurrent
  <2>2. q = "stream"
    BY <1>6
  <2> HIDE DEF s, row, q, ms
  <2>3. CASE req[w].pc = "loadRow" /\ row # None /\ req' = [req EXCEPT ![w] = r1]
    <3>1. req'[w] = r1
      BY <2>3, NewRequest
    <3>2. ReadsCurrent(objects, chunkMap, r1)
      BY <1>3, <1>6, <2>1, <2>3 DEF ReadsCurrent, row
    <3> QED BY <1>1, <1>3, <1>6, <3>1, <3>2, GetGoesOn
  <2>4. CASE req[w].pc = "loadRow" /\ row = None /\ AnswerRead(w, "missing")
    <3>1. /\ req'[w].pc = "done" /\ req'[w].op = "get" /\ req'[w].name = s
          /\ req'[w].status = "missing"
      BY <1>6, <2>1, <2>4, ReadAnswered
    <3>2. ReadsCurrent(objects, chunkMap, req'[w])
      BY <2>4, <3>1 DEF ReadsCurrent, row
    <3> QED BY <1>1, <3>1, <3>2, GetGoesOn
  <2>5. CASE req[w].pc = "loadChunks" /\ req' = [req EXCEPT ![w] = r2]
    <3>1. req'[w] = r2
      BY <2>5, NewRequest
    <3>2. ReadsCurrent(objects, chunkMap, r2)
      BY <1>3, <1>6, <2>1, <2>2, <2>5 DEF ReadsCurrent, row, ms
    <3> QED BY <1>1, <1>3, <1>6, <2>2, <3>1, <3>2, GetGoesOn
  <2>6. CASE req[w].pc = "loadChunks" /\ AnswerRead(w, "conflict")
    <3>1. /\ req'[w].pc = "done" /\ req'[w].op = "get" /\ req'[w].name = s
          /\ req'[w].status = "conflict"
      BY <1>6, <2>1, <2>6, ReadAnswered
    <3>2. ReadsCurrent(objects, chunkMap, req'[w])
      BY <2>1, <2>6, <3>1 DEF ReadsCurrent, row
    <3> QED BY <1>1, <3>1, <3>2, GetGoesOn
  <2> QED BY <1>4, <2>3, <2>4, <2>5, <2>6
<1> QED BY <1>5, <1>6

\* streamObject: the row, the chunk map and the messages are all there.
LEMMA StreamInOrder ==
  ASSUME ~Faulty, MPTypeInv, Serial, Clean, NEW w \in Workers, UNCHANGED mpStore,
         streamObject(w)
  PROVE  NotShared(chunkMap', partMap') /\ InOrder(w)'
<1> DEFINE body == SourceBytes(w)
           r == [req[w] EXCEPT !.pc = "done", !.status = "ok", !.body = body]
<1>1. /\ UNCHANGED <<objects, chunkMap, partMap, channel>> /\ req[w].pc = "stream"
      /\ \/ req' = [req EXCEPT ![w] = r]
         \/ ~Readable(w) /\ AnswerRead(w, "error")
  BY DEF streamObject, store, telegram, mpStore
<1>2. req[w] \in MPRequests /\ InOrder(w)
  BY HandlerInOrder
<1>3. /\ r.pc = "done" /\ r.op = req[w].op /\ r.name = req[w].name /\ r.status = "ok"
      /\ r.body = body /\ r.row = req[w].row
  BY <1>2 DEF MPRequests
<1> HIDE DEF r
<1>4. CASE req[w].op # "get"
  <2>1. CASE AnswerRead(w, "error")
    BY <1>1, <1>4, <2>1, ReadAnswered, NothingToSpare, SettlesInOrder DEF Settled
  <2>2. CASE req' = [req EXCEPT ![w] = r]
    <3>1. Settled(req'[w])
      BY <1>3, <1>4, <2>2, SettledRequest
    <3> QED BY <1>1, <3>1, NothingToSpare, SettlesInOrder
  <2> QED BY <1>1, <2>1, <2>2
<1>5. CASE req[w].op = "get"
  <2> DEFINE n == req[w].name
             ms == chunkMap[n]
  <2>1. n \in Names /\ req[w].row = objects[n] /\ objects[n] # None /\ req[w].read = ms
    BY <1>1, <1>2, <1>5 DEF InOrder, ReadsCurrent
  <2>2. req[w].row.size = Len(ms)
    BY <2>1 DEF Serial, TablesTrue, ETagCoversMap
  <2>3. ms \in Seq(Messages)
    BY <2>1 DEF MPTypeInv, MPTablesOK
  <2>4. Len(ms) \in Nat /\ DOMAIN ms = 1..Len(ms)
    BY <2>3
  <2>5. body = DocsOf(ms)
    <3> HIDE DEF ms
    <3>1. (1..Len(ms)) \cap DOMAIN ms = DOMAIN ms
      BY <2>4
    <3> QED BY <2>1, <2>2, <3>1 DEF SourceBytes, DocsOf
  <2>6. Used(chunkMap, partMap) \subseteq channel
    BY <1>1, <1>2, NothingToSpare DEF InOrder, Accounts
  <2>7. Readable(w)
    <3>1. Range(ms) \subseteq channel
      BY <2>1, <2>6, UsedMember
    <3>2. \A i \in 1..Len(ms) : ms[i] \in Range(ms)
      BY <2>4 DEF Range
    <3> HIDE DEF ms
    <3> QED BY <2>1, <2>2, <2>4, <3>1, <3>2 DEF Readable, Covered
  <2>8. req'[w] = r
    BY <1>1, <2>7, NewRequest
  <2>9. ReadsCurrent(objects, chunkMap, r)
    BY <1>3, <2>1, <2>5 DEF ReadsCurrent
  <2> QED BY <1>1, <1>3, <1>5, <2>8, <2>9, GetGoesOn
<1> QED BY <1>4, <1>5

----------------------------------------------------------------------------
(* Requests one after the other, without failures: completions and aborts  *)

\* The messages of two lists, one after the other.
LEMMA RangeOfConcat ==
  ASSUME NEW a \in Seq(Messages), NEW b \in Seq(Messages)
  PROVE  Range(a \o b) = Range(a) \cup Range(b)
<1>1. /\ a \o b \in Seq(Messages) /\ Len(a \o b) = Len(a) + Len(b)
      /\ \A i \in 1..Len(a) + Len(b) : (a \o b)[i] = IF i <= Len(a) THEN a[i] ELSE b[i - Len(a)]
  BY ConcatProperties
<1>2. Len(a) \in Nat /\ Len(b) \in Nat /\ DOMAIN a = 1..Len(a) /\ DOMAIN b = 1..Len(b)
  OBVIOUS
<1>3. DOMAIN (a \o b) = 1..Len(a) + Len(b)
  BY <1>1, SMTT(60)
<1>4. ASSUME NEW i \in 1..Len(a)
      PROVE  a[i] \in Range(a \o b)
  <2>1. i \in 1..Len(a) + Len(b) /\ i <= Len(a)
    BY <1>2
  <2>2. a[i] = (a \o b)[i]
    BY <1>1, <2>1
  <2> QED BY <1>3, <2>1, <2>2 DEF Range
<1>5. ASSUME NEW i \in 1..Len(b)
      PROVE  b[i] \in Range(a \o b)
  <2> DEFINE k == Len(a) + i
  <2>1. k \in 1..Len(a) + Len(b) /\ ~(k <= Len(a)) /\ k - Len(a) = i
    BY <1>2
  <2> HIDE DEF k
  <2>2. b[i] = (a \o b)[k]
    BY <1>1, <2>1
  <2> QED BY <1>3, <2>1, <2>2 DEF Range
<1>6. Range(a) \cup Range(b) \subseteq Range(a \o b)
  BY <1>2, <1>4, <1>5 DEF Range
<1> QED BY <1>6, RangeConcat

\* Nothing is gathered from no part; the next part adds its messages.
LEMMA GatheredNext ==
  ASSUME NEW ps, NEW l, NEW k, l.got \in Nat, k.got = l.got + 1, k.list = l.list
  PROVE  Gathered(ps, k) = Gathered(ps, l) \cup Range(ps[l.list[l.got + 1].num])
<1>1. \A i : i \in 1..k.got <=> i \in 1..l.got \/ i = l.got + 1
  OBVIOUS
<1>2. ASSUME NEW m
      PROVE  m \in Gathered(ps, k) <=>
               m \in Gathered(ps, l) \cup Range(ps[l.list[l.got + 1].num])
  <2>1. /\ m \in Gathered(ps, k) <=> \E i \in 1..k.got : m \in Range(ps[k.list[i].num])
        /\ m \in Gathered(ps, l) <=> \E i \in 1..l.got : m \in Range(ps[l.list[i].num])
    BY DEF Gathered
  <2> QED BY <1>1, <2>1, Zenon
<1> QED BY <1>2

\* A completed list gathers messages of its upload's parts, and all of them if
\* completions list all parts.
LEMMA GatheredAll ==
  ASSUME NEW ps, NEW l \in Locals, ValidParts(l.list, l.stored), l.got = Len(l.list),
         l.list \in CompleteLists
  PROVE  /\ Gathered(ps, l) \subseteq PartMessages(ps)
         /\ ListsAll => Gathered(ps, l) = PartMessages(ps)
<1>1. l.list \in Seq(PartEntries)
  BY DEF Locals
<1>2. DOMAIN l.list = 1..l.got
  BY <1>1
<1>3. /\ \A i \in 1..l.got : l.list[i].num \in PartNumbers
      /\ \A i \in 1..Len(l.list) - 1 : l.list[i].num < l.list[i + 1].num
  BY <1>2 DEF ValidParts
<1>4. \A m : m \in Gathered(ps, l) <=> \E i \in 1..l.got : m \in Range(ps[l.list[i].num])
  BY DEF Gathered
<1>5. Gathered(ps, l) \subseteq PartMessages(ps)
  BY <1>3, <1>4, UsedMember
<1>6. ASSUME ListsAll
      PROVE  PartMessages(ps) \subseteq Gathered(ps, l)
  <2>1. PartNumbers \subseteq {l.list[i].num : i \in 1..l.got}
    BY <1>2, <1>3, <1>6 DEF ListsAll
  <2> QED BY <1>4, <2>1, UsedMember
<1> QED BY <1>5, <1>6

\* CreateMultipartUpload.
LEMMA CreateInOrder ==
  ASSUME MPTypeInv, Clean, NEW w \in Workers, CreateMultipartUpload(w)
  PROVE  NotShared(chunkMap', partMap') /\ InOrder(w)'
<1>1. /\ UNCHANGED <<chunkMap, partMap, channel>> /\ req[w].pc = "mpCreate"
      /\ \E s : Answer(w, s)
  BY DEF CreateMultipartUpload, store, telegram
<1> QED BY <1>1, AnswersSettled, NothingToSpare, SettlesInOrder

\* ListMultipartParts.
LEMMA ListPartsInOrder ==
  ASSUME MPTypeInv, Clean, NEW w \in Workers, ListMultipartParts(w)
  PROVE  NotShared(chunkMap', partMap') /\ InOrder(w)'
<1>1. /\ req[w] \in MPRequests /\ mp[w] \in Locals /\ MPFormed(owner, req[w], mp[w])
      /\ InOrder(w) /\ req[w].pc = "mpParts"
      /\ UNCHANGED <<chunkMap, partMap, channel>>
  BY HandlerInOrder DEF ListMultipartParts, store, telegram, mpStore
<1>2. CASE \E s : MPAnswer(w, s)
  BY <1>1, <1>2, AnswersSettled, NothingToSpare, SettlesInOrder DEF MPAnswer
<1> DEFINE stored == parts[mp[w].upload]
           r == req'[w]
           l == [mp[w] EXCEPT !.stored = stored]
<1>3. CASE Goto(w, "mpGather") /\ mp' = [mp EXCEPT ![w].stored = stored]
  <2>1. mp'[w] = l
    <3> HIDE DEF stored
    <3> QED BY <1>3 DEF MPTypeInv
  <2>2. l.list = mp[w].list /\ l.got = mp[w].got /\ l.upload = mp[w].upload
    BY <1>1 DEF Locals
  <2>3. r.pc = "mpGather" /\ r.op = req[w].op /\ r.chunks = req[w].chunks
    BY <1>3, WentTo
  <2>4. /\ req[w].op = "complete" /\ mp[w].got = 0 /\ req[w].chunks = <<>>
        /\ mp[w].list \in CompleteLists
    BY <1>1 DEF MPFormed, Placed, Linked, Lists, InOrder, ListsCurrent
  <2> HIDE DEF l, r
  <2>5. 1..l.got = {}
    BY <2>2, <2>4
  <2>6. \A ps : Gathered(ps, l) = {}
    BY <2>5 DEF Gathered
  <2>7. Range(r.chunks) = Gathered(partMap'[l.upload], l)
    BY <2>3, <2>4, <2>6, EmptyRange
  <2>8. ListsCurrent(chunkMap', partMap', r, l) /\ ReadsCurrent(objects', chunkMap', r)
    BY <2>2, <2>3, <2>4, <2>7 DEF ListsCurrent, ReadsCurrent, Gathering
  <2>9. /\ Spare(r) = {} /\ Missing(r, l) = {}
        /\ Spare(req[w]) = {} /\ Missing(req[w], mp[w]) = {}
    BY <1>1, <2>3, NothingToSpare
  <2> QED BY <1>1, <2>1, <2>8, <2>9, KeepsAccounts DEF InOrder, r
<1> QED BY <1>2, <1>3 DEF ListMultipartParts

\* gatherPartChunks: what is gathered grows by the messages of the next part.
LEMMA GatherInOrder ==
  ASSUME ~Faulty, MPTypeInv, Serial, Clean, NEW w \in Workers, gatherPartChunks(w)
  PROVE  NotShared(chunkMap', partMap') /\ InOrder(w)'
<1> DEFINE i == mp[w].got + 1
           u == mp[w].upload
           list == mp[w].list
           x == partMap[u][list[i].num]
           q == IF i = Len(list) THEN "readOld" ELSE req[w].pc
           ms == req[w].chunks \o x
           r == [req[w] EXCEPT !.pc = q, !.chunks = ms]
           l == [mp[w] EXCEPT !.got = i]
<1>1. /\ req[w] \in MPRequests /\ mp[w] \in Locals /\ MPFormed(owner, req[w], mp[w])
      /\ InOrder(w) /\ req[w].pc = "mpGather" /\ InTurn(w)
      /\ UNCHANGED <<chunkMap, partMap, channel>>
  BY HandlerInOrder, HandlerInTurn, Zenon DEF gatherPartChunks, store, telegram, mpStore
<1>2. /\ req' = [req EXCEPT ![w].pc = IF i = Len(list) THEN "readOld" ELSE @,
                            ![w].chunks = @ \o x]
      /\ mp' = [mp EXCEPT ![w].got = i]
  BY ZenonT(60) DEF gatherPartChunks
<1>3. /\ req[w].op = "complete" /\ mp[w].got \in Nat /\ mp[w].got < Len(list)
      /\ u \in Uploads /\ Gathering(req[w]) /\ list \in Seq(PartEntries)
  BY <1>1 DEF MPFormed, Placed, Linked, OnUpload, Gathering, Locals
<1>4. /\ list \in CompleteLists /\ Range(req[w].chunks) = Gathered(partMap[u], mp[w])
      /\ ValidParts(list, mp[w].stored)
  BY <1>1, <1>3 DEF InOrder, ListsCurrent, InTurn, Carries
<1>5. list[i].num \in PartNumbers
  <2>1. i \in DOMAIN list
    BY <1>3
  <2> HIDE DEF i, list
  <2> QED BY <1>4, <2>1 DEF ValidParts
<1>6. x \in Seq(Messages) /\ req[w].chunks \in Seq(Messages)
  <2> HIDE DEF i, u, list
  <2> QED BY <1>1, <1>3, <1>5 DEF MPTypeInv, MPTablesOK, MPRequests
<1>7. req' = [req EXCEPT ![w] = r] /\ mp' = [mp EXCEPT ![w] = l]
  <2>1. req \in [Workers -> MPRequests]
    BY DEF MPTypeInv
  <2> HIDE DEF x, i, list
  <2> QED BY <1>2, <2>1, ZenonT(60) DEF MPRequests
<1>8. q \in {"readOld", "mpGather"}
  BY <1>1
<1> HIDE DEF ms, q, x
<1>9. r.pc = q /\ r.chunks = ms /\ r.op = "complete"
  BY <1>1, <1>3 DEF MPRequests
<1>10. l.got = mp[w].got + 1 /\ l.upload = u /\ l.list = list
  BY <1>1 DEF Locals
<1>11. req'[w] = r /\ mp'[w] = l
  BY <1>7 DEF MPTypeInv
<1> HIDE DEF r, l
<1>12. Gathered(partMap[u], l) = Gathered(partMap[u], mp[w]) \cup Range(x)
  BY <1>3, <1>10, GatheredNext, Zenon DEF x, i, list
<1>13. Range(ms) = Range(req[w].chunks) \cup Range(x)
  BY <1>6, RangeOfConcat DEF ms
<1> HIDE DEF i, u, list
<1>14. Range(r.chunks) = Gathered(partMap'[l.upload], l)
  BY <1>1, <1>4, <1>9, <1>10, <1>12, <1>13
<1>15. ListsCurrent(chunkMap', partMap', r, l) /\ ReadsCurrent(objects', chunkMap', r)
  BY <1>4, <1>8, <1>9, <1>10, <1>14 DEF ListsCurrent, ReadsCurrent
<1>16. /\ Spare(r) = {} /\ Missing(r, l) = {}
       /\ Spare(req[w]) = {} /\ Missing(req[w], mp[w]) = {}
  BY <1>1, <1>8, <1>9 DEF Spare, Missing
<1> QED BY <1>1, <1>11, <1>15, <1>16, KeepsAccounts DEF InOrder

\* FinalizeMultipartUpload: the object takes over the messages of the parts.
LEMMA FinalizeInOrder ==
  ASSUME ~Faulty, MPTypeInv, References, Serial, Clean, NEW w \in Workers,
         FinalizeMultipartUpload(w)
  PROVE  NotShared(chunkMap', partMap') /\ InOrder(w)'
<1> DEFINE n == req[w].name
           u == mp[w].upload
           ms == req[w].chunks
           used == Used(chunkMap, partMap)
           all == PartMessages(partMap[u])
<1>1. /\ req[w].pc = "commit" /\ req[w].op = "complete"
      /\ chunkMap' = [chunkMap EXCEPT ![n] = ms]
      /\ partMap' = [partMap EXCEPT ![u] = NoPartChunks]
      /\ UNCHANGED channel /\ Goto(w, "reap")
  BY DEF FinalizeMultipartUpload, replaceObjectChunksTx, telegram
<1>2. /\ InOrder(w) /\ InTurn(w) /\ n \in Names /\ u \in Uploads
      /\ mp[w] \in Locals /\ Gathering(req[w])
  BY <1>1, HandlerInOrder, HandlerInTurn DEF MPFormed, Named, Linked, OnUpload, Gathering
<1>3. /\ req[w].old = chunkMap[n] /\ Accounts(used, channel, req[w], mp[w])
      /\ Range(ms) = Gathered(partMap[u], mp[w])
      /\ mp[w].list \in CompleteLists
      /\ ValidParts(mp[w].list, mp[w].stored) /\ mp[w].got = Len(mp[w].list)
  BY <1>1, <1>2 DEF InOrder, ListsCurrent, InTurn, Carries
<1>4. Spare(req[w]) = {} /\ Missing(req[w], mp[w]) = {}
  BY <1>1 DEF Spare, Missing
<1>5. used \subseteq channel /\ (ListsAll => channel \subseteq used)
  BY <1>3, <1>4 DEF Accounts
<1>6. Range(ms) \subseteq all /\ (ListsAll => Range(ms) = all)
  BY <1>2, <1>3, GatheredAll
<1>7. /\ chunkMap \in ObjectMaps /\ partMap \in PartMaps /\ Disjoint(chunkMap, partMap)
      /\ Range(chunkMap[n]) \subseteq used /\ all \subseteq used
      /\ Range(chunkMap[n]) \cap all = {}
  BY <1>2, MapsDisjoint, UsedMember DEF Disjoint, NotShared
<1> HIDE DEF n, u, ms, used, all
<1>8. /\ Used(chunkMap', partMap') = ((used \ all) \ Range(chunkMap[n])) \cup Range(ms)
      /\ NotShared(chunkMap', partMap')
  <2>1. /\ Used([chunkMap EXCEPT ![n] = ms], [partMap EXCEPT ![u] = NoPartChunks])
             = ((used \ all) \ Range(chunkMap[n])) \cup Range(ms)
        /\ NotShared([chunkMap EXCEPT ![n] = ms], [partMap EXCEPT ![u] = NoPartChunks])
    BY <1>2, <1>6, <1>7, PartsMoved, Zenon DEF used, all
  <2> QED BY <1>1, <2>1, Zenon
<1>9. /\ req'[w].pc = "reap" /\ req'[w].op = req[w].op /\ req'[w].old = req[w].old
      /\ ListsCurrent(chunkMap', partMap', req'[w], mp'[w])
      /\ ReadsCurrent(objects', chunkMap', req'[w])
  BY <1>1, CommittedRequest
<1>10. Spare(req'[w]) = Range(chunkMap[n]) /\ Missing(req'[w], mp'[w]) = {}
  BY <1>3, <1>9 DEF Spare, Missing
<1>11. Accounts(Used(chunkMap', partMap'), channel', req'[w], mp'[w])
  <2>1. Range(chunkMap[n]) \cap (((used \ all) \ Range(chunkMap[n])) \cup Range(ms)) = {}
    BY <1>6, <1>7
  <2>2. (((used \ all) \ Range(chunkMap[n])) \cup Range(ms)) \cup Range(chunkMap[n]) \subseteq channel
    BY <1>5, <1>6, <1>7
  <2>3. ASSUME ListsAll
        PROVE  channel \subseteq
                 (((used \ all) \ Range(chunkMap[n])) \cup Range(ms)) \cup Range(chunkMap[n])
    BY <1>5, <1>6, <2>3
  <2> QED BY <1>1, <1>8, <1>10, <2>1, <2>2, <2>3 DEF Accounts
<1> QED BY <1>8, <1>9, <1>11 DEF InOrder

\* sweepNext.
LEMMA SweepNextInOrder ==
  ASSUME MPTypeInv, Clean, NEW w \in Workers, sweepNext(w)
  PROVE  NotShared(chunkMap', partMap') /\ InOrder(w)'
<1>1. /\ req[w] \in MPRequests /\ MPFormed(owner, req[w], mp[w])
      /\ req[w].pc = "sweepNext" /\ UNCHANGED <<chunkMap, partMap, channel>>
  BY HandlerInOrder DEF sweepNext, store, telegram, mpStore
<1>2. PICK u : req' = [req EXCEPT ![w] = [req[w] EXCEPT !.pc = "mpAll", !.name = owner[u]]]
  BY Zenon DEF sweepNext, MPTypeInv
<1> DEFINE r == [req[w] EXCEPT !.pc = "mpAll", !.name = owner[u]]
<1>3. r.pc = "mpAll" /\ r.op = req[w].op /\ req[w].op # "get"
  BY <1>1 DEF MPRequests, MPFormed, Placed
<1>4. req' = [req EXCEPT ![w] = r]
  BY <1>2
<1> HIDE DEF r
<1>5. Settled(req'[w])
  BY <1>3, <1>4, SettledRequest
<1> QED BY <1>1, <1>5, NothingToSpare, SettlesInOrder

\* AllMultipartChunks.
LEMMA AllChunksInOrder ==
  ASSUME ~Faulty, MPTypeInv, Clean, NEW w \in Workers, AllMultipartChunks(w)
  PROVE  NotShared(chunkMap', partMap') /\ InOrder(w)'
<1> DEFINE all == UNION {Range(partMap[mp[w].upload][p]) : p \in PartNumbers}
           l == [mp[w] EXCEPT !.all = all]
           r == req'[w]
<1>1. /\ req[w].pc = "mpAll" /\ UNCHANGED <<chunkMap, partMap, channel>>
      /\ Goto(w, "mpReap") /\ mp' = [mp EXCEPT ![w].all = all]
  BY DEF AllMultipartChunks, store, telegram, mpStore
<1>2. mp[w] \in Locals /\ MPFormed(owner, req[w], mp[w])
  BY HandlerInOrder
<1>3. all = PartMessages(partMap[mp[w].upload])
  BY DEF PartMessages
<1> HIDE DEF all
<1>4. mp'[w] = l /\ l.all = all /\ l.upload = mp[w].upload
  BY <1>1, <1>2 DEF MPTypeInv, Locals
<1>5. r.pc = "mpReap" /\ r.op # "get" /\ r.op # "complete"
  BY <1>1, <1>2, WentTo DEF MPFormed, Placed
<1> HIDE DEF l, r
<1>6. ListsCurrent(chunkMap', partMap', r, l) /\ ReadsCurrent(objects', chunkMap', r)
  BY <1>1, <1>3, <1>4, <1>5 DEF ListsCurrent, ReadsCurrent, Gathering
<1>7. /\ Spare(r) = {} /\ Missing(r, l) = {}
      /\ Spare(req[w]) = {} /\ Missing(req[w], mp[w]) = {}
  BY <1>1, <1>5, NothingToSpare
<1> QED BY <1>1, <1>4, <1>6, <1>7, KeepsAccounts DEF InOrder, r

\* abortReap: the messages are gone before their rows.
LEMMA AbortReapInOrder ==
  ASSUME ~Faulty, MPTypeInv, Clean, NEW w \in Workers, abortReap(w)
  PROVE  NotShared(chunkMap', partMap') /\ InOrder(w)'
<1> DEFINE all == mp[w].all
           used == Used(chunkMap, partMap)
           r == req'[w]
<1>1. /\ req[w].pc = "mpReap" /\ channel' = channel \ all
      /\ UNCHANGED <<chunkMap, partMap, mp>> /\ Goto(w, "mpDrop")
  BY DEF abortReap, DeleteBatch, store, mpVars, mpStore
<1>2. InOrder(w) /\ NotShared(chunkMap, partMap) /\ MPFormed(owner, req[w], mp[w])
  BY HandlerInOrder
<1>3. all = PartMessages(partMap[mp[w].upload])
  BY <1>1, <1>2 DEF InOrder, ListsCurrent
<1>4. used \subseteq channel /\ (ListsAll => channel \subseteq used)
  BY <1>1, <1>2, NothingToSpare DEF InOrder, Accounts
<1>5. r.pc = "mpDrop" /\ r.op # "get" /\ r.op # "complete"
  BY <1>1, <1>2, WentTo DEF MPFormed, Placed
<1> HIDE DEF r
<1>6. Spare(r) = {} /\ Missing(r, mp[w]) = all
  BY <1>5 DEF Spare, Missing
<1>7. ListsCurrent(chunkMap', partMap', r, mp[w]) /\ ReadsCurrent(objects', chunkMap', r)
  BY <1>1, <1>3, <1>5 DEF ListsCurrent, ReadsCurrent, Gathering
<1> HIDE DEF all, used
<1>8. Accounts(used, channel', r, mp[w])
  BY <1>1, <1>4, <1>6 DEF Accounts
<1> QED BY <1>1, <1>2, <1>7, <1>8 DEF InOrder, used, r

\* DeleteMultipartUpload: the rows follow the messages.
LEMMA DropInOrder ==
  ASSUME ~Faulty, MPTypeInv, References, Clean, NEW w \in Workers, DeleteMultipartUpload(w)
  PROVE  NotShared(chunkMap', partMap') /\ InOrder(w)'
<1> DEFINE u == mp[w].upload
           used == Used(chunkMap, partMap)
           all == PartMessages(partMap[u])
<1>1. /\ req[w].pc = "mpDrop" /\ partMap' = [partMap EXCEPT ![u] = NoPartChunks]
      /\ UNCHANGED <<chunkMap, channel>> /\ AbortDone(w, "ok")
  BY DEF DeleteMultipartUpload, store, telegram
<1>2. InOrder(w) /\ u \in Uploads /\ req[w].op \in {"abort", "sweep"}
  BY <1>1, HandlerInOrder DEF MPFormed, Linked, OnUpload, Placed
<1>3. mp[w].all = all /\ Accounts(used, channel, req[w], mp[w])
  BY <1>1, <1>2 DEF InOrder, ListsCurrent
<1>4. Spare(req[w]) = {} /\ Missing(req[w], mp[w]) = all
  BY <1>1, <1>3 DEF Spare, Missing
<1>5. chunkMap \in ObjectMaps /\ partMap \in PartMaps /\ Disjoint(chunkMap, partMap)
  BY MapsDisjoint
<1> HIDE DEF u, used, all
<1>6. Used(chunkMap', partMap') = used \ all /\ NotShared(chunkMap', partMap')
  <2>1. /\ Used(chunkMap, [partMap EXCEPT ![u] = NoPartChunks]) = used \ all
        /\ Disjoint(chunkMap, [partMap EXCEPT ![u] = NoPartChunks])
    BY <1>2, <1>5, PartsDropped, Zenon DEF used, all
  <2> QED BY <1>1, <2>1 DEF Disjoint
<1>7. used \ all \subseteq channel' /\ (ListsAll => channel' \subseteq used \ all)
  BY <1>1, <1>3, <1>4 DEF Accounts
<1>8. Settled(req'[w])
  <2>1. Answer(w, "ok") \/ Goto(w, "sweepNext")
    BY <1>1 DEF AbortDone, MPAnswer
  <2> QED BY <1>2, <2>1, AnswersSettled, GoesOnSettled
<1> QED BY <1>6, <1>7, <1>8, SettlesWith

----------------------------------------------------------------------------
(* Requests one after the other, without failures: what holds              *)

\* Clean holds initially.
LEMMA CleanInit ==
  ASSUME MPInit
  PROVE  Clean
<1>1. /\ \A n \in Names : Range(chunkMap[n]) = {}
      /\ \A u \in Uploads : PartMessages(partMap[u]) = {}
  <2>1. \A n \in Names : Range(chunkMap[n]) = {}
    BY EmptyRange DEF MPInit, Init
  <2>2. \A u \in Uploads, p \in PartNumbers : Range(partMap[u][p]) = {}
    BY EmptyRange DEF MPInit, NoPartChunks
  <2> QED BY <2>1, <2>2, UsedMember
<1>2. Used(chunkMap, partMap) = {} /\ NotShared(chunkMap, partMap)
  BY <1>1, UsedMember DEF NotShared
<1>3. ASSUME NEW w \in Workers
      PROVE  InOrder(w)
  <2>1. req[w] = Idle /\ Idle.pc = "idle" /\ Idle.op = "none"
    BY DEF MPInit, Init, Idle
  <2>2. Settled(req[w])
    BY <2>1 DEF Settled
  <2>3. /\ Spare(req[w]) = {} /\ Missing(req[w], mp[w]) = {}
        /\ ListsCurrent(chunkMap, partMap, req[w], mp[w])
        /\ ReadsCurrent(objects, chunkMap, req[w])
    BY <2>2, SettledLists
  <2>4. channel = {}
    BY DEF MPInit, Init
  <2> QED BY <1>2, <2>3, <2>4 DEF InOrder, Accounts
<1> QED BY <1>2, <1>3 DEF Clean

\* Every step of an object handler.
LEMMA ObjectInOrder ==
  ASSUME ~Faulty, MPTypeInv, References, Serial, Clean, NEW w \in Workers, ObjectStep(w)
  PROVE  NotShared(chunkMap', partMap') /\ InOrder(w)'
<1>1. ObjectLocals(w) /\ UNCHANGED mpStore
  BY DEF ObjectStep, ObjectLocals
<1>2. CASE Begin(w)
  BY <1>1, <1>2, BeginInOrder
<1>3. CASE Step(w)
  BY <1>1, <1>3, UploadsInOrder, ReadOldsInOrder, PutInOrder, RemovesInOrder, EndInOrder,
     DeleteReadsInOrder, DeleteReapInOrder, DeleteInOrder, LoadsInOrder, StreamInOrder, Zenon
  DEF Step
<1> QED BY <1>2, <1>3 DEF ObjectStep

\* Every step of a multipart handler.
LEMMA MultipartInOrder ==
  ASSUME ~Faulty, MPTypeInv, References, Serial, Clean, NEW w \in Workers, MPStep(w)
  PROVE  NotShared(chunkMap', partMap') /\ InOrder(w)'
BY CreateInOrder, ReadOldsInOrder, PutPartInOrder, ListPartsInOrder, GatherInOrder,
   FinalizeInOrder, SweepNextInOrder, AllChunksInOrder, AbortReapInOrder, DropInOrder, Zenon
DEF MPStep

\* Every step of the only worker keeps Clean.
LEMMA CleanStep ==
  ASSUME Alone, ~Faulty, MPTypeInv, References, Serial, Clean, [MPNext]_allVars
  PROVE  Clean'
<1>1. ASSUME NEW w \in Workers, ObjectStep(w) \/ MPBegin(w) \/ MPStep(w)
      PROVE  Clean'
  BY <1>1, ObjectInOrder, MPBeginInOrder, MultipartInOrder, OnlyWorkerClean
<1>2. CASE UNCHANGED allVars
  <2>1. UNCHANGED <<objects, chunkMap, partMap, channel, req, mp>>
    BY <1>2 DEF allVars, vars, telegram, mpVars, mpStore
  <2>2. ASSUME NEW w \in Workers
        PROVE  InOrder(w)'
    BY <2>1 DEF Clean, InOrder
  <2> QED BY <2>1, <2>2 DEF Clean
<1>3. ~Crash
  BY DEF Crash
<1> QED BY <1>1, <1>2, <1>3, Zenon DEF MPNext

\* Requests one after the other, without failures, keep Clean.
LEMMA CleanHolds ==
  ASSUME Alone, ~Faulty
  PROVE  MPSpec => [](MPTypeInv /\ Serial /\ Clean)
<1>1. MPInit => MPTypeInv /\ References /\ Serial /\ Clean
  BY MPTypeInvInit, ReferencesInit, SerialInit, CleanInit
<1>2. MPTypeInv /\ References /\ Serial /\ Clean /\ [MPNext]_allVars
        => (MPTypeInv /\ References /\ Serial /\ Clean)'
  BY MPTypeInvStep, ReferencesStep, SerialStep, CleanStep
<1> QED BY <1>1, <1>2, PTL DEF MPSpec

\* A GET without failures and without concurrency answers the object's current
\* row and the bytes its chunk map holds, or refuses its conditions, and reports
\* a missing object exactly when there is none: after any uploads, overwrites,
\* copies, deletes, completions, aborts and sweeps.
THEOREM SequentialReads ==
  ASSUME Alone, ~Faulty
  PROVE  MPSpec => []GetServesCurrent
<1>1. Clean => GetServesCurrent
  <2> SUFFICES ASSUME Clean, NEW w \in Workers, req[w].pc = "done", req[w].op = "get"
               PROVE IF objects[req[w].name] = None
                       THEN req[w].status = "missing"
                       ELSE /\ req[w].status \in {"ok", "conflict"}
                            /\ req[w].status = "ok" =>
                                 /\ req[w].row = objects[req[w].name]
                                 /\ req[w].body = DocsOf(chunkMap[req[w].name])
    BY Zenon DEF GetServesCurrent
  <2> QED BY DEF Clean, InOrder, ReadsCurrent
<1> QED BY <1>1, CleanHolds, PTL

\* The messages the tables refer to are the used ones.
LEMMA ReferencedUsed == Referenced = Used(chunkMap, partMap)
<1>1. ASSUME NEW m
      PROVE  m \in Referenced <=>
               \/ \E n \in Names : m \in Range(chunkMap[n])
               \/ \E u \in Uploads, p \in PartNumbers : m \in Range(partMap[u][p])
  BY DEF Referenced
<1>2. ASSUME NEW m
      PROVE  m \in Referenced <=> m \in Used(chunkMap, partMap)
  BY <1>1, UsedMember
<1> QED BY <1>2

\* What requests one after the other account for at rest.
LEMMA AtRest ==
  ASSUME MPTypeInv, Clean, Quiescent, Workers # {}
  PROVE  Referenced \subseteq channel /\ (ListsAll => channel \subseteq Referenced)
<1>1. PICK w \in Workers : req[w].pc \in {"idle", "done"}
  BY DEF Quiescent
<1>2. Spare(req[w]) = {} /\ Missing(req[w], mp[w]) = {}
  BY <1>1, NothingToSpare
<1>3. Accounts(Used(chunkMap, partMap), channel, req[w], mp[w])
  BY DEF Clean, InOrder
<1> QED BY <1>2, <1>3, ReferencedUsed DEF Accounts

\* Without failures and without concurrency no object and no part has lost a
\* message at rest, whatever the completions listed.
THEOREM SequentialNothingLost ==
  ASSUME Alone, Workers # {}, ~Faulty
  PROVE  MPSpec => [](Quiescent => Referenced \subseteq channel)
<1>1. MPTypeInv /\ Clean => (Quiescent => Referenced \subseteq channel)
  BY AtRest
<1> QED BY <1>1, CleanHolds, PTL

\* Without failures and without concurrency, at rest the channel holds exactly
\* the messages the tables refer to, if completions list all stored parts.
THEOREM SequentialChannel ==
  ASSUME Alone, Workers # {}, ~Faulty, ListsAll
  PROVE  MPSpec => []NothingLeftBehind
<1>1. MPTypeInv /\ Clean => NothingLeftBehind
  BY AtRest DEF NothingLeftBehind
<1> QED BY <1>1, CleanHolds, PTL
=============================================================================
