------------------------ MODULE ObjectGatewayProofs ------------------------
(***************************************************************************)
(* Proofs about ObjectGateway, for every set of workers, buckets, keys and *)
(* bodies and every number of messages, with faults and crashes.           *)
(*                                                                         *)
(* The argument: ids are handed out once (FreshIds), so the messages of an *)
(* upload are no one else's when it returns; from then on every message    *)
(* has one owner (OneOwner) and a stale list of superseded messages never  *)
(* names an owned one (DoomedNotOwned).  Each is preserved only together   *)
(* with the others.                                                        *)
(***************************************************************************)
EXTENDS ObjectGateway, SequenceTheorems, TLAPS

----------------------------------------------------------------------------
(* What uploads, reads and deletes do                                      *)

\* The rest of a list with two or more entries.
LEMMA RestOfList ==
  ASSUME NEW S, NEW t \in Seq(S), t # <<>>, Len(t) # 1
  PROVE  Tail(t) \in Seq(S) /\ Tail(t) # <<>> /\ t[2] \in S
<1>1. Len(t) \in Nat /\ Len(t) # 0
  BY EmptySeq
<1>2. \A k \in Nat : k # 0 /\ k # 1 => 2 \in 1..k /\ k - 1 # 0
  OBVIOUS
<1>3. 2 \in 1..Len(t) /\ Len(t) - 1 # 0
  BY <1>1, <1>2, Zenon
<1>4. t[2] \in S
  BY <1>3
<1>5. Tail(t) \in Seq(S) /\ Len(Tail(t)) = Len(t) - 1
  BY HeadTailProperties
<1>6. Tail(t) # <<>>
  BY <1>3, <1>5, EmptySeq, Zenon
<1> QED BY <1>4, <1>5, <1>6

\* Upload's chunks: messages, with new ids, that hold the body.
LEMMA SentType ==
  ASSUME NEW first \in Nat, NEW body \in Seq(Documents)
  PROVE  /\ Sent(first, body) \in Seq(Messages)
         /\ \A m \in Range(Sent(first, body)) : first <= m.id /\ m.id < first + Len(body)
         /\ DocsOf(Sent(first, body)) = body
<1>1. DOMAIN body = 1..Len(body) /\ Len(body) \in Nat
  OBVIOUS
<1>2. \A i \in 1..Len(body) : /\ first + i - 1 \in Nat
                              /\ first <= first + i - 1
                              /\ first + i - 1 < first + Len(body)
  BY <1>1
<1>3. \A i \in 1..Len(body) : [id |-> first + i - 1, doc |-> body[i]] \in Messages
  BY <1>1, <1>2 DEF Messages
<1>4. Sent(first, body) \in [1..Len(body) -> Messages]
  BY <1>1, <1>3 DEF Sent
<1>5. Sent(first, body) \in Seq(Messages)
  BY <1>1, <1>4
<1>6. \A i \in 1..Len(body) : Sent(first, body)[i] = [id |-> first + i - 1, doc |-> body[i]]
  BY <1>1 DEF Sent
<1>7. \A m \in Range(Sent(first, body)) : first <= m.id /\ m.id < first + Len(body)
  BY <1>2, <1>4, <1>6 DEF Range
<1>8. DocsOf(Sent(first, body)) = body
  BY <1>1, <1>4, <1>6 DEF DocsOf
<1> QED BY <1>5, <1>7, <1>8

\* The documents a reader delivers form a body.
LEMMA SourceBytesType ==
  ASSUME NEW w, req[w].row \in Rows, req[w].read \in Seq(Messages)
  PROVE  SourceBytes(w) \in Seq(Documents)
<1> DEFINE size == req[w].row.size
           read == req[w].read
<1>1. size \in Nat /\ read \in Seq(Messages)
  BY DEF Rows
<1>2. SourceBytes(w) = [i \in (1..size) \cap DOMAIN read |-> read[i].doc]
  BY DEF SourceBytes
<1> HIDE DEF size, read
<1>3. DOMAIN read = 1..Len(read) /\ Len(read) \in Nat
  BY <1>1
<1>4. PICK k \in Nat : (1..size) \cap (1..Len(read)) = 1..k /\ k <= Len(read)
  <2>1. CASE size <= Len(read)
    BY <1>1, <1>3, <2>1
  <2>2. CASE Len(read) <= size
    BY <1>1, <1>3, <2>2
  <2> QED BY <1>1, <1>3, <2>1, <2>2
<1>5. \A i \in 1..k : read[i].doc \in Documents
  <2>1. \A i \in 1..k : i \in 1..Len(read)
    BY <1>3, <1>4
  <2>2. \A i \in 1..Len(read) : read[i] \in Messages
    BY <1>1
  <2> QED BY <2>1, <2>2 DEF Messages
<1>6. SourceBytes(w) \in [1..k -> Documents]
  BY <1>2, <1>3, <1>4, <1>5
<1> QED BY <1>4, <1>6

\* The row of an object stored in one piece.
LEMMA ObjectRowType ==
  ASSUME NEW body \in Seq(Documents)
  PROVE  ObjectRow(body) \in Rows
<1>1. <<body>> \in Seq(Seq(Documents)) /\ Len(body) \in Nat
  OBVIOUS
<1> QED BY <1>1 DEF ObjectRow, Md5, Rows, ETags

\* DeleteBatch only removes messages.
LEMMA DeleteBatchType ==
  ASSUME NEW refs, DeleteBatch(refs), channel \subseteq Messages
  PROVE  channel' \subseteq channel /\ channel \ channel' \subseteq refs /\ UNCHANGED nextId
BY DEF DeleteBatch

\* A failed upload leaves messages with new ids in the channel, or none.
LEMMA UploadFailsType ==
  ASSUME NEW w, NEW body \in Seq(Documents), UploadFails(w, body), channel \subseteq Messages,
         nextId \in Nat
  PROVE  /\ channel \subseteq channel' /\ channel' \subseteq Messages
         /\ nextId' \in Nat /\ nextId' >= nextId
         /\ Answer(w, "error")
<1>1. PICK left \in SUBSET DOMAIN body :
         /\ channel' = channel \cup {Sent(nextId, body)[i] : i \in left}
         /\ nextId' = IF left = {} THEN nextId ELSE nextId + Len(body)
  BY DEF UploadFails
<1>2. \A i \in DOMAIN body : Sent(nextId, body)[i] \in Messages
  <2>1. Sent(nextId, body) \in Seq(Messages) /\ DOMAIN Sent(nextId, body) = DOMAIN body
    BY SentType DEF Sent
  <2> QED BY <2>1
<1>3. channel' \subseteq Messages /\ channel \subseteq channel'
  BY <1>1, <1>2
<1>4. nextId' \in Nat /\ nextId' >= nextId
  <2>1. Len(body) \in Nat
    OBVIOUS
  <2> QED BY <1>1, <2>1
<1> QED BY <1>3, <1>4 DEF UploadFails

----------------------------------------------------------------------------
(* The inductive invariant                                                 *)

\* What a handler has put in its locals when it is at a position that uses them.
Formed(r) ==
  /\ r.pc \in {"upload", "copyUpload", "loadRow", "loadChunks", "readOld", "commit", "reap",
               "delRow", "delChunks", "delReap", "delCommit"} => r.name \in Names
  /\ r.pc \in {"loadRow", "loadChunks"} => r.src \in Names
  /\ r.pc \in {"loadChunks", "stream", "copyUpload"} => r.row \in Rows
  /\ r.pc \in {"delRow", "delChunks", "delReap", "delCommit"} => r.todo # <<>>

\* TypeOK with the well-formedness of the handlers' locals.
TypeInv == TypeOK /\ \A w \in Workers : Formed(req[w])

\* Every message some table or handler refers to has an id already given out.
FreshIds ==
  /\ \A n \in Names : \A m \in Range(chunkMap[n]) : m.id < nextId
  /\ \A w \in Workers : \A m \in InFlight(w) \cup Doomed(w) : m.id < nextId

\* The bytes a handler hashed are the documents of the messages it will commit.
BodyIsSent ==
  \A w \in Workers :
    req[w].pc \in {"readOld", "commit"} => req[w].body = DocsOf(req[w].chunks)

Ownership == FreshIds /\ OneOwner /\ DoomedNotOwned

\* A row describes the chunks it was committed with.
Matches == BodyIsSent /\ RowMatchesMap

----------------------------------------------------------------------------
(* Moves of one handler                                                    *)

\* Only worker w's request changes, to a well-formed one.
Moves(w) ==
  /\ req' \in [Workers -> Requests]
  /\ Formed(req'[w])
  /\ \A v \in Workers : v # w => req'[v] = req[v]

\* The idle request is well-formed.
LEMMA IdleType == Idle \in Requests /\ Formed(Idle)
BY DEF Idle, Requests, Formed, Positions, Operations, Statuses

\* A request for w that is well-formed is a move.
LEMMA MoveTo ==
  ASSUME TypeOK, NEW w \in Workers, NEW r \in Requests, Formed(r),
         req' = [req EXCEPT ![w] = r]
  PROVE  Moves(w) /\ req'[w] = r
BY DEF TypeOK, Moves

\* A handler that answers its request.
LEMMA AnswerMoves ==
  ASSUME TypeOK, NEW w \in Workers, NEW s \in Statuses, Answer(w, s)
  PROVE  Moves(w) /\ req'[w].pc = "done"
<1> DEFINE r == [Idle EXCEPT !.pc = "done", !.status = s]
<1>1. r \in Requests /\ r.pc = "done"
  BY IdleType DEF Requests, Positions
<1>2. Formed(r)
  BY <1>1 DEF Formed
<1>3. req' = [req EXCEPT ![w] = r]
  BY DEF Answer
<1> QED BY <1>1, <1>2, <1>3, MoveTo

\* A handler that answers a request that reads an object.
LEMMA AnswerReadMoves ==
  ASSUME TypeOK, NEW w \in Workers, NEW s \in Statuses, AnswerRead(w, s)
  PROVE  Moves(w) /\ req'[w].pc = "done"
<1> DEFINE r == [Idle EXCEPT !.pc = "done", !.op = req[w].op, !.name = req[w].name,
                             !.status = s]
<1>1. req[w] \in Requests
  BY DEF TypeOK
<1>2. r \in Requests /\ r.pc = "done"
  BY <1>1, IdleType, ZenonT(60) DEF Requests, Positions
<1>3. Formed(r)
  BY <1>2 DEF Formed
<1>4. req' = [req EXCEPT ![w] = r]
  BY DEF AnswerRead
<1> QED BY <1>2, <1>3, <1>4, MoveTo

\* deleteOneObject is over: the next key of the list, or the answer.
LEMMA NextKeyMoves ==
  ASSUME TypeInv, NEW w \in Workers, NEW s \in Statuses, NextKey(w, s), req[w].todo # <<>>
  PROVE  Moves(w) /\ req'[w].pc \in {"delRow", "done"}
<1>1. req[w] \in Requests /\ TypeOK
  BY DEF TypeOK, TypeInv
<1>2. CASE Len(req[w].todo) = 1
  BY <1>1, <1>2, AnswerMoves DEF NextKey
<1>3. CASE Len(req[w].todo) # 1
  <2> DEFINE t == Tail(req[w].todo)
             n == req[w].todo[2]
             e == <<>>
             r == [req[w] EXCEPT !.pc = "delRow", !.todo = t, !.name = n, !.old = e]
  <2>1. req' = [req EXCEPT ![w] = r]
    BY <1>3 DEF NextKey
  <2>2. req[w].todo \in Seq(Names)
    BY <1>1 DEF Requests
  <2>3. t \in Seq(Names) /\ t # <<>> /\ n \in Names
    BY <1>3, <2>2, RestOfList
  <2>4. e \in Seq(Messages)
    OBVIOUS
  <2> HIDE DEF t, n, e
  <2>5. r \in Requests /\ r.pc = "delRow" /\ r.name = n /\ r.todo = t
    BY <1>1, <2>3, <2>4 DEF Requests, Positions
  <2> HIDE DEF r
  <2>6. Formed(r)
    BY <2>3, <2>5 DEF Formed
  <2> QED BY <1>1, <2>1, <2>5, <2>6, MoveTo
<1> QED BY <1>2, <1>3

\* A handler that goes on at p, with its locals as they are.
LEMMA GotoMoves ==
  ASSUME TypeOK, NEW w \in Workers, NEW p \in Positions, Goto(w, p),
         Formed([req[w] EXCEPT !.pc = p])
  PROVE  Moves(w) /\ req'[w] = [req[w] EXCEPT !.pc = p]
<1> DEFINE r == [req[w] EXCEPT !.pc = p]
<1>1. r \in Requests
  <2>1. req[w] \in Requests
    BY DEF TypeOK
  <2> QED BY <2>1 DEF Requests
<1>2. req' = [req EXCEPT ![w] = r]
  BY DEF Goto
<1> QED BY <1>1, <1>2, MoveTo

----------------------------------------------------------------------------
(* The steps that leave ownership alone                                    *)

\* The positions at which a handler holds messages: new ones it has not
\* committed, or superseded ones it is going to delete.
Holding == {"readOld", "commit", "discard", "reap", "delReap"}

\* A step of worker w after which it holds nothing.
Releases(w) == Moves(w) /\ req'[w].pc \notin Holding

\* A handler that has answered holds nothing.
LEMMA AnsweredReleases ==
  ASSUME NEW w, Moves(w), req'[w].pc = "done"
  PROVE  Releases(w)
BY DEF Releases, Holding

\* The first step of every handler.
LEMMA BeginReleases ==
  ASSUME TypeInv, NEW w \in Workers, Begin(w)
  PROVE  Releases(w)
<1>1. TypeOK /\ {"ok", "missing", "conflict", "error"} \subseteq Statuses
  BY DEF TypeInv, Statuses
<1>2. ASSUME NEW b \in Buckets, createBucket(w, b)
      PROVE  Releases(w)
  <2>1. "createBucket" \in Operations
    BY DEF Operations
  <2> QED BY <1>1, <1>2, <2>1, AnswerMoves, AnsweredReleases DEF createBucket
<1>3. ASSUME NEW b \in Buckets, deleteBucketList(w, b)
      PROVE  Releases(w)
  <2> DEFINE r == [Idle EXCEPT !.pc = "dropBucket", !.op = "deleteBucket", !.bucket = b]
  <2>1. "deleteBucket" \in Operations
    BY DEF Operations
  <2>2. r \in Requests /\ r.pc = "dropBucket"
    BY IdleType DEF Requests, Positions, Operations
  <2> HIDE DEF r
  <2>3. Formed(r) /\ r.pc \notin Holding
    BY <2>2 DEF Formed, Holding
  <2>4. CASE req' = [req EXCEPT ![w] = r]
    BY <1>1, <2>2, <2>3, <2>4, MoveTo DEF Releases
  <2> QED BY <1>1, <1>3, <2>1, <2>4, AnswerMoves, AnsweredReleases DEF deleteBucketList, r
<1>4. ASSUME NEW n \in Names, NEW body \in Bodies, putObject(w, n, body)
      PROVE  Releases(w)
  <2> DEFINE r == [Idle EXCEPT !.pc = "upload", !.op = "put", !.name = n, !.body = body]
  <2>1. "put" \in Operations /\ body \in Seq(Documents)
    BY BodiesAssumption DEF Operations
  <2>2. r \in Requests /\ r.pc = "upload" /\ r.name = n
    BY IdleType, <2>1 DEF Requests, Positions
  <2> HIDE DEF r
  <2>3. Formed(r) /\ r.pc \notin Holding
    BY <2>2 DEF Formed, Holding
  <2>4. CASE req' = [req EXCEPT ![w] = r]
    BY <1>1, <2>2, <2>3, <2>4, MoveTo DEF Releases
  <2> QED BY <1>1, <1>4, <2>1, <2>4, AnswerMoves, AnsweredReleases DEF putObject, r
<1>5. ASSUME NEW n \in Names, NEW s \in Names, NEW o \in {"get", "copy"},
             req' = [req EXCEPT ![w] = [Idle EXCEPT !.pc = "loadRow", !.op = o, !.name = n,
                                                    !.src = s]]
      PROVE  Releases(w)
  <2> DEFINE r == [Idle EXCEPT !.pc = "loadRow", !.op = o, !.name = n, !.src = s]
  <2>1. r \in Requests /\ r.pc = "loadRow" /\ r.name = n /\ r.src = s
    BY IdleType DEF Requests, Positions, Operations
  <2>2. req' = [req EXCEPT ![w] = r]
    BY <1>5
  <2> HIDE DEF r
  <2>3. Formed(r) /\ r.pc \notin Holding
    BY <2>1 DEF Formed, Holding
  <2> QED BY <1>1, <2>1, <2>2, <2>3, MoveTo DEF Releases
<1>6. ASSUME NEW names \in DeleteLists, deleteObjects(w, names)
      PROVE  Releases(w)
  <2> DEFINE n == names[1]
             r == [Idle EXCEPT !.pc = "delRow", !.op = "delete", !.todo = names, !.name = n]
  <2>1. "delete" \in Operations /\ names \in Seq(Names)
    BY <1>6, DeleteListsAssumption DEF Operations
  <2>2. CASE names = <<>>
    BY <1>1, <1>6, <2>1, <2>2, AnswerMoves, AnsweredReleases DEF deleteObjects
  <2>3. CASE names # <<>>
    <3>1. n \in Names
      BY <2>1, <2>3, HeadTailProperties
    <3>2. req' = [req EXCEPT ![w] = r]
      BY <1>6, <2>3 DEF deleteObjects
    <3> HIDE DEF n
    <3>3. r \in Requests /\ r.pc = "delRow" /\ r.name = n /\ r.todo = names
      BY IdleType, <2>1, <3>1 DEF Requests, Positions, Operations
    <3> HIDE DEF r
    <3>4. Formed(r) /\ r.pc \notin Holding
      BY <2>3, <3>1, <3>3 DEF Formed, Holding
    <3> QED BY <1>1, <3>2, <3>3, <3>4, MoveTo DEF Releases
  <2> QED BY <2>2, <2>3
<1>7. ASSUME NEW n \in Names, NEW s \in Names, copyObject(w, n, s)
      PROVE  Releases(w)
  <2>1. "copy" \in Operations
    BY DEF Operations
  <2>2. CASE Answer(w, "error")
    BY <1>1, <2>1, <2>2, AnswerMoves, AnsweredReleases
  <2> QED BY <1>5, <1>7, <2>2 DEF copyObject
<1> QED BY <1>2, <1>3, <1>4, <1>5, <1>6, <1>7 DEF Begin, getObject

----------------------------------------------------------------------------
(* What a step of a handler does                                           *)

\* The type of the tables and of the channel.
TablesOK ==
  /\ buckets \subseteq Buckets
  /\ objects \in [Names -> Rows \cup {None}]
  /\ chunkMap \in [Names -> Seq(Messages)]
  /\ channel \subseteq Messages
  /\ nextId \in Nat

\* The objects and their chunks stay as they are.
Kept == UNCHANGED <<objects, chunkMap>>

\* Worker w has come to hold nothing and committed nothing; an object may have
\* been deleted.
Released(w) ==
  /\ Releases(w)
  /\ nextId' >= nextId
  /\ \A n \in Names : \/ chunkMap'[n] = chunkMap[n] /\ objects'[n] = objects[n]
                      \/ chunkMap'[n] = <<>> /\ objects'[n] = None

\* Worker w has sent the messages of its body.
Uploaded(w) ==
  /\ Moves(w)
  /\ req'[w].pc \in {"readOld", "discard"}
  /\ req'[w].body \in Seq(Documents)
  /\ req'[w].chunks = Sent(nextId, req'[w].body)
  /\ nextId' = nextId + Len(req'[w].body)
  /\ Kept

\* Worker w has read the list of messages it is going to delete.
HasRead(w) ==
  /\ Moves(w)
  /\ \/ req[w].pc = "readOld" /\ req'[w].pc = "commit"
     \/ req'[w].pc = "delReap"
  /\ req[w].name \in Names
  /\ \E old \in {chunkMap[req[w].name], <<>>} :
       req'[w] = [req[w] EXCEPT !.pc = req'[w].pc, !.old = old]
  /\ Kept
  /\ UNCHANGED nextId

\* Worker w's transaction has replaced the object's row and chunks.
Committed(w) ==
  /\ Moves(w)
  /\ req[w].pc = "commit"
  /\ req[w].name \in Names
  /\ req'[w] = [req[w] EXCEPT !.pc = "reap"]
  /\ objects' = [objects EXCEPT ![req[w].name] = ObjectRow(req[w].body)]
  /\ chunkMap' = [chunkMap EXCEPT ![req[w].name] = req[w].chunks]
  /\ UNCHANGED nextId

\* Worker w's transaction has failed.
GaveUp(w) ==
  /\ Moves(w)
  /\ req[w].pc = "commit"
  /\ req'[w] = [req[w] EXCEPT !.pc = "discard"]
  /\ Kept
  /\ UNCHANGED nextId

Effect(w) == Released(w) \/ Uploaded(w) \/ HasRead(w) \/ Committed(w) \/ GaveUp(w)

\* A step that releases and leaves the objects alone.
LEMMA KeptReleased ==
  ASSUME TypeInv, NEW w \in Workers, Releases(w), Kept, UNCHANGED nextId
  PROVE  Released(w)
BY DEF Released, Kept, TypeInv, TypeOK

\* The first step of every handler.
LEMMA BeginEffect ==
  ASSUME TypeInv, NEW w \in Workers, Begin(w)
  PROVE  TablesOK' /\ Released(w)
<1>1. TablesOK
  BY SMTT(60) DEF TypeInv, TypeOK, TablesOK
<1>2. Kept /\ UNCHANGED <<channel, nextId>> /\ buckets' \subseteq Buckets
  BY <1>1 DEF Begin, createBucket, deleteBucketList, putObject, copyObject, getObject,
              deleteObjects, store, telegram, Kept, TablesOK
<1> QED BY <1>1, <1>2, BeginReleases, KeptReleased DEF TablesOK, Kept

\* An upload that returned its chunks.
LEMMA UploadOKEffect ==
  ASSUME TypeInv, NEW w \in Workers, NEW body \in Seq(Documents),
         NEW p \in {"readOld", "discard"}, UploadOK(w, body, p), UNCHANGED store,
         req[w].name \in Names
  PROVE  TablesOK' /\ Uploaded(w)
<1> DEFINE ms == Sent(nextId, body)
           e == <<>>
           r == [req[w] EXCEPT !.pc = p, !.chunks = ms, !.body = body, !.row = None, !.read = e]
<1>1. TablesOK /\ TypeOK /\ req[w] \in Requests
  BY DEF TypeInv, TypeOK, TablesOK
<1>2. ms \in Seq(Messages) /\ e \in Seq(Messages)
  BY <1>1, SentType DEF TablesOK
<1>3. /\ req' = [req EXCEPT ![w] = r]
      /\ channel' = channel \cup Range(ms)
      /\ nextId' = nextId + Len(body)
  BY DEF UploadOK
<1>4. Kept /\ UNCHANGED buckets
  BY DEF Kept, store
<1> HIDE DEF ms, e
<1>5. /\ r \in Requests
      /\ r.pc = p /\ r.chunks = ms /\ r.body = body /\ r.name = req[w].name
  BY <1>1, <1>2 DEF Requests, Positions
<1>6. Range(ms) \subseteq Messages
  BY <1>2 DEF Range
<1>7. TablesOK'
  BY <1>1, <1>3, <1>4, <1>6 DEF TablesOK, Kept
<1> HIDE DEF r
<1>8. Formed(r)
  BY <1>5 DEF Formed
<1>9. Moves(w) /\ req'[w] = r
  BY <1>1, <1>3, <1>5, <1>8, MoveTo
<1> QED BY <1>3, <1>4, <1>5, <1>7, <1>9 DEF Uploaded, ms

\* An upload that failed.
LEMMA UploadFailsEffect ==
  ASSUME TypeInv, NEW w \in Workers, NEW body \in Seq(Documents), UploadFails(w, body),
         UNCHANGED store
  PROVE  TablesOK' /\ Released(w)
<1>1. TablesOK /\ TypeOK /\ "error" \in Statuses
  BY DEF TypeInv, TypeOK, TablesOK, Statuses
<1>2. Releases(w)
  BY <1>1, AnswerMoves, AnsweredReleases DEF UploadFails
<1>3. Kept /\ UNCHANGED buckets
  BY DEF Kept, store
<1>4. channel' \subseteq Messages /\ nextId' \in Nat /\ nextId' >= nextId
  BY <1>1, UploadFailsType DEF TablesOK
<1> QED BY <1>1, <1>2, <1>3, <1>4 DEF TablesOK, Kept, Released

\* A handler's steps, one by one.
LEMMA StepEffect ==
  ASSUME TypeInv, NEW w \in Workers, Step(w)
  PROVE  TablesOK' /\ Effect(w)
<1>1. TablesOK /\ TypeOK /\ req[w] \in Requests /\ Formed(req[w])
  BY DEF TypeInv, TypeOK, TablesOK
<1>2. {"ok", "missing", "conflict", "error"} \subseteq Statuses
  BY DEF Statuses
<1>3. ASSUME NEW s \in Statuses, Answer(w, s) \/ AnswerRead(w, s)
      PROVE  Releases(w)
  BY <1>1, <1>3, AnswerMoves, AnswerReadMoves, AnsweredReleases
<1>4. ASSUME NEW s \in Statuses, NextKey(w, s), req[w].todo # <<>>
      PROVE  Releases(w)
  BY <1>4, NextKeyMoves DEF Releases, Holding
<1>5. CASE DeleteBucket(w)
  <2>1. Releases(w)
    BY <1>2, <1>3, <1>5 DEF DeleteBucket
  <2>2. Kept /\ UNCHANGED <<channel, nextId>> /\ buckets' \subseteq Buckets
    BY <1>1, <1>5 DEF DeleteBucket, Kept, telegram, TablesOK
  <2> QED BY <1>1, <2>1, <2>2, KeptReleased DEF TablesOK, Kept, Effect
<1>6. CASE Upload(w)
  <2>1. req[w].body \in Seq(Documents) /\ req[w].name \in Names
    BY <1>1, <1>6 DEF Upload, Requests, Formed
  <2> QED BY <1>6, <2>1, UploadOKEffect, UploadFailsEffect DEF Upload, Effect
<1>7. CASE CopyUpload(w)
  <2>1. req[w].row \in Rows /\ req[w].name \in Names
    BY <1>1, <1>7 DEF CopyUpload, Formed
  <2>2. SourceBytes(w) \in Seq(Documents)
    BY <1>1, <2>1, SourceBytesType DEF Requests
  <2> QED BY <1>7, <2>1, <2>2, UploadOKEffect, UploadFailsEffect DEF CopyUpload, Effect
<1>8. CASE readOldChunks(w)
  <2> DEFINE r(old) == [req[w] EXCEPT !.pc = "commit", !.old = old]
  <2>1. req[w].pc = "readOld" /\ req[w].name \in Names
    BY <1>1, <1>8 DEF readOldChunks, Formed
  <2>2. PICK old \in {chunkMap[req[w].name], <<>>} : req' = [req EXCEPT ![w] = r(old)]
    BY <1>8 DEF readOldChunks
  <2>3. old \in Seq(Messages)
    <3>1. chunkMap[req[w].name] \in Seq(Messages) /\ <<>> \in Seq(Messages)
      BY <1>1, <2>1 DEF TablesOK
    <3> QED BY <2>2, <3>1, Zenon
  <2>4. r(old) \in Requests /\ r(old).pc = "commit" /\ r(old).name = req[w].name
    BY <1>1, <2>3 DEF Requests, Positions
  <2>5. Formed(r(old))
    BY <2>1, <2>4 DEF Formed
  <2>6. Moves(w) /\ req'[w] = r(old)
    BY <1>1, <2>2, <2>4, <2>5, MoveTo
  <2>7. Kept /\ UNCHANGED <<buckets, channel, nextId>>
    BY <1>8 DEF readOldChunks, Kept, store, telegram
  <2>8. req'[w] = [req[w] EXCEPT !.pc = req'[w].pc, !.old = old]
    BY <2>4, <2>6
  <2> QED BY <1>1, <2>1, <2>4, <2>6, <2>7, <2>8 DEF TablesOK, Kept, HasRead, Effect
<1>9. CASE PutObject(w)
  <2>1. req[w].pc = "commit" /\ req[w].name \in Names
    BY <1>1, <1>9 DEF PutObject, Formed
  <2>2. UNCHANGED <<buckets, channel, nextId>>
    BY <1>9 DEF PutObject, telegram
  <2>3. req[w].body \in Seq(Documents) /\ req[w].chunks \in Seq(Messages)
    BY <1>1 DEF Requests
  <2>4. \A p \in {"reap", "discard"} : Formed([req[w] EXCEPT !.pc = p]) /\ p \in Positions
    <3>1. \A p \in {"reap", "discard"} : [req[w] EXCEPT !.pc = p].pc = p
                                      /\ [req[w] EXCEPT !.pc = p].name = req[w].name
      BY <1>1 DEF Requests
    <3> QED BY <2>1, <3>1 DEF Formed, Positions
  <2>5. CASE /\ Goto(w, "reap")
             /\ objects' = [objects EXCEPT ![req[w].name] = ObjectRow(req[w].body)]
             /\ chunkMap' = [chunkMap EXCEPT ![req[w].name] = req[w].chunks]
    <3>1. Moves(w) /\ req'[w] = [req[w] EXCEPT !.pc = "reap"]
      BY <1>1, <2>4, <2>5, GotoMoves
    <3>2. TablesOK'
      BY <1>1, <2>1, <2>2, <2>3, <2>5, ObjectRowType DEF TablesOK
    <3> QED BY <2>1, <2>2, <2>5, <3>1, <3>2 DEF Committed, Effect
  <2>6. CASE Goto(w, "discard") /\ UNCHANGED <<objects, chunkMap>>
    <3>1. Moves(w) /\ req'[w] = [req[w] EXCEPT !.pc = "discard"]
      BY <1>1, <2>4, <2>6, GotoMoves
    <3> QED BY <1>1, <2>1, <2>2, <2>6, <3>1 DEF TablesOK, Kept, GaveUp, Effect
  <2> QED BY <1>9, <2>5, <2>6 DEF PutObject, replaceObjectChunksTx
<1>10. CASE reapSupersededChunks(w) \/ deleteChunks(w)
  <2>1. Releases(w)
    BY <1>2, <1>3, <1>10 DEF reapSupersededChunks, deleteChunks
  <2>2. Kept /\ UNCHANGED <<buckets, nextId>> /\ channel' \subseteq Messages
    BY <1>1, <1>10, DeleteBatchType
    DEF reapSupersededChunks, deleteChunks, Kept, store, TablesOK
  <2> QED BY <1>1, <2>1, <2>2, KeptReleased DEF TablesOK, Kept, Effect
<1>11. CASE loadRow(w) \/ loadChunks(w) \/ streamObject(w) \/ deleteOneObject(w) \/ Answered(w)
  <2>1. Kept /\ UNCHANGED <<buckets, channel, nextId>>
    BY <1>11 DEF loadRow, loadChunks, streamObject, deleteOneObject, Answered, Kept, store,
                 telegram
  <2> SUFFICES Releases(w)
    BY <1>1, <2>1, KeptReleased DEF TablesOK, Kept, Effect
  <2>2. CASE loadRow(w)
    <3> DEFINE x == objects[req[w].src]
               r == [req[w] EXCEPT !.pc = "loadChunks", !.row = x]
    <3>1. req[w].src \in Names /\ req[w].name \in Names
      BY <1>1, <2>2 DEF loadRow, Formed
    <3>2. CASE x # None /\ req' = [req EXCEPT ![w] = r]
      <4>1. x \in Rows
        BY <1>1, <3>1, <3>2 DEF TablesOK
      <4> HIDE DEF x
      <4>2. /\ r \in Requests /\ r.pc = "loadChunks" /\ r.row = x
            /\ r.name = req[w].name /\ r.src = req[w].src
        BY <1>1, <4>1 DEF Requests, Positions
      <4> HIDE DEF r
      <4>3. Formed(r) /\ r.pc \notin Holding
        BY <3>1, <4>1, <4>2 DEF Formed, Holding
      <4> QED BY <1>1, <3>2, <4>2, <4>3, MoveTo DEF Releases
    <3> QED BY <1>2, <1>3, <2>2, <3>2 DEF loadRow
  <2>3. CASE loadChunks(w)
    <3> DEFINE x == chunkMap[req[w].src]
               p == IF req[w].op = "get" THEN "stream" ELSE "copyUpload"
               r == [req[w] EXCEPT !.pc = p, !.read = x]
    <3>1. req[w].src \in Names /\ req[w].name \in Names /\ req[w].row \in Rows
      BY <1>1, <2>3 DEF loadChunks, Formed
    <3>2. CASE req' = [req EXCEPT ![w] = r]
      <4>1. x \in Seq(Messages) /\ p \in {"stream", "copyUpload"}
        BY <1>1, <3>1 DEF TablesOK
      <4> HIDE DEF x, p
      <4>2. r \in Requests /\ r.pc = p /\ r.row = req[w].row /\ r.name = req[w].name
        BY <1>1, <4>1 DEF Requests, Positions
      <4> HIDE DEF r
      <4>3. Formed(r) /\ r.pc \notin Holding
        BY <3>1, <4>1, <4>2 DEF Formed, Holding
      <4> QED BY <1>1, <3>2, <4>2, <4>3, MoveTo DEF Releases
    <3> QED BY <1>2, <1>3, <2>3, <3>2 DEF loadChunks
  <2>4. CASE streamObject(w)
    <3> DEFINE x == SourceBytes(w)
               r == [req[w] EXCEPT !.pc = "done", !.status = "ok", !.body = x]
    <3>1. req[w].row \in Rows
      BY <1>1, <2>4 DEF streamObject, Formed
    <3>2. CASE req' = [req EXCEPT ![w] = r]
      <4>1. x \in Seq(Documents)
        BY <1>1, <3>1, SourceBytesType DEF Requests
      <4> HIDE DEF x
      <4>2. r \in Requests /\ r.pc = "done"
        BY <1>1, <1>2, <4>1 DEF Requests, Positions
      <4> HIDE DEF r
      <4>3. Formed(r) /\ r.pc \notin Holding
        BY <4>2 DEF Formed, Holding
      <4> QED BY <1>1, <3>2, <4>2, <4>3, MoveTo DEF Releases
    <3> QED BY <1>2, <1>3, <2>4, <3>2 DEF streamObject
  <2>5. CASE deleteOneObject(w)
    <3>1. req[w].name \in Names /\ req[w].todo # <<>>
      BY <1>1, <2>5 DEF deleteOneObject, Formed
    <3>2. CASE Goto(w, "delChunks")
      <4> DEFINE r == [req[w] EXCEPT !.pc = "delChunks"]
      <4>1. r.pc = "delChunks" /\ r.name = req[w].name /\ r.todo = req[w].todo
        BY <1>1 DEF Requests
      <4>2. Formed(r) /\ r.pc \notin Holding
        BY <3>1, <4>1 DEF Formed, Holding
      <4>3. "delChunks" \in Positions
        BY DEF Positions
      <4> QED BY <1>1, <3>2, <4>2, <4>3, GotoMoves DEF Releases
    <3> QED BY <1>2, <1>4, <2>5, <3>1, <3>2 DEF deleteOneObject
  <2>6. CASE Answered(w)
    <3>1. Moves(w) /\ req'[w] = Idle
      BY <1>1, <2>6, IdleType, MoveTo DEF Answered
    <3> QED BY <3>1 DEF Releases, Holding, Idle
  <2> QED BY <1>11, <2>2, <2>3, <2>4, <2>5, <2>6
<1>12. CASE deleteReadChunks(w)
  <2> DEFINE x == chunkMap[req[w].name]
             r == [req[w] EXCEPT !.pc = "delReap", !.old = x]
  <2>1. req[w].name \in Names /\ req[w].todo # <<>>
    BY <1>1, <1>12 DEF deleteReadChunks, Formed
  <2>2. Kept /\ UNCHANGED <<buckets, channel, nextId>>
    BY <1>12 DEF deleteReadChunks, Kept, store, telegram
  <2>3. CASE req' = [req EXCEPT ![w] = r]
    <3>1. x \in Seq(Messages)
      BY <1>1, <2>1 DEF TablesOK
    <3>2. r \in Requests /\ r.pc = "delReap" /\ r.name = req[w].name /\ r.todo = req[w].todo
      BY <1>1, <3>1 DEF Requests, Positions
    <3>3. Formed(r)
      BY <2>1, <3>2 DEF Formed
    <3>4. Moves(w) /\ req'[w] = r
      BY <1>1, <2>3, <3>2, <3>3, MoveTo
    <3>5. req'[w] = [req[w] EXCEPT !.pc = req'[w].pc, !.old = x] /\ req'[w].pc = "delReap"
      BY <3>2, <3>4
    <3> QED BY <1>1, <2>1, <2>2, <3>4, <3>5 DEF TablesOK, Kept, HasRead, Effect
  <2>4. CASE \E s \in Statuses : NextKey(w, s)
    BY <1>1, <1>4, <2>1, <2>2, <2>4, KeptReleased DEF TablesOK, Kept, Effect
  <2> QED BY <1>2, <1>12, <2>3, <2>4 DEF deleteReadChunks
<1>13. CASE deleteReap(w)
  <2> DEFINE r == [req[w] EXCEPT !.pc = "delCommit"]
  <2>1. req[w].name \in Names /\ req[w].todo # <<>>
    BY <1>1, <1>13 DEF deleteReap, Formed
  <2>2. r.pc = "delCommit" /\ r.name = req[w].name /\ r.todo = req[w].todo
    BY <1>1 DEF Requests
  <2>3. Formed(r) /\ r.pc \notin Holding /\ "delCommit" \in Positions
    BY <2>1, <2>2 DEF Formed, Holding, Positions
  <2>4. Releases(w)
    BY <1>1, <1>13, <2>3, GotoMoves DEF Releases, deleteReap
  <2>5. Kept /\ UNCHANGED <<buckets, nextId>> /\ channel' \subseteq Messages
    BY <1>1, <1>13, DeleteBatchType DEF deleteReap, Kept, store, TablesOK
  <2> QED BY <1>1, <2>4, <2>5, KeptReleased DEF TablesOK, Kept, Effect
<1>14. CASE DeleteObject(w)
  <2>1. req[w].name \in Names /\ req[w].todo # <<>>
    BY <1>1, <1>14 DEF DeleteObject, Formed
  <2>2. Releases(w)
    BY <1>2, <1>4, <1>14, <2>1 DEF DeleteObject
  <2>3. UNCHANGED <<buckets, channel, nextId>>
    BY <1>14 DEF DeleteObject, telegram
  <2>4. CASE Kept
    BY <1>1, <2>2, <2>3, <2>4, KeptReleased DEF TablesOK, Kept, Effect
  <2>5. CASE /\ objects' = [objects EXCEPT ![req[w].name] = None]
             /\ chunkMap' = [chunkMap EXCEPT ![req[w].name] = <<>>]
    <3>1. TablesOK'
      BY <1>1, <2>1, <2>3, <2>5 DEF TablesOK
    <3>2. ASSUME NEW n \in Names
          PROVE  \/ chunkMap'[n] = chunkMap[n] /\ objects'[n] = objects[n]
                 \/ chunkMap'[n] = <<>> /\ objects'[n] = None
      <4>1. CASE n = req[w].name
        BY <1>1, <2>1, <2>5, <4>1 DEF TablesOK
      <4>2. CASE n # req[w].name
        BY <1>1, <2>1, <2>5, <4>2 DEF TablesOK
      <4> QED BY <4>1, <4>2
    <3>3. nextId' >= nextId
      BY <1>1, <2>3 DEF TablesOK
    <3> QED BY <2>2, <3>1, <3>2, <3>3 DEF Released, Effect
  <2> QED BY <1>14, <2>4, <2>5 DEF DeleteObject, Kept
<1> QED BY <1>5, <1>6, <1>7, <1>8, <1>9, <1>10, <1>11, <1>12, <1>13, <1>14 DEF Step

----------------------------------------------------------------------------
(* Type correctness                                                        *)

\* After a crash every worker is idle and the tables are what they were.
LEMMA CrashEffect ==
  ASSUME TypeInv, Crash
  PROVE  /\ TablesOK'
         /\ req' = [w \in Workers |-> Idle]
         /\ Kept
         /\ UNCHANGED <<channel, nextId>>
BY DEF TypeInv, TypeOK, TablesOK, Crash, store, telegram, Kept

\* Any step: one worker's, a crash, or a stutter.
LEMMA NextEffect ==
  ASSUME TypeInv, [Next]_vars
  PROVE  \/ TablesOK' /\ \E w \in Workers : Effect(w)
         \/ Crash
         \/ UNCHANGED vars
BY BeginEffect, StepEffect DEF Next, Effect

\* TypeInv is inductive.
LEMMA TypeInvStep ==
  ASSUME TypeInv, [Next]_vars
  PROVE  TypeInv'
<1>1. CASE TablesOK' /\ \E w \in Workers : Effect(w)
  <2>1. PICK w \in Workers : Moves(w)
    BY <1>1 DEF Effect, Released, Releases, Uploaded, HasRead, Committed, GaveUp
  <2>2. \A v \in Workers : Formed(req'[v])
    BY <2>1 DEF Moves, TypeInv
  <2>3. TypeOK'
    BY <1>1, <2>1 DEF TablesOK, Moves, TypeOK
  <2> QED BY <2>2, <2>3 DEF TypeInv, Formed
<1>2. CASE Crash
  <2>1. TablesOK' /\ req' = [w \in Workers |-> Idle]
    BY <1>2, CrashEffect
  <2>2. req' \in [Workers -> Requests] /\ \A w \in Workers : Formed(req'[w])
    BY <2>1, IdleType
  <2> QED BY <2>1, <2>2 DEF TablesOK, TypeOK, TypeInv, Formed
<1>3. CASE UNCHANGED vars
  BY <1>3 DEF vars, TypeInv, TypeOK, Formed
<1> QED BY <1>1, <1>2, <1>3, NextEffect

\* TypeInv holds in the initial state: empty tables, idle workers.
LEMMA TypeInvInit == Init => TypeInv
<1> SUFFICES ASSUME Init PROVE TypeInv
  OBVIOUS
<1>1. TypeOK
  BY IdleType DEF Init, TypeOK
<1>2. \A w \in Workers : Formed(req[w])
  BY IdleType DEF Init
<1> QED BY <1>1, <1>2 DEF TypeInv

\* The gateway is type correct: no handler, fault or crash leaves a table, the
\* channel or a handler's local outside its type.
THEOREM TypeCorrect == Spec => []TypeOK
<1>1. Init => TypeInv
  BY TypeInvInit
<1>2. TypeInv /\ [Next]_vars => TypeInv'
  BY TypeInvStep
<1>3. TypeInv => TypeOK
  BY DEF TypeInv
<1> QED BY <1>1, <1>2, <1>3, PTL DEF Spec

----------------------------------------------------------------------------
(* Ownership                                                               *)

\* What the other workers hold does not change when w moves.
LEMMA OthersKeep ==
  ASSUME NEW w \in Workers, Moves(w), NEW v \in Workers, v # w
  PROVE  /\ InFlight(v)' = InFlight(v)
         /\ Doomed(v)' = Doomed(v)
         /\ req'[v] = req[v]
BY DEF Moves, InFlight, Doomed

\* What each worker holds when worker w has released.
LEMMA ReleasedHolds ==
  ASSUME NEW w \in Workers, Releases(w)
  PROVE  InFlight(w)' = {} /\ Doomed(w)' = {}
BY DEF Releases, Holding, InFlight, Doomed

\* A step that only gives up messages keeps every message with its owner.
LEMMA ReleasedOwnership ==
  ASSUME TypeInv, Ownership, NEW w \in Workers, Released(w), TablesOK'
  PROVE  Ownership'
<1>1. Moves(w) /\ InFlight(w)' = {} /\ Doomed(w)' = {}
  BY ReleasedHolds DEF Released, Releases
<1>2. \A v \in Workers : /\ InFlight(v)' \subseteq InFlight(v)
                         /\ Doomed(v)' \subseteq Doomed(v)
                         /\ v # w => req'[v] = req[v]
  BY <1>1, OthersKeep
<1>3. \A n \in Names : Range(chunkMap'[n]) \subseteq Range(chunkMap[n])
  BY DEF Released, Range
<1>4. FreshIds'
  <2>1. ASSUME NEW m \in Messages, m.id < nextId
        PROVE  m.id < nextId'
    BY <2>1 DEF Released, TypeInv, TypeOK, TablesOK, Messages
  <2>2. /\ \A n \in Names : Range(chunkMap[n]) \subseteq Messages
        /\ \A v \in Workers : InFlight(v) \cup Doomed(v) \subseteq Messages
    BY DEF TypeInv, TypeOK, Requests, Range, InFlight, Doomed
  <2>3. \A n \in Names : \A m \in Range(chunkMap'[n]) : m.id < nextId'
    BY <1>3, <2>1, <2>2 DEF Ownership, FreshIds
  <2>4. \A v \in Workers : \A m \in InFlight(v)' \cup Doomed(v)' : m.id < nextId'
    BY <1>2, <2>1, <2>2 DEF Ownership, FreshIds
  <2> QED BY <2>3, <2>4 DEF FreshIds
<1>5. OneOwner'
  <2>1. \A n1, n2 \in Names : n1 # n2 => Range(chunkMap'[n1]) \cap Range(chunkMap'[n2]) = {}
    BY <1>3 DEF Ownership, OneOwner
  <2>2. \A v \in Workers, n \in Names : InFlight(v)' \cap Range(chunkMap'[n]) = {}
    BY <1>2, <1>3 DEF Ownership, OneOwner
  <2>3. \A u, v \in Workers : u # v => InFlight(u)' \cap InFlight(v)' = {}
    BY <1>2 DEF Ownership, OneOwner
  <2> QED BY <2>1, <2>2, <2>3 DEF OneOwner
<1>6. DoomedNotOwned'
  <2>1. \A u, v \in Workers : Doomed(v)' \cap InFlight(u)' = {}
    BY <1>2 DEF Ownership, DoomedNotOwned
  <2>2. \A v \in Workers, n \in Names :
          n # req'[v].name \/ req'[v].pc = "reap" => Doomed(v)' \cap Range(chunkMap'[n]) = {}
    BY <1>1, <1>2, <1>3 DEF Ownership, DoomedNotOwned
  <2> QED BY <2>1, <2>2 DEF DoomedNotOwned
<1> QED BY <1>4, <1>5, <1>6 DEF Ownership

\* Uploaded messages have ids nobody else refers to.
LEMMA UploadedOwnership ==
  ASSUME TypeInv, Ownership, NEW w \in Workers, Uploaded(w)
  PROVE  Ownership'
<1> DEFINE new == Range(req'[w].chunks)
<1>1. Moves(w) /\ InFlight(w)' = new /\ Doomed(w)' = {} /\ req'[w].pc # "reap"
  BY DEF Uploaded, InFlight, Doomed
<1>2. chunkMap' = chunkMap
  BY DEF Uploaded, Kept
<1>3. nextId \in Nat /\ nextId' \in Nat /\ nextId <= nextId'
  <2>1. Len(req'[w].body) \in Nat
    BY DEF Uploaded
  <2> QED BY <2>1 DEF Uploaded, TypeInv, TypeOK
<1>4. \A m \in new : nextId <= m.id /\ m.id < nextId'
  BY <1>3, SentType DEF Uploaded
<1>5. new \subseteq Messages
  BY <1>3, SentType DEF Uploaded, Range
<1> HIDE DEF new
<1>6. ASSUME NEW m \in Messages, m.id < nextId
      PROVE  m.id < nextId' /\ m \notin new
  BY <1>3, <1>4, <1>6 DEF Messages
<1>7. /\ \A n \in Names : Range(chunkMap[n]) \subseteq Messages
      /\ \A v \in Workers : InFlight(v) \cup Doomed(v) \subseteq Messages
  BY DEF TypeInv, TypeOK, Requests, Range, InFlight, Doomed
<1>8. \A n \in Names : \A m \in Range(chunkMap[n]) : m.id < nextId' /\ m \notin new
  BY <1>6, <1>7 DEF Ownership, FreshIds
<1>9. \A v \in Workers : \A m \in InFlight(v) \cup Doomed(v) : m.id < nextId' /\ m \notin new
  BY <1>6, <1>7 DEF Ownership, FreshIds
<1>10. \A v \in Workers : v # w => /\ InFlight(v)' = InFlight(v)
                                  /\ Doomed(v)' = Doomed(v)
                                  /\ req'[v] = req[v]
  BY <1>1, OthersKeep
<1>11. FreshIds'
  <2>1. \A v \in Workers : \A m \in InFlight(v)' \cup Doomed(v)' : m.id < nextId'
    BY <1>1, <1>4, <1>9, <1>10
  <2> QED BY <1>2, <1>8, <2>1 DEF FreshIds
<1>12. OneOwner'
  <2>1. \A v \in Workers, n \in Names : InFlight(v)' \cap Range(chunkMap[n]) = {}
    BY <1>1, <1>8, <1>10 DEF Ownership, OneOwner
  <2>2. \A u, v \in Workers : u # v => InFlight(u)' \cap InFlight(v)' = {}
    BY <1>1, <1>9, <1>10 DEF Ownership, OneOwner
  <2> QED BY <1>2, <2>1, <2>2 DEF OneOwner, Ownership
<1>13. DoomedNotOwned'
  <2>1. \A u, v \in Workers : Doomed(v)' \cap InFlight(u)' = {}
    BY <1>1, <1>9, <1>10 DEF Ownership, DoomedNotOwned
  <2>2. \A v \in Workers, n \in Names :
          n # req'[v].name \/ req'[v].pc = "reap" => Doomed(v)' \cap Range(chunkMap[n]) = {}
    BY <1>1, <1>10 DEF Ownership, DoomedNotOwned
  <2> QED BY <1>2, <2>1, <2>2 DEF DoomedNotOwned
<1> QED BY <1>11, <1>12, <1>13 DEF Ownership

\* The list just read is the object's current chunk list: no one else's.
LEMMA HasReadOwnership ==
  ASSUME TypeInv, Ownership, NEW w \in Workers, HasRead(w)
  PROVE  Ownership'
<1> DEFINE name == req[w].name
<1>1. PICK old \in {chunkMap[name], <<>>} :
         req'[w] = [req[w] EXCEPT !.pc = req'[w].pc, !.old = old]
  BY DEF HasRead
<1>2. req[w] \in Requests
  BY DEF TypeInv, TypeOK
<1>3. req'[w].old = old /\ req'[w].name = name /\ req'[w].chunks = req[w].chunks
  BY <1>1, <1>2 DEF Requests
<1>4. Moves(w) /\ name \in Names /\ UNCHANGED <<chunkMap, nextId>>
  BY DEF HasRead, Kept
<1>5. InFlight(w)' \subseteq InFlight(w) /\ req'[w].pc # "reap"
  BY <1>3 DEF HasRead, InFlight
<1>6. Doomed(w)' \subseteq Range(chunkMap[name])
  <2>1. Doomed(w)' \subseteq Range(old)
    BY <1>3 DEF Doomed
  <2>2. Range(old) \subseteq Range(chunkMap[name])
    BY <1>1 DEF Range
  <2> QED BY <2>1, <2>2
<1> HIDE DEF name
<1>7. \A v \in Workers : /\ InFlight(v)' \subseteq InFlight(v)
                         /\ v # w => Doomed(v)' = Doomed(v) /\ req'[v] = req[v]
  BY <1>4, <1>5, OthersKeep
<1>8. FreshIds'
  <2>1. \A v \in Workers : \A m \in InFlight(v)' \cup Doomed(v)' : m.id < nextId
    BY <1>4, <1>6, <1>7 DEF Ownership, FreshIds
  <2> QED BY <1>4, <2>1 DEF FreshIds, Ownership
<1>9. OneOwner'
  <2>1. \A v \in Workers, n \in Names : InFlight(v)' \cap Range(chunkMap[n]) = {}
    BY <1>7 DEF Ownership, OneOwner
  <2>2. \A u, v \in Workers : u # v => InFlight(u)' \cap InFlight(v)' = {}
    BY <1>7 DEF Ownership, OneOwner
  <2> QED BY <1>4, <2>1, <2>2 DEF OneOwner, Ownership
<1>10. DoomedNotOwned'
  <2>1. \A u, v \in Workers : Doomed(v)' \cap InFlight(u)' = {}
    BY <1>4, <1>6, <1>7 DEF Ownership, DoomedNotOwned, OneOwner
  <2>2. \A v \in Workers, n \in Names :
          n # req'[v].name \/ req'[v].pc = "reap" => Doomed(v)' \cap Range(chunkMap[n]) = {}
    BY <1>3, <1>4, <1>5, <1>6, <1>7 DEF Ownership, DoomedNotOwned, OneOwner
  <2> QED BY <1>4, <2>1, <2>2 DEF DoomedNotOwned
<1> QED BY <1>8, <1>9, <1>10 DEF Ownership

\* A transaction hands the uploaded messages over to the object.
LEMMA CommittedOwnership ==
  ASSUME TypeInv, Ownership, NEW w \in Workers, Committed(w)
  PROVE  Ownership'
<1> DEFINE name == req[w].name
           mine == Range(req[w].chunks)
<1>1. req[w] \in Requests /\ chunkMap \in [Names -> Seq(Messages)]
  BY DEF TypeInv, TypeOK
<1>2. req'[w].old = req[w].old /\ req'[w].name = name /\ req'[w].pc = "reap"
  BY <1>1 DEF Committed, Requests
<1>3. Moves(w) /\ name \in Names /\ nextId' = nextId /\ req[w].pc = "commit"
  BY DEF Committed
<1>4. InFlight(w) = mine /\ InFlight(w)' = {} /\ Doomed(w)' = Doomed(w)
  BY <1>2, <1>3 DEF InFlight, Doomed
<1>5. Range(chunkMap'[name]) = mine
  BY <1>1, <1>3 DEF Committed
<1>6. \A n \in Names : n # name => chunkMap'[n] = chunkMap[n]
  BY <1>1, <1>3 DEF Committed
<1> HIDE DEF name, mine
<1>7. \A v \in Workers : /\ InFlight(v)' \subseteq InFlight(v)
                         /\ Doomed(v)' = Doomed(v)
                         /\ v # w => InFlight(v)' = InFlight(v) /\ req'[v] = req[v]
  BY <1>3, <1>4, OthersKeep
<1>8. FreshIds'
  <2>1. \A n \in Names : \A m \in Range(chunkMap'[n]) : m.id < nextId
    BY <1>4, <1>5, <1>6 DEF Ownership, FreshIds
  <2>2. \A v \in Workers : \A m \in InFlight(v)' \cup Doomed(v)' : m.id < nextId
    BY <1>7 DEF Ownership, FreshIds
  <2> QED BY <1>3, <2>1, <2>2 DEF FreshIds
<1>9. OneOwner'
  <2>1. \A n1, n2 \in Names : n1 # n2 => Range(chunkMap'[n1]) \cap Range(chunkMap'[n2]) = {}
    BY <1>4, <1>5, <1>6 DEF Ownership, OneOwner
  <2>2. \A v \in Workers, n \in Names : InFlight(v)' \cap Range(chunkMap'[n]) = {}
    BY <1>4, <1>5, <1>6, <1>7 DEF Ownership, OneOwner
  <2>3. \A u, v \in Workers : u # v => InFlight(u)' \cap InFlight(v)' = {}
    BY <1>7 DEF Ownership, OneOwner
  <2> QED BY <2>1, <2>2, <2>3 DEF OneOwner
<1>10. DoomedNotOwned'
  <2>1. \A u, v \in Workers : Doomed(v)' \cap InFlight(u)' = {}
    BY <1>7 DEF Ownership, DoomedNotOwned
  <2>2. ASSUME NEW v \in Workers, NEW n \in Names, n # req'[v].name \/ req'[v].pc = "reap"
        PROVE  Doomed(v)' \cap Range(chunkMap'[n]) = {}
    <3>1. CASE n = name
      BY <1>4, <1>5, <1>7, <3>1 DEF Ownership, DoomedNotOwned
    <3>2. CASE n # name
      BY <1>2, <1>6, <1>7, <2>2, <3>2 DEF Ownership, DoomedNotOwned, name
    <3> QED BY <3>1, <3>2
  <2> QED BY <2>1, <2>2 DEF DoomedNotOwned
<1> QED BY <1>8, <1>9, <1>10 DEF Ownership

\* A failed transaction leaves the messages with the handler, which discards them.
LEMMA GaveUpOwnership ==
  ASSUME TypeInv, Ownership, NEW w \in Workers, GaveUp(w)
  PROVE  Ownership'
<1>1. req[w] \in Requests
  BY DEF TypeInv, TypeOK
<1>2. req'[w].chunks = req[w].chunks /\ req'[w].pc = "discard" /\ req[w].pc = "commit"
  BY <1>1 DEF GaveUp, Requests
<1>3. InFlight(w)' = InFlight(w) /\ Doomed(w)' = {}
  BY <1>2 DEF InFlight, Doomed
<1>4. Moves(w) /\ UNCHANGED <<chunkMap, nextId>>
  BY DEF GaveUp, Kept
<1>5. \A v \in Workers : /\ InFlight(v)' = InFlight(v)
                         /\ Doomed(v)' \subseteq Doomed(v)
                         /\ v # w => req'[v] = req[v]
  BY <1>3, <1>4, OthersKeep
<1>6. FreshIds' /\ OneOwner'
  BY <1>4, <1>5 DEF Ownership, FreshIds, OneOwner
<1>7. DoomedNotOwned'
  BY <1>3, <1>4, <1>5 DEF Ownership, DoomedNotOwned
<1> QED BY <1>6, <1>7 DEF Ownership

\* Ownership is inductive, together with the types.
LEMMA OwnershipStep ==
  ASSUME TypeInv, Ownership, [Next]_vars
  PROVE  Ownership'
<1>1. CASE TablesOK' /\ \E w \in Workers : Effect(w)
  BY <1>1, ReleasedOwnership, UploadedOwnership, HasReadOwnership, CommittedOwnership,
     GaveUpOwnership DEF Effect
<1>2. CASE Crash
  <2>1. req' = [w \in Workers |-> Idle] /\ UNCHANGED <<chunkMap, nextId>>
    BY <1>2, CrashEffect DEF Kept
  <2>2. \A w \in Workers : InFlight(w)' = {} /\ Doomed(w)' = {}
    BY <2>1 DEF InFlight, Doomed, Idle
  <2>3. FreshIds' /\ OneOwner' /\ DoomedNotOwned'
    BY <2>1, <2>2 DEF Ownership, FreshIds, OneOwner, DoomedNotOwned
  <2> QED BY <2>3 DEF Ownership
<1>3. CASE UNCHANGED vars
  BY <1>3 DEF vars, Ownership, FreshIds, OneOwner, DoomedNotOwned, InFlight, Doomed
<1> QED BY <1>1, <1>2, <1>3, NextEffect

\* Ownership holds in the initial state: there is no message.
LEMMA OwnershipInit == Init => Ownership
<1> SUFFICES ASSUME Init PROVE Ownership
  OBVIOUS
<1>1. \A w \in Workers : InFlight(w) = {} /\ Doomed(w) = {}
  BY DEF Init, InFlight, Doomed, Idle
<1>2. \A n \in Names : Range(chunkMap[n]) = {}
  BY DEF Init, Range
<1> QED BY <1>1, <1>2 DEF Ownership, FreshIds, OneOwner, DoomedNotOwned

\* At all times every message has one owner, an object or a request about to
\* commit it, whatever the requests, failures and crashes (putObject,
\* copyObject: copy is a re-upload).
THEOREM EveryMessageHasOneOwner == Spec => []OneOwner
<1>1. Init => TypeInv /\ Ownership
  BY TypeInvInit, OwnershipInit
<1>2. TypeInv /\ Ownership /\ [Next]_vars => TypeInv' /\ Ownership'
  BY TypeInvStep, OwnershipStep
<1>3. Ownership => OneOwner
  BY DEF Ownership
<1> QED BY <1>1, <1>2, <1>3, PTL DEF Spec

\* The chunk list a handler read before its transaction, stale when it is used,
\* names no message of a current version or of an upload (readOldChunks,
\* reapSupersededChunks).
THEOREM StaleListsAreHarmless == Spec => []DoomedNotOwned
<1>1. Init => TypeInv /\ Ownership
  BY TypeInvInit, OwnershipInit
<1>2. TypeInv /\ Ownership /\ [Next]_vars => TypeInv' /\ Ownership'
  BY TypeInvStep, OwnershipStep
<1>3. Ownership => DoomedNotOwned
  BY DEF Ownership
<1> QED BY <1>1, <1>2, <1>3, PTL DEF Spec

----------------------------------------------------------------------------
(* What is deleted                                                         *)

\* The only steps that remove messages, and which they remove.
LEMMA Removes ==
  ASSUME TypeInv, NEW w \in Workers, Begin(w) \/ Step(w)
  PROVE  \/ channel \subseteq channel'
         \/ req[w].pc \in {"reap", "delReap"} /\ channel \ channel' \subseteq Range(req[w].old)
         \/ req[w].pc = "discard" /\ channel \ channel' \subseteq Range(req[w].chunks)
<1>1. channel \subseteq Messages
  BY DEF TypeInv, TypeOK
<1>2. CASE reapSupersededChunks(w) \/ deleteReap(w)
  BY <1>1, <1>2, DeleteBatchType DEF reapSupersededChunks, deleteReap
<1>3. CASE deleteChunks(w)
  BY <1>1, <1>3, DeleteBatchType DEF deleteChunks
<1>4. CASE Upload(w) \/ CopyUpload(w)
  BY <1>4, SMTT(60) DEF Upload, CopyUpload, UploadOK, UploadFails
<1>5. CASE \/ DeleteBucket(w) \/ readOldChunks(w) \/ PutObject(w) \/ loadRow(w)
           \/ loadChunks(w) \/ streamObject(w) \/ deleteOneObject(w) \/ deleteReadChunks(w)
           \/ DeleteObject(w) \/ Answered(w)
  BY <1>5, ZenonT(60)
  DEF DeleteBucket, readOldChunks, PutObject, loadRow, loadChunks, streamObject,
      deleteOneObject, deleteReadChunks, DeleteObject, Answered, telegram
<1>6. CASE Begin(w)
  BY <1>6 DEF Begin, createBucket, deleteBucketList, putObject, copyObject, getObject,
              deleteObjects, telegram
<1> QED BY <1>2, <1>3, <1>4, <1>5, <1>6 DEF Step

\* No step but the reap of a DELETE removes a message of a current version.
LEMMA SparesCurrentStep ==
  ASSUME TypeInv, Ownership, [Next]_vars
  PROVE  SparesCurrent
<1> SUFFICES ASSUME NEW n \in Names, NEW m \in Range(chunkMap[n]), m \in channel \ channel'
             PROVE  \E w \in Workers : req[w].pc = "delReap" /\ req[w].name = n
  BY DEF SparesCurrent
<1>1. PICK w \in Workers : Begin(w) \/ Step(w)
  <2>1. CASE Crash \/ UNCHANGED vars
    BY <2>1 DEF Crash, telegram, vars
  <2> QED BY <2>1 DEF Next
<1>2. CASE req[w].pc = "discard" /\ m \in Range(req[w].chunks)
  <2>1. m \in InFlight(w)
    BY <1>2 DEF InFlight
  <2> QED BY <2>1 DEF Ownership, OneOwner
<1>3. CASE req[w].pc \in {"reap", "delReap"} /\ m \in Range(req[w].old)
  <2>1. m \in Doomed(w)
    BY <1>3 DEF Doomed
  <2>2. req[w].name = n /\ req[w].pc # "reap"
    BY <2>1 DEF Ownership, DoomedNotOwned
  <2> QED BY <1>3, <2>2
<1> QED BY <1>1, <1>2, <1>3, Removes

\* A message of a current version is deleted only by a DELETE of its object:
\* reaping after an overwrite or a rejected upload never hits one, however
\* requests interleave and whatever fails.
THEOREM ReapIsSafe == Spec => ReapSparesCurrent
<1>1. Init => TypeInv /\ Ownership
  BY TypeInvInit, OwnershipInit
<1>2. TypeInv /\ Ownership /\ [Next]_vars => TypeInv' /\ Ownership'
  BY TypeInvStep, OwnershipStep
<1>3. TypeInv /\ Ownership /\ [Next]_vars => [SparesCurrent]_vars
  BY SparesCurrentStep
<1> QED BY <1>1, <1>2, <1>3, PTL DEF Spec, ReapSparesCurrent

----------------------------------------------------------------------------
(* Rows and chunk maps                                                     *)

\* Matches is inductive, together with the types.
LEMMA MatchesStep ==
  ASSUME TypeInv, Matches, [Next]_vars
  PROVE  Matches'
<1>1. ASSUME NEW w \in Workers, TablesOK', Effect(w)
      PROVE  Matches'
  <2>1. Moves(w) /\ req[w] \in Requests
    BY <1>1 DEF Effect, Released, Releases, Uploaded, HasRead, Committed, GaveUp, TypeInv,
                TypeOK
  <2>2. ASSUME req'[w].pc \in {"readOld", "commit"} => req'[w].body = DocsOf(req'[w].chunks)
        PROVE  BodyIsSent'
    <3>1. \A v \in Workers : req'[v].pc \in {"readOld", "commit"}
                               => req'[v].body = DocsOf(req'[v].chunks)
      BY <2>1, <2>2 DEF Moves, Matches, BodyIsSent
    <3> QED BY <3>1 DEF BodyIsSent, DocsOf
  <2>3. ASSUME Kept
        PROVE  RowMatchesMap'
    BY <2>3 DEF Kept, Matches, RowMatchesMap
  <2>4. CASE Released(w)
    <3>1. req'[w].pc \notin {"readOld", "commit"}
      BY <2>4 DEF Released, Releases, Holding
    <3>2. RowMatchesMap'
      BY <2>4 DEF Released, Matches, RowMatchesMap
    <3> QED BY <2>2, <3>1, <3>2 DEF Matches
  <2>5. CASE Uploaded(w)
    <3>1. req'[w].body = DocsOf(req'[w].chunks)
      BY <2>5, SentType DEF Uploaded, TypeInv, TypeOK
    <3> QED BY <2>2, <2>3, <2>5, <3>1 DEF Uploaded, Matches
  <2>6. CASE HasRead(w)
    <3>1. req'[w].body = req[w].body /\ req'[w].chunks = req[w].chunks
      BY <2>1, <2>6 DEF HasRead, Requests
    <3>2. req'[w].pc = "delReap" \/ req[w].body = DocsOf(req[w].chunks)
      BY <2>6 DEF HasRead, Matches, BodyIsSent
    <3> QED BY <2>2, <2>3, <2>6, <3>1, <3>2 DEF HasRead, Matches
  <2>7. CASE Committed(w)
    <3>1. req'[w].pc = "reap"
      BY <2>1, <2>7 DEF Committed, Requests
    <3>2. req[w].body = DocsOf(req[w].chunks) /\ req[w].body \in Seq(Documents)
      BY <2>1, <2>7 DEF Committed, Matches, BodyIsSent, Requests
    <3>3. ObjectRow(req[w].body) # None
      BY <3>2, ObjectRowType, NoneAssumption
    <3>4. ASSUME NEW n \in Names
          PROVE  IF objects'[n] = None
                   THEN chunkMap'[n] = <<>>
                   ELSE objects'[n] = ObjectRow(DocsOf(chunkMap'[n]))
      <4>1. objects \in [Names -> Rows \cup {None}] /\ chunkMap \in [Names -> Seq(Messages)]
        BY DEF TypeInv, TypeOK
      <4>2. CASE n = req[w].name
        BY <2>7, <3>2, <3>3, <4>1, <4>2 DEF Committed
      <4>3. CASE n # req[w].name
        <5>1. objects'[n] = objects[n] /\ chunkMap'[n] = chunkMap[n]
          BY <2>7, <4>1, <4>3 DEF Committed
        <5> QED BY <5>1 DEF Matches, RowMatchesMap
      <4> QED BY <4>2, <4>3
    <3>5. RowMatchesMap'
      BY <3>4 DEF RowMatchesMap, DocsOf
    <3> QED BY <2>2, <3>1, <3>5 DEF Matches
  <2>8. CASE GaveUp(w)
    <3>1. req'[w].pc = "discard"
      BY <2>1, <2>8 DEF GaveUp, Requests
    <3> QED BY <2>2, <2>3, <2>8, <3>1 DEF GaveUp, Matches
  <2> QED BY <1>1, <2>4, <2>5, <2>6, <2>7, <2>8 DEF Effect
<1>2. CASE Crash
  <2>1. \A w \in Workers : req'[w].pc = "idle"
    BY <1>2, CrashEffect DEF Idle
  <2> QED BY <1>2, <2>1, CrashEffect DEF Kept, Matches, BodyIsSent, RowMatchesMap
<1>3. CASE UNCHANGED vars
  BY <1>3 DEF vars, Matches, BodyIsSent, RowMatchesMap
<1> QED BY <1>1, <1>2, <1>3, NextEffect

\* The size and ETag of every object are those of the bytes its chunk map holds,
\* also for a COPY whose source was overwritten while it was read (copyObject,
\* PutObject).
THEOREM RowsDescribeChunks == Spec => []RowMatchesMap
<1>1. Init => TypeInv /\ Matches
  BY TypeInvInit DEF Init, Matches, BodyIsSent, RowMatchesMap, Idle
<1>2. TypeInv /\ Matches /\ [Next]_vars => TypeInv' /\ Matches'
  BY TypeInvStep, MatchesStep
<1>3. Matches => RowMatchesMap
  BY DEF Matches
<1> QED BY <1>1, <1>2, <1>3, PTL DEF Spec


----------------------------------------------------------------------------
(* Versions are not mixed                                                  *)

\* b is the beginning of one body a client uploads.
Piece(b) ==
  /\ b \in Seq(Documents)
  /\ \E body \in Bodies : Len(b) <= Len(body) /\ \A i \in 1..Len(b) : b[i] = body[i]

\* What a handler uploads, streams or has served is the beginning of one body.
\* A handler that has found a row knows that some body was uploaded: the empty
\* chunk map it may read then is the beginning of that one.
OneVersion(r) ==
  /\ r.pc \in {"upload", "readOld", "commit"} => Piece(r.body)
  /\ r.pc = "loadChunks" => Bodies # {}
  /\ r.pc \in {"stream", "copyUpload"} => Piece(DocsOf(r.read))
  /\ r.pc = "done" /\ r.op = "get" /\ r.status = "ok" => Piece(r.body)

\* Every object, and every handler's locals, hold one version.
Versions ==
  /\ \A n \in Names : objects[n] # None => Piece(DocsOf(chunkMap[n]))
  /\ \A w \in Workers : OneVersion(req[w])

\* A body is the beginning of itself.
LEMMA BodyIsPiece == \A body \in Bodies : Piece(body)
BY BodiesAssumption DEF Piece

\* The empty body is the beginning of any.
LEMMA EmptyIsPiece ==
  ASSUME Bodies # {}
  PROVE  Piece(DocsOf(<<>>))
<1>1. DocsOf(<<>>) = <<>>
  BY DEF DocsOf
<1>2. PICK body \in Bodies : Len(body) \in Nat
  BY BodiesAssumption
<1> DEFINE e == <<>>
<1>3. e \in Seq(Documents) /\ Len(e) = 0
  OBVIOUS
<1> HIDE DEF e
<1>4. Piece(e)
  BY <1>2, <1>3, SMTT(60) DEF Piece
<1> QED BY <1>1, <1>4 DEF e

\* The beginning of a body in the terms of NoMixedVersions.
LEMMA PieceIsPrefix ==
  ASSUME NEW b, Piece(b)
  PROVE  \E body \in Bodies : \E k \in 0..Len(body) : b = SubSeq(body, 1, k)
<1>1. PICK body \in Bodies : Len(b) <= Len(body) /\ \A i \in 1..Len(b) : b[i] = body[i]
  BY DEF Piece
<1>2. b \in Seq(Documents) /\ body \in Seq(Documents)
  BY BodiesAssumption DEF Piece
<1>3. Len(b) \in 0..Len(body) /\ Len(b) \in Int
  BY <1>1, <1>2
<1>4. \A i \in 1..Len(b) : body[i] \in Documents
  BY <1>2, <1>3
<1> DEFINE s == SubSeq(body, 1, Len(b))
<1>5. /\ s \in Seq(Documents)
      /\ Len(s) = IF 1 <= Len(b) THEN Len(b) - 1 + 1 ELSE 0
      /\ \A i \in 1..(Len(b) - 1 + 1) : s[i] = body[1 + i - 1]
  BY <1>3, <1>4, SubSeqProperties
<1> HIDE DEF s
<1>6. Len(s) = Len(b) /\ \A i \in 1..Len(b) : s[i] = b[i]
  BY <1>1, <1>2, <1>3, <1>5
<1>7. s = b
  BY <1>2, <1>5, <1>6, SeqEqual
<1> QED BY <1>3, <1>7 DEF s

\* What a reader delivers of the beginning of a body is one as well.
LEMMA SourceIsPiece ==
  ASSUME NEW w, req[w].row \in Rows, req[w].read \in Seq(Messages),
         Piece(DocsOf(req[w].read))
  PROVE  Piece(SourceBytes(w))
<1> DEFINE size == req[w].row.size
           read == req[w].read
           docs == DocsOf(read)
           b == SourceBytes(w)
<1>1. size \in Nat /\ read \in Seq(Messages) /\ b \in Seq(Documents) /\ Piece(docs)
  BY SourceBytesType DEF Rows
<1>2. b = [i \in (1..size) \cap DOMAIN read |-> read[i].doc]
  BY DEF SourceBytes
<1>3. docs = [i \in DOMAIN read |-> read[i].doc]
  BY DEF DocsOf
<1> HIDE DEF size, read, docs, b
<1>4. docs \in Seq(Documents)
  BY <1>1 DEF Piece
<1>5. DOMAIN b \subseteq DOMAIN docs /\ \A i \in DOMAIN b : b[i] = docs[i]
  BY <1>2, <1>3
<1>6. /\ DOMAIN b = 1..Len(b) /\ Len(b) \in Nat
      /\ DOMAIN docs = 1..Len(docs) /\ Len(docs) \in Nat
  BY <1>1, <1>4
<1>7. Len(b) <= Len(docs)
  BY <1>5, <1>6
<1>8. PICK body \in Bodies :
        Len(docs) <= Len(body) /\ \A i \in 1..Len(docs) : docs[i] = body[i]
  BY <1>1 DEF Piece
<1>9. Len(body) \in Nat
  BY BodiesAssumption
<1>10. Len(b) <= Len(body)
  BY <1>6, <1>7, <1>8, <1>9
<1>11. \A i \in 1..Len(b) : b[i] = body[i]
  BY <1>5, <1>6, <1>8
<1> QED BY <1>1, <1>10, <1>11 DEF Piece, b

\* A request at a position where OneVersion asks nothing.
LEMMA NothingHeld ==
  ASSUME NEW r, r.pc \notin {"upload", "readOld", "commit", "loadChunks", "stream", "copyUpload"},
         r.pc = "done" => r.op # "get" \/ r.status # "ok"
  PROVE  OneVersion(r)
BY DEF OneVersion

\* An answer that serves no bytes.
LEMMA AnswerOneVersion ==
  ASSUME TypeOK, NEW w \in Workers, NEW s,
         Answer(w, s) \/ (AnswerRead(w, s) /\ s # "ok")
  PROVE  OneVersion(req'[w])
<1>1. CASE Answer(w, s)
  <2>1. req'[w].pc = "done" /\ req'[w].op = "none"
    BY <1>1 DEF Answer, Idle, TypeOK
  <2> QED BY <2>1, NothingHeld
<1>2. CASE AnswerRead(w, s) /\ s # "ok"
  <2>1. req'[w].pc = "done" /\ req'[w].status # "ok"
    BY <1>2 DEF AnswerRead, Idle, TypeOK
  <2> QED BY <2>1, NothingHeld
<1> QED BY <1>1, <1>2

\* The end of deleteOneObject.
LEMMA NextKeyOneVersion ==
  ASSUME TypeOK, NEW w \in Workers, NEW s, NextKey(w, s)
  PROVE  OneVersion(req'[w])
<1>1. CASE Len(req[w].todo) = 1
  BY <1>1, AnswerOneVersion DEF NextKey
<1>2. CASE Len(req[w].todo) # 1
  <2>1. req[w] \in Requests
    BY DEF TypeOK
  <2>2. req'[w].pc = "delRow"
    BY <1>2, <2>1 DEF NextKey, Requests, TypeOK
  <2> QED BY <2>2, NothingHeld
<1> QED BY <1>1, <1>2

\* A handler that begins has at most the body its client sent.
LEMMA BeginOneVersion ==
  ASSUME TypeInv, NEW w \in Workers, Begin(w)
  PROVE  OneVersion(req'[w])
<1>1. TypeOK
  BY DEF TypeInv
<1>2. ASSUME NEW s, Answer(w, s)
      PROVE  OneVersion(req'[w])
  BY <1>1, <1>2, AnswerOneVersion
<1>3. CASE \E b \in Buckets : createBucket(w, b)
  BY <1>2, <1>3 DEF createBucket
<1>4. ASSUME NEW b \in Buckets, deleteBucketList(w, b)
      PROVE  OneVersion(req'[w])
  <2>1. CASE req' = [req EXCEPT ![w] = [Idle EXCEPT !.pc = "dropBucket",
                                                    !.op = "deleteBucket", !.bucket = b]]
    <3>1. req'[w].pc = "dropBucket"
      BY <1>1, <2>1 DEF TypeOK, Idle
    <3> QED BY <3>1, NothingHeld
  <2> QED BY <1>2, <1>4, <2>1 DEF deleteBucketList
<1>5. ASSUME NEW n \in Names, NEW body \in Bodies, putObject(w, n, body)
      PROVE  OneVersion(req'[w])
  <2>1. CASE req' = [req EXCEPT ![w] = [Idle EXCEPT !.pc = "upload", !.op = "put",
                                                    !.name = n, !.body = body]]
    <3>1. req'[w].pc = "upload" /\ req'[w].body = body
      BY <1>1, <2>1 DEF TypeOK, Idle
    <3> QED BY <3>1, BodyIsPiece DEF OneVersion
  <2> QED BY <1>2, <1>5, <2>1 DEF putObject
<1>6. ASSUME NEW n, NEW s, NEW o,
             req' = [req EXCEPT ![w] = [Idle EXCEPT !.pc = "loadRow", !.op = o, !.name = n,
                                                    !.src = s]]
      PROVE  OneVersion(req'[w])
  <2>1. req'[w].pc = "loadRow"
    BY <1>1, <1>6 DEF TypeOK, Idle
  <2> QED BY <2>1, NothingHeld
<1>7. ASSUME NEW n \in Names, (\E s \in Names : copyObject(w, n, s)) \/ getObject(w, n)
      PROVE  OneVersion(req'[w])
  BY <1>2, <1>6, <1>7 DEF copyObject, getObject
<1>8. ASSUME NEW names \in DeleteLists, deleteObjects(w, names)
      PROVE  OneVersion(req'[w])
  <2>1. CASE req' = [req EXCEPT ![w] = [Idle EXCEPT !.pc = "delRow", !.op = "delete",
                                                    !.todo = names, !.name = names[1]]]
    <3>1. req'[w].pc = "delRow"
      BY <1>1, <2>1 DEF TypeOK, Idle
    <3> QED BY <3>1, NothingHeld
  <2> QED BY <1>2, <1>8, <2>1 DEF deleteObjects
<1> QED BY <1>3, <1>4, <1>5, <1>7, <1>8 DEF Begin


\* A handler's steps keep its locals to one version, although row, chunk map and
\* messages are read at different times.
LEMMA StepOneVersion ==
  ASSUME TypeInv, Matches, Versions, NEW w \in Workers, Step(w)
  PROVE  OneVersion(req'[w])
<1>1. TypeOK /\ req[w] \in Requests /\ Formed(req[w]) /\ OneVersion(req[w])
  BY DEF TypeInv, TypeOK, Versions
<1>2. ASSUME NEW s, Answer(w, s) \/ (AnswerRead(w, s) /\ s # "ok") \/ NextKey(w, s)
      PROVE  OneVersion(req'[w])
  BY <1>1, <1>2, AnswerOneVersion, NextKeyOneVersion
<1>3. ASSUME NEW p \in {"reap", "discard", "delChunks", "delCommit"}, Goto(w, p)
      PROVE  OneVersion(req'[w])
  <2>1. req'[w].pc = p
    BY <1>1, <1>3 DEF Goto, TypeOK, Requests
  <2> QED BY <1>3, <2>1, NothingHeld
<1>4. ASSUME NEW body, Piece(body), NEW p \in {"readOld", "discard"}, UploadOK(w, body, p)
      PROVE  OneVersion(req'[w])
  <2>1. req'[w].pc = p /\ req'[w].body = body
    BY <1>1, <1>4 DEF UploadOK, TypeOK, Requests
  <2> QED BY <1>4, <2>1 DEF OneVersion
<1>5. CASE DeleteBucket(w) \/ reapSupersededChunks(w) \/ deleteChunks(w)
  BY <1>2, <1>5 DEF DeleteBucket, reapSupersededChunks, deleteChunks
<1>6. CASE Upload(w)
  <2>1. Piece(req[w].body)
    BY <1>1, <1>6 DEF Upload, OneVersion
  <2> QED BY <1>2, <1>4, <1>6, <2>1 DEF Upload, UploadFails
<1>7. CASE CopyUpload(w)
  <2>1. req[w].row \in Rows /\ req[w].read \in Seq(Messages) /\ Piece(DocsOf(req[w].read))
    BY <1>1, <1>7 DEF CopyUpload, Formed, Requests, OneVersion
  <2>2. Piece(SourceBytes(w))
    BY <2>1, SourceIsPiece
  <2> QED BY <1>2, <1>4, <1>7, <2>2 DEF CopyUpload, UploadFails
<1>8. CASE readOldChunks(w)
  <2>1. PICK old : req' = [req EXCEPT ![w] = [req[w] EXCEPT !.pc = "commit", !.old = old]]
    BY <1>8 DEF readOldChunks
  <2>2. req'[w].pc = "commit" /\ req'[w].body = req[w].body
    BY <1>1, <2>1 DEF TypeOK, Requests
  <2>3. Piece(req[w].body)
    BY <1>1, <1>8 DEF readOldChunks, OneVersion
  <2> QED BY <2>2, <2>3 DEF OneVersion
<1>9. CASE PutObject(w)
  BY <1>3, <1>9 DEF PutObject
<1>10. CASE loadRow(w)
  <2> DEFINE x == objects[req[w].src]
  <2>1. CASE x # None /\ req' = [req EXCEPT ![w] = [req[w] EXCEPT !.pc = "loadChunks", !.row = x]]
    <3>1. req[w].src \in Names
      BY <1>1, <1>10 DEF loadRow, Formed
    <3>2. Bodies # {}
      BY <2>1, <3>1 DEF Versions, Piece
    <3>3. req'[w].pc = "loadChunks"
      BY <1>1, <2>1 DEF TypeOK, Requests
    <3> QED BY <3>2, <3>3 DEF OneVersion
  <2> QED BY <1>2, <1>10, <2>1 DEF loadRow
<1>11. CASE loadChunks(w)
  <2> DEFINE x == chunkMap[req[w].src]
             p == IF req[w].op = "get" THEN "stream" ELSE "copyUpload"
  <2>1. CASE req' = [req EXCEPT ![w] = [req[w] EXCEPT !.pc = p, !.read = x]]
    <3>1. req[w].src \in Names /\ Bodies # {}
      BY <1>1, <1>11 DEF loadChunks, Formed, OneVersion
    <3>2. Piece(DocsOf(x))
      <4>1. CASE objects[req[w].src] = None
        <5>1. x = <<>>
          BY <3>1, <4>1 DEF Matches, RowMatchesMap
        <5> QED BY <3>1, <5>1, EmptyIsPiece
      <4>2. CASE objects[req[w].src] # None
        BY <3>1, <4>2 DEF Versions
      <4> QED BY <4>1, <4>2
    <3>3. p \in {"stream", "copyUpload"}
      OBVIOUS
    <3> HIDE DEF x, p
    <3>4. req'[w].pc = p /\ req'[w].read = x
      BY <1>1, <2>1 DEF TypeOK, Requests
    <3> QED BY <3>2, <3>3, <3>4 DEF OneVersion
  <2> QED BY <1>2, <1>11, <2>1 DEF loadChunks
<1>12. CASE streamObject(w)
  <2> DEFINE x == SourceBytes(w)
  <2>1. CASE req' = [req EXCEPT ![w] = [req[w] EXCEPT !.pc = "done", !.status = "ok", !.body = x]]
    <3>1. req[w].row \in Rows /\ req[w].read \in Seq(Messages) /\ Piece(DocsOf(req[w].read))
      BY <1>1, <1>12 DEF streamObject, Formed, Requests, OneVersion
    <3>2. Piece(x)
      BY <3>1, SourceIsPiece
    <3> HIDE DEF x
    <3>3. req'[w].pc = "done" /\ req'[w].body = x
      BY <1>1, <2>1 DEF TypeOK, Requests
    <3> QED BY <3>2, <3>3 DEF OneVersion
  <2> QED BY <1>2, <1>12, <2>1 DEF streamObject
<1>13. CASE deleteOneObject(w) \/ deleteReap(w) \/ DeleteObject(w)
  BY <1>2, <1>3, <1>13 DEF deleteOneObject, deleteReap, DeleteObject
<1>14. CASE deleteReadChunks(w)
  <2> DEFINE x == chunkMap[req[w].name]
  <2>1. CASE req' = [req EXCEPT ![w] = [req[w] EXCEPT !.pc = "delReap", !.old = x]]
    <3>1. req'[w].pc = "delReap"
      BY <1>1, <2>1 DEF TypeOK, Requests
    <3> QED BY <3>1, NothingHeld
  <2> QED BY <1>2, <1>14, <2>1 DEF deleteReadChunks
<1>15. CASE Answered(w)
  <2>1. req'[w].pc = "idle"
    BY <1>1, <1>15 DEF Answered, TypeOK, Idle
  <2> QED BY <2>1, NothingHeld
<1> QED BY <1>5, <1>6, <1>7, <1>8, <1>9, <1>10, <1>11, <1>12, <1>13, <1>14, <1>15 DEF Step

\* An object's chunks stay one version's: a commit writes the messages of the
\* body it uploaded.
LEMMA EffectOneVersion ==
  ASSUME TypeInv, Matches, Versions, NEW w \in Workers, Effect(w), NEW n \in Names,
         objects'[n] # None
  PROVE  Piece(DocsOf(chunkMap'[n]))
<1>1. CASE objects'[n] = objects[n] /\ chunkMap'[n] = chunkMap[n]
  BY <1>1 DEF Versions
<1>2. CASE Committed(w) /\ n = req[w].name
  <2>1. chunkMap'[n] = req[w].chunks
    BY <1>2 DEF Committed, TypeInv, TypeOK
  <2>2. req[w].body = DocsOf(req[w].chunks) /\ Piece(req[w].body)
    BY <1>2 DEF Committed, Matches, BodyIsSent, Versions, OneVersion
  <2> QED BY <2>1, <2>2
<1>3. CASE Committed(w) /\ n # req[w].name
  BY <1>1, <1>3 DEF Committed, TypeInv, TypeOK
<1>4. CASE ~Committed(w)
  BY <1>1, <1>4 DEF Effect, Released, Uploaded, HasRead, GaveUp, Kept
<1> QED BY <1>2, <1>3, <1>4

\* Versions is inductive, together with the types and Matches.
LEMMA VersionsStep ==
  ASSUME TypeInv, Matches, Versions, [Next]_vars
  PROVE  Versions'
<1>1. ASSUME NEW w \in Workers, Begin(w) \/ Step(w)
      PROVE  Versions'
  <2>1. OneVersion(req'[w])
    BY <1>1, BeginOneVersion, StepOneVersion
  <2>2. Effect(w)
    BY <1>1, BeginEffect, StepEffect DEF Effect
  <2>3. Moves(w)
    BY <2>2 DEF Effect, Released, Releases, Uploaded, HasRead, Committed, GaveUp
  <2>4. \A v \in Workers : OneVersion(req'[v])
    BY <2>1, <2>3 DEF Moves, Versions
  <2>5. \A n \in Names : objects'[n] # None => Piece(DocsOf(chunkMap'[n]))
    BY <2>2, EffectOneVersion
  <2> QED BY <2>4, <2>5 DEF Versions, OneVersion, Piece, DocsOf
<1>2. CASE Crash
  <2>1. req' = [w \in Workers |-> Idle] /\ Kept
    BY <1>2, CrashEffect
  <2>2. OneVersion(Idle)
    BY NothingHeld DEF Idle
  <2>3. \A w \in Workers : OneVersion(req'[w])
    BY <2>1, <2>2
  <2>4. \A n \in Names : objects'[n] # None => Piece(DocsOf(chunkMap'[n]))
    BY <2>1 DEF Kept, Versions
  <2> QED BY <2>3, <2>4 DEF Versions, OneVersion, Piece, DocsOf
<1>3. CASE UNCHANGED vars
  <2>1. UNCHANGED <<objects, chunkMap, req>>
    BY <1>3 DEF vars
  <2>2. \A w \in Workers : OneVersion(req'[w])
    BY <2>1 DEF Versions
  <2>3. \A n \in Names : objects'[n] # None => Piece(DocsOf(chunkMap'[n]))
    BY <2>1 DEF Versions
  <2> QED BY <2>2, <2>3 DEF Versions, OneVersion, Piece, DocsOf
<1> QED BY <1>1, <1>2, <1>3 DEF Next

\* What a successful GET serves is one uploaded body or the beginning of one
\* (getObject, streamObject), whatever PUTs, COPYs, DELETEs, faults and crashes
\* happen between its query for the row, its query for the chunk map and its
\* reading of the messages.
THEOREM VersionsNeverMix == Spec => []NoMixedVersions
<1> DEFINE Inv == TypeInv /\ Matches /\ Versions
<1>1. Init => Inv
  <2> SUFFICES ASSUME Init PROVE Inv
    OBVIOUS
  <2>1. TypeInv /\ Matches
    BY TypeInvInit DEF Init, Matches, BodyIsSent, RowMatchesMap, Idle
  <2>2. OneVersion(Idle)
    BY NothingHeld DEF Idle
  <2>3. Versions
    BY <2>2 DEF Init, Versions
  <2> QED BY <2>1, <2>3
<1>2. Inv /\ [Next]_vars => Inv'
  BY TypeInvStep, MatchesStep, VersionsStep
<1>3. Inv => NoMixedVersions
  BY PieceIsPrefix DEF Versions, OneVersion, NoMixedVersions
<1> QED BY <1>1, <1>2, <1>3, PTL DEF Spec
=============================================================================
