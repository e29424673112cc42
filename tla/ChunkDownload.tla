--------------------------- MODULE ChunkDownload ---------------------------
(***************************************************************************)
(* Download of one Telegram message by concurrent readers: DownloadRange,  *)
(* downloadViaBot and resolveLocation                                      *)
(* (internal/storage/telegram/mtproto/download.go) over the shared cache   *)
(* of document locations (internal/cache/cache.go).                        *)
(*                                                                         *)
(* A location carries a file reference that Telegram stops accepting after *)
(* a while; it is modelled by the generation it was issued in.  Every RPC  *)
(* and every access to the cache's sync.Map is one step.                   *)
(***************************************************************************)
EXTENDS Integers, FiniteSets

CONSTANTS
  Readers,     \* concurrent DownloadRange calls for the message
  PoolSize,    \* the number of bots
  BotIndexes,  \* the bot indexes chunk rows may carry, also ones beyond the pool
  MaxEpoch,    \* bound on the number of times references expire
  None,        \* no cache entry
  Faulty       \* TRUE: any RPC may fail, the message and the access may go away

ASSUME DownloadAssumption ==
  /\ PoolSize \in Nat \ {0}
  /\ BotIndexes \subseteq Nat
  /\ MaxEpoch \in Nat
  /\ Faulty \in BOOLEAN

VARIABLES
  epoch,    \* the generation of references the server accepts
  present,  \* the message is in the channel
  member,   \* the bots have access to the channel
  cache,    \* locCache: an entry per bot for this message
  sweeper,  \* the entry the cache's sweeper has loaded
  reader    \* the calls in progress

vars == <<epoch, present, member, cache, sweeper, reader>>

server == <<epoch, present, member>>

Bots == 0..PoolSize - 1

Epochs == 0..MaxEpoch

\* A cached location; expired when its TTL has passed.  A *entry is identified by
\* its value: CompareAndDelete of an expired entry finds a fresh one different.
Entries == [loc : Epochs, expired : BOOLEAN]

ASSUME NoneAssumption == None \notin Entries

Positions == {"idle", "get", "evict", "resolve", "set", "fetch", "forget", "done"}

\* The locals of a call.  tried is history: the bots that failed.
Calls ==
  [pc : Positions, primary : Bots, bot : Bots, next : Nat, retried : BOOLEAN, loc : Epochs,
   seen : Entries \cup {None}, tried : SUBSET Bots,
   result : {"none", "ok", "failed", "denied"}]

NoCall == [pc |-> "idle", primary |-> 0, bot |-> 0, next |-> 0, retried |-> FALSE, loc |-> 0,
           seen |-> None, tried |-> {}, result |-> "none"]

TypeOK ==
  /\ epoch \in Epochs
  /\ {present, member} \subseteq BOOLEAN
  /\ cache \in [Bots -> Entries \cup {None}]
  /\ sweeper \in [bot : Bots, seen : Entries] \cup {None}
  /\ reader \in [Readers -> Calls]

----------------------------------------------------------------------------
(* DownloadRange                                                           *)

\* A call that takes the row's bot index as it is.
DownloadRange_unchecked(r) ==
  /\ reader[r].pc = "idle"
  /\ \E i \in BotIndexes :
       reader' = [reader EXCEPT ![r] = [NoCall EXCEPT !.pc = "get", !.primary = i, !.bot = i]]
  /\ UNCHANGED <<server, cache, sweeper>>

\* The call begins with the bot of the chunk row, or with any bot when the pool
\* has shrunk under the row.
DownloadRange(r) ==
  /\ reader[r].pc = "idle"
  /\ \E i \in BotIndexes, b \in Bots :
       /\ i \in Bots => b = i
       /\ reader' = [reader EXCEPT ![r] = [NoCall EXCEPT !.pc = "get", !.primary = b, !.bot = b]]
  /\ UNCHANGED <<server, cache, sweeper>>

\* The call returns res; the bots in failed have failed.
ReturnAfter(r, res, failed) ==
  reader' = [reader EXCEPT ![r] = [NoCall EXCEPT !.pc = "done", !.result = res,
                                                   !.tried = failed]]

Return(r, res) == ReturnAfter(r, res, reader[r].tried)

\* The next attempt is with bot b, the loop of the fallback goes on at i.
TryBot(r, b, i) ==
  reader' = [reader EXCEPT ![r] = [@ EXCEPT !.pc = "get", !.bot = b, !.next = i, !.loc = 0,
                                     !.retried = FALSE,
                                     !.tried = reader[r].tried \cup {reader[r].bot}]]

\* The first of the bots in rest, or "all bots failed".
Fallback(r, rest) ==
  IF rest = {}
    THEN ReturnAfter(r, "failed", reader[r].tried \cup {reader[r].bot})
    ELSE \E b \in rest : (\A i \in rest : b <= i) /\ TryBot(r, b, b + 1)

\* A fallback loop that leaves out the last bot.
BotFails_offByOne(r) ==
  Fallback(r, {i \in Bots : /\ reader[r].next <= i
                            /\ i < PoolSize - 1
                            /\ i # reader[r].primary})

\* The current bot failed: the next bot of the pool that is not the primary.
BotFails(r) == Fallback(r, {i \in Bots : reader[r].next <= i /\ i # reader[r].primary})

----------------------------------------------------------------------------
(* downloadViaBot                                                          *)

\* resolveLocation, locCache.Get: Load and the check of the TTL.
cacheGet(r) ==
  /\ reader[r].pc = "get"
  /\ LET e == cache[reader[r].bot] IN
       reader' = [reader EXCEPT ![r] =
         IF e = None THEN [@ EXCEPT !.pc = "resolve"]
         ELSE IF e.expired THEN [@ EXCEPT !.pc = "evict", !.seen = e]
         ELSE [@ EXCEPT !.pc = "fetch", !.loc = e.loc]]
  /\ UNCHANGED <<server, cache, sweeper>>

\* A Get that evicts with a plain Delete.
cacheEvict_delete(r) ==
  /\ reader[r].pc = "evict"
  /\ cache' = [cache EXCEPT ![reader[r].bot] = None]
  /\ reader' = [reader EXCEPT ![r] = [@ EXCEPT !.pc = "resolve", !.seen = None]]
  /\ UNCHANGED <<server, sweeper>>

\* locCache.Get, its CompareAndDelete of an expired entry.
cacheEvict(r) ==
  /\ reader[r].pc = "evict"
  /\ cache' = IF cache[reader[r].bot] = reader[r].seen
                THEN [cache EXCEPT ![reader[r].bot] = None]
                ELSE cache
  /\ reader' = [reader EXCEPT ![r] = [@ EXCEPT !.pc = "resolve", !.seen = None]]
  /\ UNCHANGED <<server, sweeper>>

\* fetchLocation: channels.getMessages, the document of the message.
fetchLocation(r) ==
  /\ reader[r].pc = "resolve"
  /\ \/ /\ present /\ member
        /\ reader' = [reader EXCEPT ![r] = [@ EXCEPT !.pc = "set", !.loc = epoch]]
     \/ ~member /\ Return(r, "denied")
     \/ (~present \/ Faulty) /\ member /\ BotFails(r)
  /\ UNCHANGED <<server, cache, sweeper>>

\* locCache.Set of what was fetched, whatever happened to the entry or to the
\* reference in the meantime.
cacheSet(r) ==
  /\ reader[r].pc = "set"
  /\ cache' = [cache EXCEPT ![reader[r].bot] = [loc |-> reader[r].loc, expired |-> FALSE]]
  /\ reader' = [reader EXCEPT ![r].pc = "fetch"]
  /\ UNCHANGED <<server, sweeper>>

\* fetchRange: the bytes, a refused reference, another error.  A deleted
\* message's document may still be served.
fetchRange(r) ==
  /\ reader[r].pc = "fetch"
  /\ \/ member /\ reader[r].loc = epoch /\ Return(r, "ok")
     \/ /\ member
        /\ reader[r].loc # epoch \/ ~present
        /\ IF reader[r].retried
             THEN BotFails(r)
             ELSE reader' = [reader EXCEPT ![r] = [@ EXCEPT !.pc = "forget", !.loc = 0]]
     \/ ~member /\ Return(r, "denied")
     \/ Faulty /\ member /\ BotFails(r)
  /\ UNCHANGED <<server, cache, sweeper>>

\* FILE_REFERENCE_EXPIRED: locCache.Delete, then resolve and fetch once more.
forget(r) ==
  /\ reader[r].pc = "forget"
  /\ cache' = [cache EXCEPT ![reader[r].bot] = None]
  /\ reader' = [reader EXCEPT ![r] = [@ EXCEPT !.pc = "get", !.retried = TRUE]]
  /\ UNCHANGED <<server, sweeper>>

\* The result is with the caller.
Answered(r) ==
  /\ reader[r].pc = "done"
  /\ reader' = [reader EXCEPT ![r] = NoCall]
  /\ UNCHANGED <<server, cache, sweeper>>

----------------------------------------------------------------------------
(* The cache's sweeper, time and Telegram                                  *)

\* The sweeper's Range comes to an expired entry,
sweepLoad ==
  /\ sweeper = None
  /\ \E b \in Bots : /\ cache[b] # None
                     /\ cache[b].expired
                     /\ sweeper' = [bot |-> b, seen |-> cache[b]]
  /\ UNCHANGED <<server, cache, reader>>

\* and deletes it if it is still the one it saw.
sweepDelete ==
  /\ sweeper # None
  /\ cache' = IF cache[sweeper.bot] = sweeper.seen
                THEN [cache EXCEPT ![sweeper.bot] = None]
                ELSE cache
  /\ sweeper' = None
  /\ UNCHANGED <<server, reader>>

\* The TTL of an entry passes.
ttlPasses ==
  /\ \E b \in Bots : /\ cache[b] # None
                     /\ ~cache[b].expired
                     /\ cache' = [cache EXCEPT ![b].expired = TRUE]
  /\ UNCHANGED <<server, sweeper, reader>>

\* The references issued so far are not accepted any more.
referencesExpire ==
  /\ epoch < MaxEpoch
  /\ epoch' = epoch + 1
  /\ UNCHANGED <<present, member, cache, sweeper, reader>>

\* The message is deleted, by a request or a reap.
messageDeleted ==
  /\ Faulty
  /\ present
  /\ present' = FALSE
  /\ UNCHANGED <<epoch, member, cache, sweeper, reader>>

\* The bots lose access to the channel.
accessLost ==
  /\ Faulty
  /\ member
  /\ member' = FALSE
  /\ UNCHANGED <<epoch, present, cache, sweeper, reader>>

Init ==
  /\ epoch = 0
  /\ present = TRUE
  /\ member = TRUE
  /\ cache = [b \in Bots |-> None]
  /\ sweeper = None
  /\ reader = [r \in Readers |-> NoCall]

CallStep(r) ==
  cacheGet(r) \/ cacheEvict(r) \/ fetchLocation(r) \/ cacheSet(r) \/ fetchRange(r) \/ forget(r)

Environment == ttlPasses \/ referencesExpire \/ messageDeleted \/ accessLost

Next ==
  \/ \E r \in Readers : DownloadRange(r) \/ CallStep(r) \/ Answered(r)
  \/ sweepLoad \/ sweepDelete
  \/ Environment

Spec == Init /\ [][Next]_vars

----------------------------------------------------------------------------
(* Properties                                                              *)

\* An entry whose TTL has not passed is removed only by a reader whose reference
\* was refused: neither the lazy eviction of Get nor the sweeper, which decide
\* on an entry they loaded before, take away one that a concurrent Set has put
\* in its place (cache.go:60-62).
FreshNotEvicted ==
  [][\A b \in Bots :
       cache[b] # None /\ cache'[b] = None =>
         \/ cache[b].expired
         \/ \E r \in Readers : reader[r].pc = "forget" /\ reader[r].bot = b]_vars

\* DownloadRange fails only after every bot of the pool has failed, also when
\* the row's bot index is beyond the pool, and gives up early only when the
\* channel is not accessible (download.go:35-40, 65-67).  No bot is asked again
\* after it has failed, so the fallback takes one attempt per bot.
AllBotsTried ==
  \A r \in Readers :
    IF reader[r].pc = "done"
      THEN /\ reader[r].result = "failed" => reader[r].tried = Bots
           /\ reader[r].result = "denied" => ~member
      ELSE reader[r].pc # "idle" => reader[r].bot \notin reader[r].tried
=============================================================================
