------------------------ MODULE ChunkDownloadProofs ------------------------
(***************************************************************************)
(* Proofs about ChunkDownload, for every pool, every number of readers and *)
(* every sequence of expiries, deletions and failed calls.                 *)
(*                                                                         *)
(* The argument for the fallback: the bots that have failed, with the one  *)
(* being tried, are the primary and those before the loop's index, so the  *)
(* loop ends with the whole pool.  For the cache: whoever is about to      *)
(* remove an entry by comparison has loaded an expired one.                *)
(***************************************************************************)
EXTENDS ChunkDownload, TLAPS

----------------------------------------------------------------------------
(* The inductive invariant                                                 *)

\* A call that is under way.
Running(c) == c.pc \notin {"idle", "done"}

\* The bots tried and the one being tried are the primary and those the loop of
\* the fallback has passed.
InOrder(c) ==
  Running(c) => /\ c.bot \notin c.tried
                /\ c.tried \cup {c.bot} = {c.primary} \cup {i \in Bots : i < c.next}

\* What a call that has returned says.
Answer(c) ==
  c.pc = "done" => /\ c.result = "failed" => c.tried = Bots
                   /\ c.result = "denied" => ~member

\* An entry loaded for eviction is an expired one.
SeenExpired(c) == c.pc = "evict" => c.seen \in Entries /\ c.seen.expired

CallInv(c) == InOrder(c) /\ Answer(c) /\ SeenExpired(c)

SweeperInv == sweeper # None => sweeper.seen \in Entries /\ sweeper.seen.expired

Inv == TypeOK /\ SweeperInv /\ \A r \in Readers : CallInv(reader[r])

\* The action of FreshNotEvicted.
FreshStays ==
  \A b \in Bots :
    cache[b] # None /\ cache'[b] = None =>
      \/ cache[b].expired
      \/ \E r \in Readers : reader[r].pc = "forget" /\ reader[r].bot = b

----------------------------------------------------------------------------
(* What a step of a call does                                              *)

\* Reader r's call goes on as c, the server and the sweeper are left alone.
Becomes(r, c) ==
  /\ c \in Calls
  /\ CallInv(c)
  /\ reader' = [reader EXCEPT ![r] = c]
  /\ UNCHANGED <<server, sweeper>>

\* The cache stays well-formed and keeps its fresh entries.
CacheOK == cache' \in [Bots -> Entries \cup {None}] /\ FreshStays

CallEffect(r) == CacheOK /\ \E c : Becomes(r, c)

\* A call that does not touch the cache.
LEMMA CacheKept ==
  ASSUME TypeOK, UNCHANGED cache
  PROVE  CacheOK
BY DEF TypeOK, CacheOK, FreshStays

\* No call is a well-formed call.
LEMMA NoCallType == NoCall \in Calls /\ CallInv(NoCall)
<1>1. 0 \in Bots /\ 0 \in Epochs
  BY DownloadAssumption DEF Bots, Epochs
<1>2. NoCall \in Calls
  BY <1>1 DEF NoCall, Calls, Positions
<1>3. NoCall.pc = "idle"
  BY DEF NoCall
<1> QED BY <1>2, <1>3 DEF CallInv, InOrder, Answer, SeenExpired, Running

\* A call that returns res.
LEMMA ReturnEffect ==
  ASSUME Inv, NEW r \in Readers, NEW res \in {"ok", "failed", "denied"},
         NEW failed \in SUBSET Bots, ReturnAfter(r, res, failed),
         res = "failed" => failed = Bots, res = "denied" => ~member,
         UNCHANGED <<server, cache, sweeper>>
  PROVE  CallEffect(r)
<1> DEFINE c == [NoCall EXCEPT !.pc = "done", !.result = res, !.tried = failed]
<1>1. c \in Calls /\ c.pc = "done" /\ c.result = res /\ c.tried = failed
  BY NoCallType DEF Calls, Positions
<1>2. reader' = [reader EXCEPT ![r] = c]
  BY DEF ReturnAfter
<1> HIDE DEF c
<1>3. CallInv(c)
  BY <1>1 DEF CallInv, InOrder, Answer, SeenExpired, Running
<1>4. CacheOK
  BY CacheKept DEF Inv
<1> QED BY <1>1, <1>2, <1>3, <1>4 DEF CallEffect, Becomes

\* The fallback after a failed bot: the next one, or the answer when there is
\* none left.
LEMMA BotFailsEffect ==
  ASSUME Inv, NEW r \in Readers, Running(reader[r]), BotFails(r),
         UNCHANGED <<server, cache, sweeper>>
  PROVE  CallEffect(r)
<1> DEFINE c == reader[r]
           failed == c.tried \cup {c.bot}
           rest == {i \in Bots : c.next <= i /\ i # c.primary}
<1>1. c \in Calls /\ InOrder(c)
  BY DEF Inv, TypeOK, CallInv
<1>2. /\ c.bot \in Bots /\ c.primary \in Bots /\ c.next \in Nat /\ c.tried \subseteq Bots
      /\ failed \subseteq Bots
  BY <1>1 DEF Calls
<1>3. failed = {c.primary} \cup {i \in Bots : i < c.next}
  BY <1>1 DEF InOrder
<1>4. \A i \in Bots : i \in Int
  BY DownloadAssumption DEF Bots
<1>5. CASE rest = {}
  <2>1. ReturnAfter(r, "failed", failed)
    BY <1>5 DEF BotFails, Fallback
  <2>2. failed = Bots
    BY <1>2, <1>3, <1>4, <1>5
  <2> QED BY <1>2, <2>1, <2>2, ReturnEffect
<1>6. CASE rest # {}
  <2>1. PICK b \in rest : (\A i \in rest : b <= i) /\ TryBot(r, b, b + 1)
    BY <1>6 DEF BotFails, Fallback
  <2> DEFINE d == [c EXCEPT !.pc = "get", !.bot = b, !.next = b + 1, !.loc = 0,
                            !.retried = FALSE, !.tried = failed]
  <2>2. b \in Bots /\ c.next <= b /\ b # c.primary /\ b \in Nat /\ b + 1 \in Nat
    BY <2>1, DownloadAssumption DEF Bots
  <2>3. reader' = [reader EXCEPT ![r] = d]
    BY <1>1, <2>1 DEF TryBot, Calls
  <2>4. 0 \in Epochs
    BY DownloadAssumption DEF Epochs
  <2> HIDE DEF failed
  <2>5. /\ d \in Calls /\ d.pc = "get" /\ d.bot = b /\ d.next = b + 1
        /\ d.tried = failed /\ d.primary = c.primary
    BY <1>1, <1>2, <2>2, <2>4 DEF Calls, Positions
  <2> HIDE DEF d
  <2>6. b \notin failed
    BY <1>2, <1>3, <2>2
  <2>7. failed \cup {b} = {c.primary} \cup {i \in Bots : i < b + 1}
    <3>1. ASSUME NEW i \in Bots
          PROVE  (i < c.next \/ i = b \/ i = c.primary) <=> (i = c.primary \/ i < b + 1)
      <4>1. c.next <= i /\ i # c.primary => b <= i
        BY <2>1
      <4>2. i \in Int
        BY <1>4
      <4>3. b \in Int /\ c.next \in Int
        BY <1>2, <2>2
      <4> QED BY <2>2, <4>1, <4>2, <4>3
    <3> QED BY <1>2, <1>3, <2>2, <3>1
  <2>8. CallInv(d)
    BY <2>5, <2>6, <2>7 DEF CallInv, InOrder, Answer, SeenExpired, Running
  <2>9. CacheOK
    BY CacheKept DEF Inv
  <2> QED BY <2>3, <2>5, <2>8, <2>9 DEF CallEffect, Becomes
<1> QED BY <1>5, <1>6

\* The steps of a call.
LEMMA CallStepEffect ==
  ASSUME Inv, NEW r \in Readers, DownloadRange(r) \/ CallStep(r) \/ Answered(r)
  PROVE  CallEffect(r)
<1> DEFINE c == reader[r]
<1>1. /\ c \in Calls /\ CallInv(c) /\ TypeOK
      /\ c.bot \in Bots /\ c.tried \subseteq Bots /\ c.primary \in Bots
  BY DEF Inv, TypeOK, Calls
<1>2. ASSUME UNCHANGED cache PROVE CacheOK
  BY <1>1, <1>2, CacheKept
<1>3. CASE DownloadRange(r)
  <2>1. PICK b \in Bots :
           reader' = [reader EXCEPT ![r] = [NoCall EXCEPT !.pc = "get", !.primary = b, !.bot = b]]
    BY <1>3 DEF DownloadRange
  <2> DEFINE d == [NoCall EXCEPT !.pc = "get", !.primary = b, !.bot = b]
  <2>2. /\ d \in Calls /\ d.pc = "get" /\ d.bot = b /\ d.primary = b /\ d.next = 0
        /\ d.tried = {}
    BY NoCallType DEF Calls, Positions, NoCall
  <2> HIDE DEF d
  <2>3. {i \in Bots : i < 0} = {}
    BY DownloadAssumption DEF Bots
  <2>4. CallInv(d)
    BY <2>2, <2>3 DEF CallInv, InOrder, Answer, SeenExpired, Running
  <2> QED BY <1>2, <1>3, <2>1, <2>2, <2>4 DEF d, CallEffect, Becomes, DownloadRange
<1>4. CASE cacheGet(r)
  <2> DEFINE e == cache[c.bot]
             d == IF e = None THEN [c EXCEPT !.pc = "resolve"]
                  ELSE IF e.expired THEN [c EXCEPT !.pc = "evict", !.seen = e]
                  ELSE [c EXCEPT !.pc = "fetch", !.loc = e.loc]
  <2>1. c.pc = "get" /\ reader' = [reader EXCEPT ![r] = d]
    BY <1>4 DEF cacheGet
  <2>2. e \in Entries \cup {None}
    BY <1>1 DEF TypeOK
  <2> HIDE DEF e
  <2>3. e # None => e \in Entries /\ e.loc \in Epochs /\ e.expired \in BOOLEAN
    BY <2>2 DEF Entries
  <2>4. /\ d \in Calls /\ d.pc \in {"resolve", "evict", "fetch"}
        /\ d.bot = c.bot /\ d.next = c.next /\ d.tried = c.tried /\ d.primary = c.primary
        /\ d.pc = "evict" => d.seen = e /\ e # None /\ e.expired
    BY <1>1, <2>2, <2>3 DEF Calls, Positions
  <2> HIDE DEF d
  <2>5. CallInv(d)
    BY <1>1, <2>1, <2>3, <2>4 DEF CallInv, InOrder, Answer, SeenExpired, Running
  <2> QED BY <1>2, <1>4, <2>1, <2>4, <2>5 DEF CallEffect, Becomes, cacheGet
<1>5. CASE cacheEvict(r)
  <2> DEFINE d == [c EXCEPT !.pc = "resolve", !.seen = None]
  <2>1. c.pc = "evict" /\ reader' = [reader EXCEPT ![r] = d]
    BY <1>5 DEF cacheEvict
  <2>2. /\ d \in Calls /\ d.pc = "resolve"
        /\ d.bot = c.bot /\ d.next = c.next /\ d.tried = c.tried /\ d.primary = c.primary
    BY <1>1 DEF Calls, Positions
  <2> HIDE DEF d
  <2>3. CallInv(d)
    BY <1>1, <2>1, <2>2 DEF CallInv, InOrder, Answer, SeenExpired, Running
  <2>4. c.seen.expired
    BY <1>1, <2>1 DEF CallInv, SeenExpired
  <2>5. cache' \in [Bots -> Entries \cup {None}]
    BY <1>1, <1>5 DEF cacheEvict, TypeOK
  <2>6. FreshStays
    BY <1>1, <1>5, <2>4 DEF cacheEvict, TypeOK, FreshStays
  <2> QED BY <1>5, <2>1, <2>2, <2>3, <2>5, <2>6 DEF CallEffect, Becomes, CacheOK, cacheEvict
<1>6. CASE fetchLocation(r)
  <2>1. c.pc = "resolve" /\ UNCHANGED <<server, cache, sweeper>> /\ Running(c)
    BY <1>6 DEF fetchLocation, Running
  <2>2. CASE reader' = [reader EXCEPT ![r] = [@ EXCEPT !.pc = "set", !.loc = epoch]]
    <3> DEFINE d == [c EXCEPT !.pc = "set", !.loc = epoch]
    <3>1. /\ d \in Calls /\ d.pc = "set"
          /\ d.bot = c.bot /\ d.next = c.next /\ d.tried = c.tried /\ d.primary = c.primary
      BY <1>1 DEF Calls, Positions, TypeOK
    <3>2. reader' = [reader EXCEPT ![r] = d]
      BY <2>2
    <3> HIDE DEF d
    <3>3. CallInv(d)
      BY <1>1, <2>1, <3>1 DEF CallInv, InOrder, Answer, SeenExpired, Running
    <3> QED BY <1>2, <2>1, <3>1, <3>2, <3>3 DEF CallEffect, Becomes
  <2>3. CASE ~member /\ Return(r, "denied")
    BY <1>1, <2>1, <2>3, ReturnEffect DEF Return
  <2>4. CASE BotFails(r)
    BY <2>1, <2>4, BotFailsEffect
  <2> QED BY <1>6, <2>2, <2>3, <2>4 DEF fetchLocation
<1>7. CASE cacheSet(r)
  <2> DEFINE d == [c EXCEPT !.pc = "fetch"]
             e == [loc |-> c.loc, expired |-> FALSE]
  <2>1. c.pc = "set" /\ reader' = [reader EXCEPT ![r] = d] /\ cache' = [cache EXCEPT ![c.bot] = e]
    BY <1>7 DEF cacheSet
  <2>2. /\ d \in Calls /\ d.pc = "fetch"
        /\ d.bot = c.bot /\ d.next = c.next /\ d.tried = c.tried /\ d.primary = c.primary
    BY <1>1 DEF Calls, Positions
  <2>3. e \in Entries
    BY <1>1 DEF Calls, Entries
  <2> HIDE DEF d, e
  <2>4. CallInv(d)
    BY <1>1, <2>1, <2>2 DEF CallInv, InOrder, Answer, SeenExpired, Running
  <2>5. CacheOK
    BY <1>1, <2>1, <2>3, NoneAssumption DEF CacheOK, FreshStays, TypeOK
  <2> QED BY <1>7, <2>1, <2>2, <2>4, <2>5 DEF CallEffect, Becomes, cacheSet
<1>8. CASE fetchRange(r)
  <2>1. c.pc = "fetch" /\ UNCHANGED <<server, cache, sweeper>> /\ Running(c)
    BY <1>8 DEF fetchRange, Running
  <2>2. CASE Return(r, "ok")
    BY <1>1, <2>1, <2>2, ReturnEffect DEF Return
  <2>3. CASE ~member /\ Return(r, "denied")
    BY <1>1, <2>1, <2>3, ReturnEffect DEF Return
  <2>4. CASE BotFails(r)
    BY <2>1, <2>4, BotFailsEffect
  <2>5. CASE reader' = [reader EXCEPT ![r] = [@ EXCEPT !.pc = "forget", !.loc = 0]]
    <3> DEFINE d == [c EXCEPT !.pc = "forget", !.loc = 0]
    <3>1. 0 \in Epochs
      BY DownloadAssumption DEF Epochs
    <3>2. /\ d \in Calls /\ d.pc = "forget"
          /\ d.bot = c.bot /\ d.next = c.next /\ d.tried = c.tried /\ d.primary = c.primary
      BY <1>1, <3>1 DEF Calls, Positions
    <3>3. reader' = [reader EXCEPT ![r] = d]
      BY <2>5
    <3> HIDE DEF d
    <3>4. CallInv(d)
      BY <1>1, <2>1, <3>2 DEF CallInv, InOrder, Answer, SeenExpired, Running
    <3> QED BY <1>2, <2>1, <3>2, <3>3, <3>4 DEF CallEffect, Becomes
  <2> QED BY <1>8, <2>2, <2>3, <2>4, <2>5 DEF fetchRange
<1>9. CASE forget(r)
  <2> DEFINE d == [c EXCEPT !.pc = "get", !.retried = TRUE]
  <2>1. c.pc = "forget" /\ reader' = [reader EXCEPT ![r] = d]
        /\ cache' = [cache EXCEPT ![c.bot] = None]
    BY <1>9 DEF forget
  <2>2. /\ d \in Calls /\ d.pc = "get"
        /\ d.bot = c.bot /\ d.next = c.next /\ d.tried = c.tried /\ d.primary = c.primary
    BY <1>1 DEF Calls, Positions
  <2> HIDE DEF d
  <2>3. CallInv(d)
    BY <1>1, <2>1, <2>2 DEF CallInv, InOrder, Answer, SeenExpired, Running
  <2>4. CacheOK
    BY <1>1, <2>1 DEF CacheOK, FreshStays, TypeOK
  <2> QED BY <1>9, <2>1, <2>2, <2>3, <2>4 DEF CallEffect, Becomes, forget
<1>10. CASE Answered(r)
  BY <1>2, <1>10, NoCallType DEF Answered, CallEffect, Becomes
<1> QED BY <1>3, <1>4, <1>5, <1>6, <1>7, <1>8, <1>9, <1>10 DEF CallStep

----------------------------------------------------------------------------
(* The invariant                                                           *)

\* The invariant holds at the beginning: an empty cache and no calls.
LEMMA InvInit == Init => Inv
<1> SUFFICES ASSUME Init PROVE Inv
  OBVIOUS
<1>1. 0 \in Epochs
  BY DownloadAssumption DEF Epochs
<1>2. TypeOK
  BY <1>1, NoCallType DEF Init, TypeOK
<1> QED BY <1>2, NoCallType DEF Init, Inv, SweeperInv

\* The steps of the cache's sweeper, of time and of Telegram: no call changes,
\* and access that is lost stays lost.
LEMMA OthersEffect ==
  ASSUME Inv, sweepLoad \/ sweepDelete \/ Environment
  PROVE  Inv' /\ FreshStays
<1>1. TypeOK /\ SweeperInv
  BY DEF Inv
<1>2. UNCHANGED reader /\ (~member => ~member')
  BY DEF sweepLoad, sweepDelete, Environment, ttlPasses, referencesExpire, messageDeleted,
         accessLost, server
<1>3. \A r \in Readers : CallInv(reader[r])'
  BY <1>2 DEF Inv, CallInv, InOrder, Answer, SeenExpired, Running
<1>4. CASE sweepLoad
  <2>1. PICK b \in Bots : cache[b] # None /\ cache[b].expired
                          /\ sweeper' = [bot |-> b, seen |-> cache[b]]
    BY <1>4 DEF sweepLoad
  <2>2. cache[b] \in Entries
    BY <1>1, <2>1 DEF TypeOK
  <2>3. SweeperInv' /\ sweeper' \in [bot : Bots, seen : Entries]
    BY <2>1, <2>2 DEF SweeperInv
  <2>4. TypeOK' /\ FreshStays
    BY <1>1, <1>4, <2>3 DEF TypeOK, FreshStays, sweepLoad, server
  <2> QED BY <1>3, <2>3, <2>4 DEF Inv
<1>5. CASE sweepDelete
  <2>1. SweeperInv' /\ sweeper.seen.expired /\ sweeper \in [bot : Bots, seen : Entries]
    BY <1>1, <1>5 DEF SweeperInv, TypeOK, sweepDelete
  <2>2. TypeOK' /\ FreshStays
    BY <1>1, <1>5, <2>1 DEF TypeOK, FreshStays, sweepDelete, server
  <2> QED BY <1>3, <2>1, <2>2 DEF Inv
<1>6. CASE ttlPasses
  <2>1. PICK b \in Bots : cache[b] # None /\ cache' = [cache EXCEPT ![b].expired = TRUE]
    BY <1>6 DEF ttlPasses
  <2>2. cache[b] \in Entries
    BY <1>1, <2>1 DEF TypeOK
  <2> DEFINE e == [cache[b] EXCEPT !.expired = TRUE]
  <2>3. e \in Entries /\ cache' = [cache EXCEPT ![b] = e]
    BY <2>1, <2>2 DEF Entries
  <2> HIDE DEF e
  <2>4. TypeOK' /\ FreshStays
    BY <1>1, <1>6, <2>3, NoneAssumption DEF TypeOK, FreshStays, ttlPasses, server
  <2>5. SweeperInv'
    BY <1>1, <1>6 DEF SweeperInv, ttlPasses
  <2> QED BY <1>3, <2>4, <2>5 DEF Inv
<1>7. CASE referencesExpire \/ messageDeleted \/ accessLost
  <2>1. SweeperInv' /\ FreshStays
    BY <1>1, <1>7 DEF SweeperInv, FreshStays, referencesExpire, messageDeleted, accessLost
  <2>2. epoch' \in Epochs
    BY <1>1, <1>7, DownloadAssumption
    DEF TypeOK, Epochs, referencesExpire, messageDeleted, accessLost
  <2>3. TypeOK'
    BY <1>1, <1>7, <2>2 DEF TypeOK, referencesExpire, messageDeleted, accessLost
  <2> QED BY <1>3, <2>1, <2>3 DEF Inv
<1> QED BY <1>4, <1>5, <1>6, <1>7 DEF Environment

\* The invariant is inductive, and every step keeps the fresh entries.
LEMMA InvStep ==
  ASSUME Inv, [Next]_vars
  PROVE  Inv' /\ [FreshStays]_vars
<1>1. ASSUME NEW r \in Readers, DownloadRange(r) \/ CallStep(r) \/ Answered(r)
      PROVE  Inv' /\ FreshStays
  <2>1. PICK c : Becomes(r, c)
    BY <1>1, CallStepEffect DEF CallEffect
  <2>2. CacheOK
    BY <1>1, CallStepEffect DEF CallEffect
  <2>3. TypeOK /\ SweeperInv
    BY DEF Inv
  <2>4. TypeOK' /\ SweeperInv'
    BY <2>1, <2>2, <2>3 DEF TypeOK, SweeperInv, Becomes, CacheOK, server
  <2>5. ASSUME NEW v \in Readers PROVE CallInv(reader[v])'
    <3>1. CallInv(reader'[v])
      BY <2>1, <2>3 DEF Becomes, TypeOK, Inv
    <3>2. member' = member
      BY <2>1 DEF Becomes, server
    <3> QED BY <3>1, <3>2 DEF CallInv, InOrder, Answer, SeenExpired, Running
  <2> QED BY <2>2, <2>4, <2>5 DEF Inv, CacheOK
<1>2. CASE UNCHANGED vars
  BY <1>2 DEF vars, Inv, TypeOK, SweeperInv, CallInv, InOrder, Answer, SeenExpired, Running
<1> QED BY <1>1, <1>2, OthersEffect DEF Next

----------------------------------------------------------------------------
(* The theorems                                                            *)

\* The calls, the cache and its sweeper keep their types: in particular the bot
\* of a call is a bot of the pool, also when the chunk row names one beyond it.
THEOREM DownloadTypeCorrect == Spec => []TypeOK
<1>1. Inv => TypeOK
  BY DEF Inv
<1> QED BY <1>1, InvInit, InvStep, PTL DEF Spec

\* DownloadRange reports failure only when every bot of the pool has failed, asks
\* none again that has failed, and gives up early only without access to the
\* channel, for every pool size and whatever expires or fails.
THEOREM EveryBotIsTried == Spec => []AllBotsTried
<1>1. Inv => AllBotsTried
  BY DEF Inv, CallInv, InOrder, Answer, Running, AllBotsTried
<1> QED BY <1>1, InvInit, InvStep, PTL DEF Spec

\* No entry whose TTL has not passed is lost to the lazy eviction or to the
\* sweeper, however they interleave with the writers of the cache.
THEOREM FreshEntriesStay == Spec => FreshNotEvicted
<1>1. Inv /\ [Next]_vars => [FreshStays]_vars
  BY InvStep
<1>2. Inv /\ [Next]_vars => Inv'
  BY InvStep
<1> QED BY <1>1, <1>2, InvInit, PTL DEF Spec, FreshNotEvicted, FreshStays
=============================================================================
