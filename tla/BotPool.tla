------------------------------ MODULE BotPool ------------------------------
(***************************************************************************)
(* The life of the MTProto bots: StartBot, its run goroutine, Close and    *)
(* the Pool of client.go, the lazily opened session pool of                *)
(* session_pool.go, the middlewares of retry.go and recovery.go around     *)
(* every RPC, and main, which starts the bots in parallel, serves, drains  *)
(* and closes (main.go).                                                   *)
(*                                                                         *)
(* gotd's client, floodwait and ratelimit are external.  An RPC through a  *)
(* client that has ended fails with a transport error.                     *)
(***************************************************************************)
EXTENDS Integers, FiniteSets

CONSTANTS
  PoolSize,      \* the number of bots
  Requests,      \* HTTP requests in flight, each making RPCs one after the other
  HasDeadline,   \* TRUE: the context StartBot is called with may be done
  RetryMax,      \* retryMaxAttempts: 5
  MaxRounds,     \* bound: recovery rounds that fit into retryRecoveryTimeout
  MaxFloods      \* bound: flood waits floodwait sits out for one RPC

ASSUME PoolAssumption ==
  /\ {PoolSize, RetryMax} \subseteq Nat \ {0}
  /\ {MaxRounds, MaxFloods} \subseteq Nat
  /\ HasDeadline \in BOOLEAN

Bots == 0..PoolSize - 1

VARIABLES
  main,     \* "boot", "unwind", "failed", "serving", "drain", "closing", "down"
  expired,  \* server.Shutdown has given up on requests
  start,    \* the StartBot calls
  run,      \* the run goroutines; "exited": done is closed
  err,      \* what client.Run returned, until the goroutine ends
  ready,    \* the ready channel of StartBot, capacity 1
  once,     \* readyOnce has fired
  runDone,  \* runCtx is cancelled
  closing,  \* the Close call of a bot
  sess,     \* the session pool of a bot
  call      \* the RPC of each request

vars == <<main, expired, start, run, err, ready, once, runDone, closing, sess, call>>

botVars == <<start, run, err, ready, once, runDone, closing>>

\* No session pool; the fields invoke and close of one.
NoSessions == [built |-> FALSE, invoke |-> FALSE, close |-> FALSE]

\* No RPC.  tries counts the attempts of a retry loop, rounds the retries of the
\* recovery, floods the flood waits; late is history: the recovery rounds begun
\* after the bot was closed.
NoCall == [pc |-> "idle", bot |-> 0, tries |-> 0, rounds |-> 0, floods |-> 0, late |-> 0]

TypeOK ==
  /\ main \in {"boot", "unwind", "failed", "serving", "drain", "closing", "down"}
  /\ expired \in BOOLEAN
  /\ start \in [Bots -> {"wait", "closing", "ok", "failed"}]
  /\ run \in [Bots -> {"delay", "auth", "resolve", "up", "ended", "exited"}]
  /\ err \in [Bots -> {"none", "error", "canceled"}]
  /\ ready \in [Bots -> {"empty", "ok", "error", "canceled"}]
  /\ {once, runDone} \subseteq [Bots -> BOOLEAN]
  /\ closing \in [Bots -> {"no", "sessions", "cancel", "join", "closed"}]
  /\ sess \in [Bots -> [built : BOOLEAN, invoke : BOOLEAN, close : BOOLEAN]]
  /\ call \in [Requests -> [pc : {"idle", "session", "attempt", "backoff", "flood", "between"},
                           bot : Bots, tries : 0..RetryMax - 1, rounds : 0..MaxRounds,
                           floods : 0..MaxFloods, late : Nat]]

Init ==
  /\ main = "boot"
  /\ expired = FALSE
  /\ start = [b \in Bots |-> "wait"]
  /\ run = [b \in Bots |-> IF b = 0 THEN "auth" ELSE "delay"]  \* AuthDelay is index * 200ms
  /\ err = [b \in Bots |-> "none"]
  /\ ready = [b \in Bots |-> "empty"]
  /\ once = [b \in Bots |-> FALSE]
  /\ runDone = [b \in Bots |-> FALSE]
  /\ closing = [b \in Bots |-> "no"]
  /\ sess = [b \in Bots |-> NoSessions]
  /\ call = [c \in Requests |-> NoCall]

----------------------------------------------------------------------------
(* The run goroutine                                                       *)

\* An unbuffered ready channel: the sender waits for StartBot to receive.
publish_unbuffered(b, v) ==
  IF once[b]
    THEN UNCHANGED <<ready, once>>
    ELSE /\ start[b] = "wait"
         /\ ready' = [ready EXCEPT ![b] = v]
         /\ once' = [once EXCEPT ![b] = TRUE]

\* readyOnce.Do(func() { ready <- v })
publish(b, v) ==
  IF once[b]
    THEN UNCHANGED <<ready, once>>
    ELSE /\ ready' = [ready EXCEPT ![b] = v]
         /\ once' = [once EXCEPT ![b] = TRUE]

\* The stagger before the first authorization, which cancellation cuts short.
authDelay(b) ==
  /\ run[b] = "delay"
  /\ \/ /\ run' = [run EXCEPT ![b] = "auth"]
        /\ UNCHANGED <<ready, once>>
     \/ /\ runDone[b]
        /\ publish(b, "canceled")
        /\ run' = [run EXCEPT ![b] = "exited"]
  /\ UNCHANGED <<main, expired, start, err, runDone, closing, sess, call>>

\* client.Run returns.
EndRun(b, e) ==
  /\ run' = [run EXCEPT ![b] = "ended"]
  /\ err' = [err EXCEPT ![b] = e]

\* Auth().Bot succeeds, fails, or is cancelled.
auth(b) ==
  /\ run[b] = "auth"
  /\ \/ run' = [run EXCEPT ![b] = "resolve"] /\ UNCHANGED err
     \/ EndRun(b, IF runDone[b] THEN "canceled" ELSE "error")
  /\ UNCHANGED <<main, expired, start, ready, once, runDone, closing, sess, call>>

\* resolveChannel; on success the session pool is registered, nothing is opened
\* yet, and StartBot is told.
resolveChannel(b) ==
  /\ run[b] = "resolve"
  /\ \/ /\ run' = [run EXCEPT ![b] = "up"]
        /\ sess' = [sess EXCEPT ![b].built = TRUE]
        /\ publish(b, "ok")
        /\ UNCHANGED err
     \/ /\ EndRun(b, IF runDone[b] THEN "canceled" ELSE "error")
        /\ UNCHANGED <<sess, ready, once>>
  /\ UNCHANGED <<main, expired, start, runDone, closing, call>>

\* <-ctx.Done() of a bot that is up.
runCanceled(b) ==
  /\ run[b] = "up"
  /\ runDone[b]
  /\ EndRun(b, "canceled")
  /\ UNCHANGED <<main, expired, start, ready, once, runDone, closing, sess, call>>

\* The client of a bot that is up gives up its connection.
connectionLost(b) ==
  /\ run[b] = "up"
  /\ EndRun(b, "error")
  /\ UNCHANGED <<main, expired, start, ready, once, runDone, closing, sess, call>>

\* The end of the goroutine, which tells StartBot if nobody has.  (runErr, which
\* it stores, has no reader.)
runExit(b) ==
  /\ run[b] = "ended"
  /\ publish(b, err[b])
  /\ run' = [run EXCEPT ![b] = "exited"]
  /\ err' = [err EXCEPT ![b] = "none"]
  /\ UNCHANGED <<main, expired, start, runDone, closing, sess, call>>

----------------------------------------------------------------------------
(* Close                                                                   *)

\* Close up to the session pool, which is released if it was opened.
closeSessions(b) ==
  /\ closing[b] = "sessions"
  /\ closing' = [closing EXCEPT ![b] = "cancel"]
  /\ sess' = [sess EXCEPT ![b].close = FALSE]
  /\ UNCHANGED <<main, expired, start, run, err, ready, once, runDone, call>>

\* A Close that waits for the goroutine before it cancels.
closeCancel_joinFirst(b) ==
  /\ closing[b] = "cancel"
  /\ run[b] = "exited"
  /\ closing' = [closing EXCEPT ![b] = "join"]
  /\ runDone' = [runDone EXCEPT ![b] = TRUE]
  /\ UNCHANGED <<main, expired, start, run, err, ready, once, sess, call>>

closeCancel(b) ==
  /\ closing[b] = "cancel"
  /\ closing' = [closing EXCEPT ![b] = "join"]
  /\ runDone' = [runDone EXCEPT ![b] = TRUE]
  /\ UNCHANGED <<main, expired, start, run, err, ready, once, sess, call>>

\* <-b.done
closeJoin(b) ==
  /\ closing[b] = "join"
  /\ run[b] = "exited"
  /\ closing' = [closing EXCEPT ![b] = "closed"]
  /\ UNCHANGED <<main, expired, start, run, err, ready, once, runDone, sess, call>>

----------------------------------------------------------------------------
(* StartBot                                                                *)

\* StartBot gives up: it closes the bot.
Abandon(b) ==
  /\ start' = [start EXCEPT ![b] = "closing"]
  /\ closing' = [closing EXCEPT ![b] = "sessions"]

receiveReady(b) ==
  /\ start[b] = "wait"
  /\ ready[b] # "empty"
  /\ ready' = [ready EXCEPT ![b] = "empty"]
  /\ IF ready[b] = "ok"
       THEN start' = [start EXCEPT ![b] = "ok"] /\ UNCHANGED closing
       ELSE Abandon(b)
  /\ UNCHANGED <<main, expired, run, err, once, runDone, sess, call>>

\* The caller's context is done first.
startDeadline(b) ==
  /\ HasDeadline
  /\ start[b] = "wait"
  /\ Abandon(b)
  /\ UNCHANGED <<main, expired, run, err, ready, once, runDone, sess, call>>

startFailed(b) ==
  /\ start[b] = "closing"
  /\ closing[b] = "closed"
  /\ start' = [start EXCEPT ![b] = "failed"]
  /\ UNCHANGED <<main, expired, run, err, ready, once, runDone, closing, sess, call>>

----------------------------------------------------------------------------
(* main                                                                    *)

Started == {b \in Bots : start[b] = "ok"}

\* wg.Wait of startMTProtoPool: every StartBot has returned.
bootDone ==
  /\ main = "boot"
  /\ \A b \in Bots : start[b] \in {"ok", "failed"}
  /\ main' = IF Started = Bots THEN "serving" ELSE "unwind"
  /\ UNCHANGED <<expired, botVars, sess, call>>

\* The bots to close when one has failed: only those before it.
ToClose_before == {b \in Started : \A i \in Bots : i <= b => i \in Started}

\* The bots to close when one has failed.
ToClose == Started

\* They are closed one after the other.
unwindNext ==
  /\ main = "unwind"
  /\ \A b \in ToClose : closing[b] \in {"no", "closed"}
  /\ \E b \in ToClose :
       /\ closing[b] = "no"
       /\ \A i \in ToClose : i < b => closing[i] = "closed"
       /\ closing' = [closing EXCEPT ![b] = "sessions"]
  /\ UNCHANGED <<main, expired, start, run, err, ready, once, runDone, sess, call>>

\* os.Exit(1)
bootFailed ==
  /\ main = "unwind"
  /\ \A b \in ToClose : closing[b] = "closed"
  /\ main' = "failed"
  /\ UNCHANGED <<expired, botVars, sess, call>>

\* SIGINT or SIGTERM: the janitor is cancelled, the server shuts down.
stopSignal ==
  /\ main = "serving"
  /\ main' = "drain"
  /\ UNCHANGED <<expired, botVars, sess, call>>

\* Pool.Close: every bot at once.
PoolClose ==
  /\ main' = "closing"
  /\ closing' = [b \in Bots |-> "sessions"]

\* A shutdown that closes the pool under running requests.
drained_noWait ==
  /\ main = "drain"
  /\ PoolClose
  /\ UNCHANGED <<expired, start, run, err, ready, once, runDone, sess, call>>

\* server.Shutdown returns when no request is in flight.
drained ==
  /\ main = "drain"
  /\ \A c \in Requests : call[c].pc = "idle"
  /\ PoolClose
  /\ UNCHANGED <<expired, start, run, err, ready, once, runDone, sess, call>>

\* Its context of 15 seconds is done first.
graceOver ==
  /\ main = "drain"
  /\ expired' = TRUE
  /\ PoolClose
  /\ UNCHANGED <<start, run, err, ready, once, runDone, sess, call>>

\* main returns.
down ==
  /\ main = "closing"
  /\ \A b \in Bots : closing[b] = "closed"
  /\ main' = "down"
  /\ UNCHANGED <<expired, botVars, sess, call>>

----------------------------------------------------------------------------
(* RPCs                                                                    *)

Alive == main \in {"serving", "drain", "closing"}

CallIs(c, r) == call' = [call EXCEPT ![c] = r]

\* A request arrives.
arrive(c) ==
  /\ main = "serving"
  /\ call[c].pc = "idle"
  /\ CallIs(c, [NoCall EXCEPT !.pc = "between"])
  /\ UNCHANGED <<main, expired, botVars, sess>>

\* Pool.Pick or Pool.At: the counters and the rows may name any bot.  Streams and
\* uploads go through bot.Session, deletes through bot.API.
Pick(c) ==
  /\ Alive
  /\ call[c].pc = "between"
  /\ \E b \in Bots, at \in {"session", "attempt"} :
       CallIs(c, [NoCall EXCEPT !.pc = at, !.bot = b])
  /\ UNCHANGED <<main, expired, botVars, sess>>

\* The caller has made its RPCs.
leave(c) ==
  /\ Alive
  /\ call[c].pc = "between"
  /\ CallIs(c, NoCall)
  /\ UNCHANGED <<main, expired, botVars, sess>>

\* sessionPool.invoker, under its lock: the pool is opened by the first call; if
\* that fails the call goes through the bare client.
invoker(c) ==
  LET b == call[c].bot IN
    /\ Alive
    /\ call[c].pc = "session"
    /\ CallIs(c, [call[c] EXCEPT !.pc = "attempt"])
    /\ \/ ~sess[b].invoke /\ sess' = [sess EXCEPT ![b].invoke = TRUE, ![b].close = TRUE]
       \/ UNCHANGED sess
    /\ UNCHANGED <<main, expired, botVars>>

\* A retry loop that makes one attempt more than its maximum.
retry_oneMore(c) == IF call[c].tries < RetryMax THEN "again" ELSE "error"

\* The retry middleware after a retryable Telegram error.
retry(c) == IF call[c].tries + 1 < RetryMax THEN "again" ELSE "error"

\* A recovery that goes on when the bot is closed.
shouldRecover_always(b) == TRUE

\* The recovery middleware: a transport error is retried while the bot lives.
shouldRecover(b) == ~runDone[b]

Return(c) == [NoCall EXCEPT !.pc = "between"]

\* next.Invoke: an answer, a Telegram error that is retryable, final or a flood
\* wait, or a transport error (among them the caller's own context being done).
Invoke(c) ==
  LET b == call[c].bot IN
    /\ Alive
    /\ call[c].pc = "attempt"
    /\ \/ run[b] = "up" /\ CallIs(c, Return(c))
       \/ /\ run[b] = "up"
          /\ IF retry(c) = "again" THEN CallIs(c, [call[c] EXCEPT !.tries = @ + 1])
                                   ELSE CallIs(c, Return(c))
       \/ /\ run[b] = "up"
          /\ call[c].floods < MaxFloods
          /\ CallIs(c, [call[c] EXCEPT !.pc = "flood"])
       \/ IF shouldRecover(b) THEN CallIs(c, [call[c] EXCEPT !.pc = "backoff"])
                              ELSE CallIs(c, Return(c))
    /\ UNCHANGED <<main, expired, botVars, sess>>

\* A backoff without a limit on the elapsed time.
backoff_unlimited(c) ==
  /\ Alive
  /\ call[c].pc = "backoff"
  /\ CallIs(c, [call[c] EXCEPT !.pc = "attempt", !.tries = 0])
  /\ UNCHANGED <<main, expired, botVars, sess>>

\* RetryNotify: the elapsed time is over, or it sleeps and tries again.  The
\* sleep is not cut short, neither by the caller's context nor by Close.
backoff(c) ==
  /\ Alive
  /\ call[c].pc = "backoff"
  /\ \/ CallIs(c, Return(c))
     \/ /\ call[c].rounds < MaxRounds
        /\ CallIs(c, [call[c] EXCEPT !.pc = "attempt", !.tries = 0, !.rounds = @ + 1,
                        !.late = @ + IF runDone[call[c].bot] THEN 1 ELSE 0])
  /\ UNCHANGED <<main, expired, botVars, sess>>

\* floodwait sleeps and invokes the chain afresh, or gives up.
floodWait(c) ==
  /\ Alive
  /\ call[c].pc = "flood"
  /\ \/ CallIs(c, Return(c))
     \/ CallIs(c, [call[c] EXCEPT !.pc = "attempt", !.tries = 0, !.rounds = 0,
                                  !.floods = @ + 1])
  /\ UNCHANGED <<main, expired, botVars, sess>>

----------------------------------------------------------------------------

BotStep(b) ==
  \/ authDelay(b) \/ auth(b) \/ resolveChannel(b) \/ runCanceled(b) \/ runExit(b)
  \/ closeSessions(b) \/ closeCancel(b) \/ closeJoin(b)
  \/ receiveReady(b) \/ startFailed(b)

MainStep == bootDone \/ unwindNext \/ bootFailed \/ drained \/ graceOver \/ down

CallStep(c) == invoker(c) \/ Invoke(c) \/ backoff(c) \/ floodWait(c)

\* The process has ended.
Ended == main \in {"failed", "down"} /\ UNCHANGED vars

Next ==
  \/ \E b \in Bots : BotStep(b) \/ connectionLost(b) \/ startDeadline(b)
  \/ MainStep \/ stopSignal
  \/ \E c \in Requests : CallStep(c) \/ arrive(c) \/ Pick(c) \/ leave(c)
  \/ Ended

\* Goroutines are scheduled, and an RPC is answered or fails.  No signal has to
\* come, no connection has to break, and no request has to come to an end.
Spec ==
  /\ Init
  /\ [][Next]_vars
  /\ \A b \in Bots : WF_vars(BotStep(b))
  /\ WF_vars(MainStep)
  /\ \A c \in Requests : WF_vars(CallStep(c))

----------------------------------------------------------------------------
(* Properties                                                              *)

\* The boot ends, with every bot or with an error, however the handshakes, their
\* failures and the deadline of the caller interleave ("StartBot waits on ready
\* and would otherwise deadlock").
BootEnds == <>(main \in {"serving", "failed"})

\* A boot that fails leaves no run goroutine and no session pool behind; one
\* that succeeds has every bot's session pool registered.
BootAllOrNothing ==
  /\ main = "failed" => \A b \in Bots : run[b] = "exited" /\ ~sess[b].close
  /\ main = "serving" => \A b \in Bots : sess[b].built /\ ~runDone[b]

\* After a signal the process comes to an end, whatever its requests are doing.
ShutdownEnds == main = "drain" ~> main = "down"

\* When the process ends no run goroutine is left, and no session pool is open,
\* unless a request outlived the grace period: then a pool may have been opened
\* behind Close.
NothingOpenAfterShutdown ==
  main = "down" => \A b \in Bots : run[b] = "exited" /\ (~expired => ~sess[b].close)

\* Closing a bot unwinds the RPCs that are being recovered ("bot shutdown
\* unwinds in-flight retries"): at most the round whose backoff has begun is
\* still made.
CloseUnwindsRecovery == \A c \in Requests : call[c].late <= 1

\* Every RPC returns to its caller before the process ends, however the three
\* middlewares nest their retries.
CallEnds ==
  \A c \in Requests : call[c].pc = "attempt" ~> (call[c].pc = "between" \/ ~Alive)
=============================================================================
