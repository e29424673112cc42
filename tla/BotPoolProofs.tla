--------------------------- MODULE BotPoolProofs ---------------------------
(***************************************************************************)
(* Proofs about BotPool, for every pool size, number of requests and bound *)
(* on retries.                                                             *)
(*                                                                         *)
(* Each bot's start, run goroutine, Close and session pool are tied to one *)
(* another and to the phase main is in (BotInv); each RPC's recovery to    *)
(* the context of its bot (CallInv).                                       *)
(***************************************************************************)
EXTENDS BotPool, TLAPS

----------------------------------------------------------------------------
(* The inductive invariant                                                 *)

\* The handshake: what is published is an outcome, and success means that the
\* session pool is registered.
StartInv(b) ==
  /\ run[b] = "ended" => err[b] # "none"
  /\ ready[b] = "ok" \/ start[b] = "ok" => sess[b].built
  /\ start[b] = "wait" => closing[b] = "no"
  /\ start[b] = "failed" => closing[b] = "closed"

\* Close: the context is done only when Close has cancelled it, and a closed bot
\* has no goroutine.
CloseInv(b) ==
  /\ runDone[b] => closing[b] \in {"join", "closed"}
  /\ closing[b] = "closed" => run[b] = "exited"

\* The phases of main.
PhaseInv(b) ==
  /\ main # "boot" => start[b] \in {"ok", "failed"}
  /\ main \in {"serving", "drain", "closing", "down"} => start[b] = "ok"
  /\ main \in {"boot", "serving", "drain"} /\ start[b] = "ok" => closing[b] = "no"
  /\ main \in {"failed", "down"} => closing[b] = "closed"

\* A session pool is open only while requests are served, or behind Close when
\* requests have outlived the grace period.
SessionInv(b) ==
  /\ main \in {"boot", "unwind", "failed"} => ~sess[b].close
  /\ main \in {"closing", "down"} /\ ~expired /\ closing[b] \notin {"no", "sessions"}
       => ~sess[b].close

BotInv(b) == StartInv(b) /\ CloseInv(b) /\ PhaseInv(b) /\ SessionInv(b)

\* A round begun after Close is the last one: the recovery does not begin to back
\* off again.  floodwait sleeps only while it has a wait left.  A drained server has no RPC.
CallInv(c) ==
  /\ call[c].late <= 1
  /\ call[c].late # 0 => runDone[call[c].bot]
  /\ call[c].pc = "backoff" => call[c].late = 0
  /\ call[c].pc = "flood" => call[c].floods < MaxFloods
  /\ main \in {"closing", "down"} /\ ~expired => call[c].pc = "idle"

Inv == TypeOK /\ (\A b \in Bots : BotInv(b)) /\ (\A c \in Requests : CallInv(c))

----------------------------------------------------------------------------
(* The steps of a bot                                                      *)

USE DEF StartInv, CloseInv, PhaseInv, SessionInv

\* The invariant at the beginning: every bot is starting, nothing is open.
LEMMA InvInit == Init => Inv
<1> SUFFICES ASSUME Init PROVE Inv
  OBVIOUS
<1>1. 0 \in Bots /\ 0 \in 0..RetryMax - 1 /\ 0 \in 0..MaxRounds /\ 0 \in 0..MaxFloods
  BY PoolAssumption DEF Bots
<1>2. TypeOK
  BY <1>1 DEF Init, TypeOK, NoSessions, NoCall
<1>3. \A b \in Bots : BotInv(b)
  BY DEF Init, BotInv, NoSessions
<1>4. \A c \in Requests : CallInv(c)
  BY DEF Init, CallInv, NoCall
<1> QED BY <1>2, <1>3, <1>4 DEF Inv

\* A step that leaves the RPCs, the phase and the grace period alone and cancels
\* no context keeps CallInv.
LEMMA CallsKept ==
  ASSUME Inv, UNCHANGED <<main, expired, call>>, runDone' \in [Bots -> BOOLEAN],
         \A b \in Bots : runDone[b] => runDone'[b]
  PROVE  \A c \in Requests : CallInv(c)'
<1>1. \A c \in Requests : call[c].bot \in Bots
  BY DEF Inv, TypeOK
<1> QED BY <1>1 DEF Inv, CallInv

Outcomes == {"ok", "error", "canceled"}

\* publish sends at most once and to its own bot's channel.
LEMMA PublishEffect ==
  ASSUME TypeOK, NEW b \in Bots, NEW v \in Outcomes, publish(b, v)
  PROVE  /\ ready' \in [Bots -> {"empty", "ok", "error", "canceled"}]
         /\ once' \in [Bots -> BOOLEAN]
         /\ \A i \in Bots : ready'[i] \in {ready[i], IF i = b THEN v ELSE ready[i]}
<1>1. /\ ready \in [Bots -> {"empty", "ok", "error", "canceled"}]
      /\ once \in [Bots -> BOOLEAN]
  BY DEF TypeOK
<1>2. CASE once[b]
  BY <1>1, <1>2 DEF publish
<1>3. CASE ~once[b]
  <2>1. /\ ready' = [ready EXCEPT ![b] = v]
        /\ once' = [once EXCEPT ![b] = TRUE]
    BY <1>3 DEF publish
  <2> QED BY <1>1, <2>1 DEF Outcomes
<1> QED BY <1>2, <1>3

\* What a step of the run goroutine b may do to the bots: only bot b moves; a
\* goroutine that ends keeps why, one that succeeds has registered the pool.
RunEffect(b) ==
  /\ UNCHANGED <<main, expired, start, runDone, closing, call>>
  /\ run' \in [Bots -> {"delay", "auth", "resolve", "up", "ended", "exited"}]
  /\ err' \in [Bots -> {"none", "error", "canceled"}]
  /\ ready' \in [Bots -> {"empty", "ok", "error", "canceled"}]
  /\ once' \in [Bots -> BOOLEAN]
  /\ sess' \in [Bots -> [built : BOOLEAN, invoke : BOOLEAN, close : BOOLEAN]]
  /\ run[b] # "exited"
  /\ \A i \in Bots :
       /\ i # b => run'[i] = run[i] /\ err'[i] = err[i]
       /\ run'[b] = "ended" => err'[b] # "none"
       /\ ready'[i] = "ok" => ready[i] = "ok" \/ sess'[i].built
       /\ sess[i].built => sess'[i].built
       /\ sess'[i].close = sess[i].close

\* Every step of the run goroutine has that effect.
LEMMA RunHasEffect ==
  ASSUME Inv, NEW b \in Bots,
         authDelay(b) \/ auth(b) \/ resolveChannel(b) \/ runCanceled(b) \/ runExit(b)
           \/ connectionLost(b)
  PROVE  RunEffect(b)
<1>1. /\ TypeOK
      /\ run \in [Bots -> {"delay", "auth", "resolve", "up", "ended", "exited"}]
      /\ err \in [Bots -> {"none", "error", "canceled"}]
      /\ ready \in [Bots -> {"empty", "ok", "error", "canceled"}]
      /\ once \in [Bots -> BOOLEAN]
      /\ sess \in [Bots -> [built : BOOLEAN, invoke : BOOLEAN, close : BOOLEAN]]
  BY DEF Inv, TypeOK
<1>2. CASE authDelay(b)
  <2>1. UNCHANGED <<main, expired, start, err, runDone, closing, sess, call>> /\ run[b] = "delay"
    BY <1>2 DEF authDelay
  <2>2. CASE run' = [run EXCEPT ![b] = "auth"] /\ UNCHANGED <<ready, once>>
    BY <1>1, <2>1, <2>2 DEF RunEffect
  <2>3. CASE publish(b, "canceled") /\ run' = [run EXCEPT ![b] = "exited"]
    BY <1>1, <2>1, <2>3, PublishEffect DEF RunEffect, Outcomes
  <2> QED BY <1>2, <2>2, <2>3 DEF authDelay
<1>3. CASE auth(b)
  <2>1. UNCHANGED <<main, expired, start, ready, once, runDone, closing, sess, call>>
        /\ run[b] = "auth"
    BY <1>3 DEF auth
  <2>2. CASE run' = [run EXCEPT ![b] = "resolve"] /\ UNCHANGED err
    BY <1>1, <2>1, <2>2 DEF RunEffect
  <2>3. CASE EndRun(b, IF runDone[b] THEN "canceled" ELSE "error")
    BY <1>1, <2>1, <2>3 DEF RunEffect, EndRun
  <2> QED BY <1>3, <2>2, <2>3 DEF auth
<1>4. CASE resolveChannel(b)
  <2>1. UNCHANGED <<main, expired, start, runDone, closing, call>> /\ run[b] = "resolve"
    BY <1>4 DEF resolveChannel
  <2>2. CASE /\ run' = [run EXCEPT ![b] = "up"]
             /\ sess' = [sess EXCEPT ![b].built = TRUE]
             /\ publish(b, "ok")
             /\ UNCHANGED err
    <3>1. /\ sess' \in [Bots -> [built : BOOLEAN, invoke : BOOLEAN, close : BOOLEAN]]
          /\ sess'[b].built
          /\ \A i \in Bots : /\ sess[i].built => sess'[i].built
                             /\ sess'[i].close = sess[i].close
      BY <1>1, <2>2
    <3>2. /\ run' \in [Bots -> {"delay", "auth", "resolve", "up", "ended", "exited"}]
          /\ run'[b] = "up"
          /\ \A i \in Bots : i # b => run'[i] = run[i]
      BY <1>1, <2>2
    <3>3. /\ ready' \in [Bots -> {"empty", "ok", "error", "canceled"}]
          /\ once' \in [Bots -> BOOLEAN]
          /\ \A i \in Bots : ready'[i] \in {ready[i], IF i = b THEN "ok" ELSE ready[i]}
      BY <1>1, <2>2, PublishEffect DEF Outcomes
    <3> QED BY <1>1, <2>1, <2>2, <3>1, <3>2, <3>3 DEF RunEffect
  <2>3. CASE /\ EndRun(b, IF runDone[b] THEN "canceled" ELSE "error")
             /\ UNCHANGED <<sess, ready, once>>
    BY <1>1, <2>1, <2>3 DEF RunEffect, EndRun
  <2> QED BY <1>4, <2>2, <2>3 DEF resolveChannel
<1>5. CASE runCanceled(b) \/ connectionLost(b)
  BY <1>1, <1>5 DEF RunEffect, EndRun, runCanceled, connectionLost
<1>6. CASE runExit(b)
  <2>1. /\ UNCHANGED <<main, expired, start, runDone, closing, sess, call>>
        /\ run[b] = "ended"
        /\ run' = [run EXCEPT ![b] = "exited"]
        /\ err' = [err EXCEPT ![b] = "none"]
        /\ publish(b, err[b])
    BY <1>6 DEF runExit
  <2>2. err[b] \in Outcomes \ {"ok"}
    BY <1>1, <2>1 DEF Inv, BotInv, StartInv, Outcomes
  <2>3. /\ ready' \in [Bots -> {"empty", "ok", "error", "canceled"}]
        /\ once' \in [Bots -> BOOLEAN]
        /\ \A i \in Bots : ready'[i] \in {ready[i], IF i = b THEN err[b] ELSE ready[i]}
    BY <1>1, <2>1, <2>2, PublishEffect
  <2> QED BY <1>1, <2>1, <2>2, <2>3 DEF RunEffect, Outcomes
<1> QED BY <1>2, <1>3, <1>4, <1>5, <1>6

\* The run goroutine.
LEMMA RunStep ==
  ASSUME Inv, NEW b \in Bots, RunEffect(b)
  PROVE  Inv'
<1>1. TypeOK /\ UNCHANGED <<main, expired, start, runDone, closing, call>>
  BY DEF Inv, RunEffect
<1>2. TypeOK'
  BY <1>1 DEF RunEffect, TypeOK
<1>3. \A c \in Requests : CallInv(c)'
  BY <1>1, CallsKept DEF TypeOK
<1>4. ASSUME NEW i \in Bots PROVE BotInv(i)'
  <2>1. BotInv(i) /\ BotInv(b)
    BY DEF Inv
  <2>2. StartInv(i)' /\ CloseInv(i)'
    BY <1>1, <2>1 DEF RunEffect, BotInv, TypeOK
  <2>3. PhaseInv(i)' /\ SessionInv(i)'
    BY <1>1, <2>1 DEF RunEffect, BotInv
  <2> QED BY <2>2, <2>3 DEF BotInv
<1> QED BY <1>2, <1>3, <1>4 DEF Inv

\* Close and StartBot.
LEMMA CloseStartStep ==
  ASSUME Inv, NEW b \in Bots,
         closeSessions(b) \/ closeCancel(b) \/ closeJoin(b) \/ receiveReady(b)
           \/ startDeadline(b) \/ startFailed(b)
  PROVE  Inv'
<1>1. TypeOK /\ UNCHANGED <<main, expired, call>>
  BY DEF Inv, closeSessions, closeCancel, closeJoin, receiveReady, startDeadline, startFailed
<1>2. \A i \in Bots : BotInv(i)
  BY DEF Inv
<1>3. /\ closing \in [Bots -> {"no", "sessions", "cancel", "join", "closed"}]
      /\ sess \in [Bots -> [built : BOOLEAN, invoke : BOOLEAN, close : BOOLEAN]]
      /\ runDone \in [Bots -> BOOLEAN]
      /\ ready \in [Bots -> {"empty", "ok", "error", "canceled"}]
      /\ start \in [Bots -> {"wait", "closing", "ok", "failed"}]
  BY <1>1 DEF TypeOK
<1>5. CASE closeSessions(b)
  <2>0. /\ closing' \in [Bots -> {"no", "sessions", "cancel", "join", "closed"}]
        /\ sess' \in [Bots -> [built : BOOLEAN, invoke : BOOLEAN, close : BOOLEAN]]
    BY <1>3, <1>5 DEF closeSessions
  <2>1. TypeOK'
    BY <1>1, <2>0, <1>5 DEF closeSessions, TypeOK
  <2>2. \A i \in Bots : BotInv(i)'
    BY <1>1, <1>2, <1>3, <1>5 DEF closeSessions, BotInv
  <2>3. \A c \in Requests : CallInv(c)'
    BY <1>1, <1>3, <1>5, CallsKept DEF closeSessions
  <2> QED BY <2>1, <2>2, <2>3 DEF Inv
<1>6. CASE closeCancel(b) \/ closeJoin(b)
  <2>0. /\ closing' \in [Bots -> {"no", "sessions", "cancel", "join", "closed"}]
        /\ runDone' \in [Bots -> BOOLEAN]
    BY <1>3, <1>6 DEF closeCancel, closeJoin
  <2>1. TypeOK'
    BY <1>1, <2>0, <1>6 DEF closeCancel, closeJoin, TypeOK
  <2>2. \A i \in Bots : BotInv(i)'
    BY <1>1, <1>2, <1>3, <1>6 DEF closeCancel, closeJoin, BotInv
  <2>3. \A c \in Requests : CallInv(c)'
    BY <1>1, <1>3, <1>6, CallsKept DEF closeCancel, closeJoin
  <2> QED BY <2>1, <2>2, <2>3 DEF Inv
<1>7. CASE receiveReady(b) \/ startDeadline(b)
  <2>0. /\ closing' \in [Bots -> {"no", "sessions", "cancel", "join", "closed"}]
        /\ ready' \in [Bots -> {"empty", "ok", "error", "canceled"}]
        /\ start' \in [Bots -> {"wait", "closing", "ok", "failed"}]
    BY <1>3, <1>7 DEF receiveReady, startDeadline, Abandon
  <2>1. TypeOK'
    BY <1>1, <2>0, <1>7 DEF receiveReady, startDeadline, Abandon, TypeOK
  <2>2. \A i \in Bots : BotInv(i)'
    BY <1>1, <1>2, <1>3, <1>7 DEF receiveReady, startDeadline, Abandon, BotInv
  <2>3. \A c \in Requests : CallInv(c)'
    BY <1>1, <1>3, <1>7, CallsKept DEF receiveReady, startDeadline
  <2> QED BY <2>1, <2>2, <2>3 DEF Inv
<1>8. CASE startFailed(b)
  <2>1. TypeOK'
    BY <1>1, <1>3, <1>8 DEF startFailed, TypeOK
  <2>2. \A i \in Bots : BotInv(i)'
    BY <1>1, <1>2, <1>3, <1>8 DEF startFailed, BotInv
  <2>3. \A c \in Requests : CallInv(c)'
    BY <1>1, <1>3, <1>8, CallsKept DEF startFailed
  <2> QED BY <2>1, <2>2, <2>3 DEF Inv
<1> QED BY <1>5, <1>6, <1>7, <1>8

----------------------------------------------------------------------------
(* The steps of main                                                       *)

\* The phases of main.
LEMMA MainStepInv ==
  ASSUME Inv, MainStep \/ stopSignal
  PROVE  Inv'
<1>1. TypeOK /\ UNCHANGED <<run, err, ready, once, runDone, sess, call, start>>
  BY DEF Inv, MainStep, bootDone, unwindNext, bootFailed, drained, graceOver, down, stopSignal,
         botVars
<1>2. CASE bootDone
  <2>1. TypeOK'
    BY <1>1, <1>2 DEF bootDone, botVars, TypeOK
  <2>2. \A b \in Bots : BotInv(b)'
    BY <1>1, <1>2 DEF bootDone, botVars, Started, TypeOK, Inv, BotInv
  <2>3. \A c \in Requests : CallInv(c)'
    BY <1>1, <1>2 DEF bootDone, Inv, CallInv
  <2> QED BY <2>1, <2>2, <2>3 DEF Inv
<1>3. CASE unwindNext
  <2>0. PICK i \in Bots : /\ start[i] = "ok" /\ closing[i] = "no"
                         /\ closing' = [closing EXCEPT ![i] = "sessions"]
                         /\ UNCHANGED <<main, expired>>
    BY <1>3 DEF unwindNext, ToClose, Started
  <2>1. TypeOK'
    BY <1>1, <2>0 DEF TypeOK
  <2>2. \A b \in Bots : BotInv(b)'
    BY <1>1, <1>3, <2>0 DEF unwindNext, TypeOK, Inv, BotInv
  <2>3. \A c \in Requests : CallInv(c)'
    BY <1>1, <1>3 DEF unwindNext, Inv, CallInv
  <2> QED BY <2>1, <2>2, <2>3 DEF Inv
<1>4. CASE bootFailed
  <2>1. TypeOK'
    BY <1>1, <1>4 DEF bootFailed, botVars, TypeOK
  <2>2. \A b \in Bots : BotInv(b)'
    BY <1>1, <1>4 DEF bootFailed, ToClose, Started, botVars, TypeOK, Inv, BotInv
  <2>3. \A c \in Requests : CallInv(c)'
    BY <1>1, <1>4 DEF bootFailed, Inv, CallInv
  <2> QED BY <2>1, <2>2, <2>3 DEF Inv
<1>5. CASE stopSignal
  <2>1. TypeOK'
    BY <1>1, <1>5 DEF stopSignal, botVars, TypeOK
  <2>2. \A b \in Bots : BotInv(b)'
    BY <1>1, <1>5 DEF stopSignal, botVars, TypeOK, Inv, BotInv
  <2>3. \A c \in Requests : CallInv(c)'
    BY <1>1, <1>5 DEF stopSignal, Inv, CallInv
  <2> QED BY <2>1, <2>2, <2>3 DEF Inv
<1>6. CASE drained \/ graceOver
  <2>1. TypeOK'
    <3>1. main' = "closing" /\ expired' \in BOOLEAN /\ closing' = [b \in Bots |-> "sessions"]
      BY <1>1, <1>6 DEF drained, graceOver, PoolClose, TypeOK
    <3>2. closing' \in [Bots -> {"no", "sessions", "cancel", "join", "closed"}]
      BY <3>1
    <3> QED BY <1>1, <3>1, <3>2 DEF TypeOK
  <2>2. \A b \in Bots : BotInv(b)'
    BY <1>1, <1>6 DEF drained, graceOver, PoolClose, TypeOK, Inv, BotInv
  <2>3. \A c \in Requests : CallInv(c)'
    BY <1>1, <1>6 DEF drained, graceOver, PoolClose, Inv, CallInv
  <2> QED BY <2>1, <2>2, <2>3 DEF Inv
<1>7. CASE down
  <2>1. TypeOK'
    BY <1>1, <1>7 DEF down, botVars, TypeOK
  <2>2. \A b \in Bots : BotInv(b)'
    BY <1>1, <1>7 DEF down, botVars, TypeOK, Inv, BotInv
  <2>3. \A c \in Requests : CallInv(c)'
    BY <1>1, <1>7 DEF down, Inv, CallInv
  <2> QED BY <2>1, <2>2, <2>3 DEF Inv
<1> QED BY <1>2, <1>3, <1>4, <1>5, <1>6, <1>7 DEF MainStep

----------------------------------------------------------------------------
(* The steps of an RPC                                                     *)

Calls == [pc : {"idle", "session", "attempt", "backoff", "flood", "between"},
          bot : Bots, tries : 0..RetryMax - 1, rounds : 0..MaxRounds,
          floods : 0..MaxFloods, late : Nat]

\* A step that replaces the RPC of c by a record of the type, with at most one
\* late round and that one of a bot that is closed, keeps the invariant: an RPC
\* only moves while requests may be in flight.
LEMMA CallMoves ==
  ASSUME Inv, NEW c \in Requests, NEW r \in Calls, CallIs(c, r),
         UNCHANGED <<main, expired, botVars, sess>>,
         main \in {"serving", "drain"} \/ (main = "closing" /\ call[c].pc # "idle"),
         r.late <= 1, r.late # 0 => runDone[r.bot], r.pc = "backoff" => r.late = 0,
         r.pc = "flood" => r.floods < MaxFloods
  PROVE  Inv'
<1>1. TypeOK /\ call \in [Requests -> Calls]
  BY DEF Inv, TypeOK, Calls
<1>2. call' = [call EXCEPT ![c] = r] /\ call' \in [Requests -> Calls]
  BY <1>1 DEF CallIs
<1>3. TypeOK'
  BY <1>1, <1>2 DEF TypeOK, botVars, Calls
<1>4. \A b \in Bots : BotInv(b)'
  BY DEF Inv, BotInv, botVars
<1>5. ASSUME NEW d \in Requests PROVE CallInv(d)'
  <2>1. CallInv(d) /\ CallInv(c)
    BY DEF Inv
  <2>2. CASE d = c
    BY <1>1, <1>2, <2>1, <2>2 DEF CallInv, botVars
  <2>3. CASE d # c
    BY <1>1, <1>2, <2>1, <2>3 DEF CallInv, botVars
  <2> QED BY <2>2, <2>3
<1> QED BY <1>3, <1>4, <1>5 DEF Inv

\* What the opening of a session pool makes of the pools.
LEMMA PoolOpened ==
  ASSUME NEW f \in [Bots -> [built : BOOLEAN, invoke : BOOLEAN, close : BOOLEAN]],
         NEW b \in Bots
  PROVE  /\ [f EXCEPT ![b].invoke = TRUE, ![b].close = TRUE]
              \in [Bots -> [built : BOOLEAN, invoke : BOOLEAN, close : BOOLEAN]]
         /\ \A i \in Bots :
              [f EXCEPT ![b].invoke = TRUE, ![b].close = TRUE][i].built = f[i].built
<1> DEFINE g == [f EXCEPT ![b].invoke = TRUE]
           h == [g EXCEPT ![b].close = TRUE]
<1>1. /\ g \in [Bots -> [built : BOOLEAN, invoke : BOOLEAN, close : BOOLEAN]]
      /\ \A i \in Bots : g[i].built = f[i].built
  OBVIOUS
<1>2. [f EXCEPT ![b].invoke = TRUE, ![b].close = TRUE] = h
  OBVIOUS
<1> HIDE DEF g
<1>3. /\ h \in [Bots -> [built : BOOLEAN, invoke : BOOLEAN, close : BOOLEAN]]
      /\ \A i \in Bots : h[i].built = g[i].built
  <2> DEFINE v == [g[b] EXCEPT !.close = TRUE]
  <2>1. v \in [built : BOOLEAN, invoke : BOOLEAN, close : BOOLEAN] /\ v.built = g[b].built
    BY <1>1
  <2>2. h = [g EXCEPT ![b] = v]
    OBVIOUS
  <2> HIDE DEF h, v
  <2> QED BY <1>1, <2>1, <2>2
<1> QED BY <1>1, <1>2, <1>3

\* A round of the recovery keeps the type of the RPC.
LEMMA NextRound ==
  ASSUME NEW x \in Calls, NEW m \in 0..MaxRounds, NEW n \in Nat
  PROVE  [x EXCEPT !.pc = "attempt", !.tries = 0, !.rounds = m, !.late = n] \in Calls
<1> DEFINE p == [x EXCEPT !.pc = "attempt"]
           q == [p EXCEPT !.tries = 0]
           r == [q EXCEPT !.rounds = m]
           s == [r EXCEPT !.late = n]
<1>1. p \in Calls
  BY DEF Calls
<1>2. [x EXCEPT !.pc = "attempt", !.tries = 0, !.rounds = m, !.late = n] = s
  OBVIOUS
<1> HIDE DEF p
<1>3. q \in Calls
  BY <1>1, PoolAssumption DEF Calls
<1> HIDE DEF q
<1>4. r \in Calls
  BY <1>3, PoolAssumption DEF Calls
<1> HIDE DEF r
<1>5. s \in Calls
  BY <1>4 DEF Calls
<1> QED BY <1>2, <1>5

\* So does the end of a flood wait.
LEMMA NextFlood ==
  ASSUME NEW x \in Calls, NEW n \in 0..MaxFloods
  PROVE  [x EXCEPT !.pc = "attempt", !.tries = 0, !.rounds = 0, !.floods = n] \in Calls
<1> DEFINE p == [x EXCEPT !.pc = "attempt"]
           q == [p EXCEPT !.tries = 0]
           r == [q EXCEPT !.rounds = 0]
           s == [r EXCEPT !.floods = n]
<1>1. p \in Calls
  BY DEF Calls
<1>2. [x EXCEPT !.pc = "attempt", !.tries = 0, !.rounds = 0, !.floods = n] = s
  OBVIOUS
<1> HIDE DEF p
<1>3. q \in Calls
  BY <1>1, PoolAssumption DEF Calls
<1> HIDE DEF q
<1>4. r \in Calls
  BY <1>3, PoolAssumption DEF Calls
<1> HIDE DEF r
<1>5. s \in Calls
  BY <1>4 DEF Calls
<1> QED BY <1>2, <1>5

\* The middlewares: what each step of the chain makes of the record of the RPC.
LEMMA CallStepInv ==
  ASSUME Inv, NEW c \in Requests,
         CallStep(c) \/ arrive(c) \/ Pick(c) \/ leave(c)
  PROVE  Inv'
<1>1. /\ TypeOK /\ CallInv(c) /\ call[c] \in Calls /\ call[c].bot \in Bots
      /\ call[c].late \in Nat
  BY DEF Inv, TypeOK, Calls
<1>2. 0 \in Bots /\ 0 \in 0..RetryMax - 1 /\ 0 \in 0..MaxRounds /\ 0 \in 0..MaxFloods
  BY PoolAssumption DEF Bots
<1>3. NoCall \in Calls /\ Return(c) \in Calls
  BY <1>2 DEF NoCall, Return, Calls
<1>4. ASSUME CallIs(c, Return(c)), call[c].pc # "idle", Alive,
             UNCHANGED <<main, expired, botVars, sess>>
      PROVE  Inv'
  BY <1>3, <1>4, CallMoves DEF Return, NoCall, Alive
<1>5. CASE invoker(c)
  <2> DEFINE b == call[c].bot
             r == [call[c] EXCEPT !.pc = "attempt"]
  <2>1. /\ Alive /\ call[c].pc = "session"
        /\ call' = [call EXCEPT ![c] = r]
        /\ UNCHANGED <<main, expired, botVars>>
        /\ \/ sess' = [sess EXCEPT ![b].invoke = TRUE, ![b].close = TRUE]
           \/ UNCHANGED sess
    BY <1>5 DEF invoker, CallIs
  <2>2. r \in Calls /\ r.late = call[c].late /\ r.bot = call[c].bot /\ r.pc = "attempt"
    BY <1>1 DEF Calls
  <2>3. call' \in [Requests -> Calls] /\ call'[c] = r
        /\ \A d \in Requests : d # c => call'[d] = call[d]
    BY <1>1, <2>1, <2>2 DEF TypeOK, Calls
  <2>4. /\ sess' \in [Bots -> [built : BOOLEAN, invoke : BOOLEAN, close : BOOLEAN]]
        /\ \A i \in Bots : sess'[i].built = sess[i].built
    <3> HIDE DEF b
    <3>1. sess \in [Bots -> [built : BOOLEAN, invoke : BOOLEAN, close : BOOLEAN]] /\ b \in Bots
      BY <1>1 DEF TypeOK, b
    <3> QED BY <2>1, <3>1, PoolOpened
  <2>5. TypeOK'
    BY <1>1, <2>1, <2>3, <2>4 DEF TypeOK, botVars, Calls
  <2>6. main \in {"serving", "drain"} \/ (main = "closing" /\ expired)
    BY <1>1, <2>1 DEF Alive, CallInv, TypeOK
  <2>7. \A i \in Bots : BotInv(i)'
    BY <2>1, <2>4, <2>6 DEF Inv, BotInv, botVars
  <2>8. ASSUME NEW d \in Requests PROVE CallInv(d)'
    <3>1. CallInv(d)
      BY DEF Inv
    <3>2. CASE d = c
      BY <1>1, <2>1, <2>2, <2>3, <2>6, <3>2 DEF CallInv, botVars
    <3>3. CASE d # c
      BY <2>1, <2>3, <3>1, <3>3 DEF CallInv, botVars
    <3> QED BY <3>2, <3>3
  <2> QED BY <2>5, <2>7, <2>8 DEF Inv
<1>6. CASE Invoke(c)
  <2>1. Alive /\ call[c].pc = "attempt" /\ UNCHANGED <<main, expired, botVars, sess>>
    BY <1>6 DEF Invoke
  <2>2. CASE CallIs(c, Return(c))
    BY <1>4, <2>1, <2>2
  <2>3. CASE call[c].tries + 1 < RetryMax /\ CallIs(c, [call[c] EXCEPT !.tries = @ + 1])
    <3> DEFINE r == [call[c] EXCEPT !.tries = @ + 1]
    <3>1. /\ r \in Calls /\ r.late = call[c].late /\ r.bot = call[c].bot /\ r.pc = "attempt"
      BY <1>1, <2>1, <2>3, PoolAssumption DEF Calls
    <3> QED BY <1>1, <2>1, <2>3, <3>1, CallMoves DEF Alive, CallInv
  <2>4. CASE call[c].floods < MaxFloods /\ CallIs(c, [call[c] EXCEPT !.pc = "flood"])
    <3> DEFINE r == [call[c] EXCEPT !.pc = "flood"]
    <3>1. /\ r \in Calls /\ r.late = call[c].late /\ r.bot = call[c].bot /\ r.pc = "flood"
          /\ r.floods = call[c].floods
      BY <1>1 DEF Calls
    <3> QED BY <1>1, <2>1, <2>4, <3>1, CallMoves DEF Alive, CallInv
  <2>5. CASE ~runDone[call[c].bot] /\ CallIs(c, [call[c] EXCEPT !.pc = "backoff"])
    <3> DEFINE r == [call[c] EXCEPT !.pc = "backoff"]
    <3>1. /\ r \in Calls /\ r.late = call[c].late /\ r.bot = call[c].bot /\ r.pc = "backoff"
      BY <1>1 DEF Calls
    <3>2. call[c].late = 0
      BY <1>1, <2>5 DEF CallInv
    <3>3. CallIs(c, r)
      BY <2>5
    <3> HIDE DEF r
    <3> QED BY <1>1, <2>1, <3>1, <3>2, <3>3, CallMoves DEF Alive
  <2> QED BY <1>6, <2>2, <2>3, <2>4, <2>5 DEF Invoke, retry, shouldRecover
<1>7. CASE backoff(c)
  <2>1. Alive /\ call[c].pc = "backoff" /\ UNCHANGED <<main, expired, botVars, sess>>
    BY <1>7 DEF backoff
  <2>2. CASE CallIs(c, Return(c))
    BY <1>4, <2>1, <2>2
  <2> DEFINE r == [call[c] EXCEPT !.pc = "attempt", !.tries = 0, !.rounds = @ + 1,
                     !.late = @ + IF runDone[call[c].bot] THEN 1 ELSE 0]
  <2>3. CASE call[c].rounds < MaxRounds /\ CallIs(c, r)
    <3>1. call[c].late = 0
      BY <1>1, <2>1 DEF CallInv
    <3>2. call[c].rounds + 1 \in 0..MaxRounds
      BY <1>1, <2>3, PoolAssumption DEF Calls
    <3> DEFINE n == IF runDone[call[c].bot] THEN 1 ELSE 0
    <3>3. call[c].late + n \in Nat
      BY <1>1
    <3>4. r = [call[c] EXCEPT !.pc = "attempt", !.tries = 0, !.rounds = call[c].rounds + 1,
                              !.late = call[c].late + n]
      OBVIOUS
    <3>5. r \in Calls
      BY <1>1, <3>2, <3>3, <3>4, NextRound
    <3>6. /\ r \in Calls /\ r.bot = call[c].bot /\ r.pc = "attempt"
          /\ r.late = IF runDone[call[c].bot] THEN 1 ELSE 0
      BY <1>1, <3>1, <3>5 DEF Calls
    <3> HIDE DEF r
    <3> QED BY <1>1, <2>1, <2>3, <3>6, CallMoves DEF Alive
  <2> QED BY <1>7, <2>2, <2>3 DEF backoff
<1>8. CASE floodWait(c)
  <2>1. Alive /\ call[c].pc = "flood" /\ UNCHANGED <<main, expired, botVars, sess>>
    BY <1>8 DEF floodWait
  <2>2. CASE CallIs(c, Return(c))
    BY <1>4, <2>1, <2>2
  <2> DEFINE r == [call[c] EXCEPT !.pc = "attempt", !.tries = 0, !.rounds = 0,
                                  !.floods = @ + 1]
  <2>3. CASE CallIs(c, r)
    <3>1. call[c].floods + 1 \in 0..MaxFloods
      BY <1>1, <2>1, PoolAssumption DEF Calls, CallInv
    <3>2. r \in Calls
      BY <1>1, <3>1, NextFlood
    <3>3. r \in Calls /\ r.bot = call[c].bot /\ r.pc = "attempt" /\ r.late = call[c].late
      BY <1>1, <3>2 DEF Calls
    <3> HIDE DEF r
    <3> QED BY <1>1, <2>1, <2>3, <3>3, CallMoves DEF Alive, CallInv
  <2> QED BY <1>8, <2>2, <2>3 DEF floodWait
<1>9. CASE arrive(c)
  BY <1>3, <1>9, CallMoves DEF arrive, NoCall, Return
<1>10. CASE Pick(c)
  <2>1. Alive /\ call[c].pc = "between" /\ UNCHANGED <<main, expired, botVars, sess>>
    BY <1>10 DEF Pick
  <2>2. PICK b \in Bots, at \in {"session", "attempt"} :
          CallIs(c, [NoCall EXCEPT !.pc = at, !.bot = b])
    BY <1>10 DEF Pick
  <2> DEFINE r == [NoCall EXCEPT !.pc = at, !.bot = b]
  <2>3. r \in Calls /\ r.late = 0 /\ r.pc = at
    BY <1>2 DEF NoCall, Calls
  <2>4. CallIs(c, r)
    BY <2>2
  <2> HIDE DEF r
  <2> QED BY <2>1, <2>3, <2>4, CallMoves DEF Alive
<1>11. CASE leave(c)
  BY <1>3, <1>11, CallMoves DEF leave, NoCall, Alive
<1> QED BY <1>5, <1>6, <1>7, <1>8, <1>9, <1>10, <1>11 DEF CallStep

----------------------------------------------------------------------------
(* The theorems                                                            *)

\* Every step keeps the invariant.
LEMMA InvStep == Inv /\ [Next]_vars => Inv'
<1> SUFFICES ASSUME Inv, [Next]_vars PROVE Inv'
  OBVIOUS
<1>1. ASSUME NEW b \in Bots, BotStep(b) \/ connectionLost(b) \/ startDeadline(b) PROVE Inv'
  BY <1>1, RunHasEffect, RunStep, CloseStartStep DEF BotStep
<1>2. CASE MainStep \/ stopSignal
  BY <1>2, MainStepInv
<1>3. ASSUME NEW c \in Requests, CallStep(c) \/ arrive(c) \/ Pick(c) \/ leave(c) PROVE Inv'
  BY <1>3, CallStepInv
<1>4. CASE UNCHANGED vars
  BY <1>4 DEF vars, Inv, TypeOK, BotInv, CallInv
<1> QED BY <1>1, <1>2, <1>3, <1>4 DEF Next, Ended

\* The invariant holds in every reachable state.
LEMMA InvAlways == Spec => []Inv
BY InvInit, InvStep, PTL DEF Spec

\* Type correctness of the bots, main and the RPCs: the counters of the three
\* nested retry loops never pass their limits.
THEOREM PoolTypeCorrect == Spec => []TypeOK
<1>1. Inv => TypeOK
  BY DEF Inv
<1> QED BY <1>1, InvAlways, PTL

\* startMTProtoPool: a boot that fails has joined every run goroutine, and one
\* that succeeds has every bot registered and alive.
THEOREM BootIsAllOrNothing == Spec => []BootAllOrNothing
<1>1. Inv => BootAllOrNothing
  <2> SUFFICES ASSUME Inv PROVE BootAllOrNothing
    OBVIOUS
  <2>1. ASSUME main = "failed", NEW b \in Bots PROVE run[b] = "exited" /\ ~sess[b].close
    BY <2>1 DEF Inv, BotInv
  <2>2. ASSUME main = "serving", NEW b \in Bots PROVE sess[b].built /\ ~runDone[b]
    BY <2>2 DEF Inv, BotInv, TypeOK
  <2> QED BY <2>1, <2>2 DEF BootAllOrNothing
<1> QED BY <1>1, InvAlways, PTL

\* Pool.Close at the end of main: every run goroutine is joined, and without an
\* expired grace period no session pool was opened behind Close.
THEOREM ShutdownLeavesNothing == Spec => []NothingOpenAfterShutdown
<1>1. Inv => NothingOpenAfterShutdown
  BY DEF Inv, BotInv, NothingOpenAfterShutdown
<1> QED BY <1>1, InvAlways, PTL

\* The recovery middleware: after Close a call makes at most the round whose
\* backoff had begun.
THEOREM RecoveryUnwinds == Spec => []CloseUnwindsRecovery
<1>1. Inv => CloseUnwindsRecovery
  BY DEF Inv, CallInv, CloseUnwindsRecovery
<1> QED BY <1>1, InvAlways, PTL
=============================================================================
