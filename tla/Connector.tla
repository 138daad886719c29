----------------------------- MODULE Connector ------------------------------
(***************************************************************************)
(* The cloud connector, src/internal/cloud/connector.go: one goroutine     *)
(* dials the cloud hub, reads from the connection until it fails, pauses   *)
(* and dials again, with a growing back-off while dialling fails.  Each    *)
(* connection has a heartbeat loop and a metrics loop, ended by the        *)
(* context of that connection; each command of the cloud runs in a         *)
(* goroutine of its own, asks a page through Hub.CallAPI, and answers on   *)
(* whatever connection the connector has by then.                          *)
(*                                                                         *)
(* The cloud and the network are the environment: a link may be reset, or  *)
(* fall silent, when writes succeed or run into their deadline and only    *)
(* the deadline of a read, 150 seconds, notices.                           *)
(*                                                                         *)
(* Abstracted: what the messages say, compression, the counters, and       *)
(* maxRetries, which is always 0.  CallAPI is what CallService promises.   *)
(* A write, or a close, under c.mu is one step; that c.conn is read        *)
(* without c.mu by the goroutine that sets it needs no step.               *)
(***************************************************************************)
EXTENDS Integers, FiniteSets

CONSTANTS
  Commands,      \* commands the cloud may send
  MetricsEnabled,
  MayStop,       \* is Connector.Stop called (the program itself never does)
  MaxLinks,      \* bound: connections dialled
  MaxFailures    \* bound: dials that fail in a row

ASSUME ConnectorAssumption ==
  /\ {MetricsEnabled, MayStop} \subseteq BOOLEAN
  /\ {MaxLinks, MaxFailures} \subseteq Nat

Links == 1..MaxLinks

VARIABLES
  loop,          \* where connectLoop is
  retryCount,
  conn,          \* c.conn: the last link dialled, 0 for nil; never reset
  cancelled,     \* c.ctx is cancelled
  socket,        \* a link: "unused", "up", "silent" or "closed"
  beat,          \* where the heartbeat loop of a link is
  missed,        \* its missedHeartbeats
  meter,         \* where the metrics loop of a link is
  command,       \* where the goroutine of a command is
  source,        \* history: the link a command came over
  answered,      \* history: answers to a command that reached the cloud
  commandCall, commandResult   \* the state of CallService for the commands

linkVars    == <<loop, retryCount, conn, cancelled, socket>>
loopVars    == <<beat, missed, meter>>
commandVars == <<command, source, answered, commandCall, commandResult>>
connectorVars == <<linkVars, loopVars, commandVars>>

Api == INSTANCE CallService WITH
  Users <- Commands, service <- commandCall, outcome <- commandResult, restarted <- FALSE

ConnectorInit ==
  /\ loop = "connecting" /\ retryCount = 0 /\ conn = 0 /\ cancelled = FALSE
  /\ socket = [n \in Links |-> "unused"]
  /\ beat = [n \in Links |-> "none"]
  /\ missed = [n \in Links |-> 0]
  /\ meter = [n \in Links |-> "none"]
  /\ command = [m \in Commands |-> "unsent"]
  /\ source = [m \in Commands |-> 0]
  /\ answered = [m \in Commands |-> 0]
  /\ commandCall = [m \in Commands |-> "idle"]
  /\ commandResult = [m \in Commands |-> "none"]

-----------------------------------------------------------------------------
(* Writing to the connection, under c.mu                                   *)

Open    == conn # 0 /\ socket[conn] \in {"up", "silent"}
Written == Open /\ ~cancelled

Closing(n) == socket' = [socket EXCEPT ![n] = "closed"]

\* There is no open connection, or the deadline of the write passes; the
\* websocket library closes the connection when a deadline does.
WriteFails ==
  \/ ~Open /\ UNCHANGED socket
  \/ Open /\ (socket[conn] = "silent" \/ cancelled) /\ Closing(conn)

\* A send whose error is only logged.
SendAndForget == (Written /\ UNCHANGED socket) \/ WriteFails

-----------------------------------------------------------------------------
(* connectLoop                                                             *)

\* calculateBackoff multiplies 10^9 by 2^(failures-1) as an int64; 10^9 is
\* 1953125 * 2^9, which leaves 56 - failures bits, sign included, for 1953125.
\* The jitter is drawn by rand.Int63n, which panics unless its argument, a
\* quarter of the delay, is positive.
HasJitter(failures) ==
  \/ 56 - failures >= 22
  \/ /\ failures < 56
     /\ (1953125 % 2^(56 - failures)) \in 1 .. 2^(55 - failures) - 1

DialFails ==
  /\ loop = "connecting"
  /\ retryCount < MaxFailures \/ cancelled
  /\ IF cancelled THEN loop' = "returned" /\ UNCHANGED retryCount
     ELSE /\ retryCount' = retryCount + 1
          /\ loop' = IF HasJitter(retryCount') THEN "backing off" ELSE "panicked"
  /\ UNCHANGED <<conn, cancelled, socket, loopVars, commandVars>>

BackoffEnds ==
  /\ loop = "backing off"
  /\ loop' = "connecting"
  /\ UNCHANGED <<retryCount, conn, cancelled, socket, loopVars, commandVars>>

\* connect succeeds and c.conn is the new connection.
DialSucceeds ==
  /\ loop = "connecting" /\ ~cancelled
  /\ conn < MaxLinks
  /\ conn' = conn + 1
  /\ socket' = [socket EXCEPT ![conn + 1] = "up"]
  /\ retryCount' = 0
  /\ loop' = "opened"
  /\ UNCHANGED <<cancelled, loopVars, commandVars>>

\* handleConnection: the bind request, if a token is configured, then the
\* context of the connection and its loops, then the reading.
Serve ==
  /\ loop = "opened"
  /\ (UNCHANGED socket \/ WriteFails)
  /\ loop' = "serving"
  /\ beat' = [beat EXCEPT ![conn] = "beginning"]
  /\ meter' = [meter EXCEPT ![conn] = IF MetricsEnabled THEN "waiting" ELSE "none"]
  /\ UNCHANGED <<retryCount, conn, cancelled, missed, commandVars>>

\* Read fails: closed by either side.
ReadFails ==
  /\ loop = "serving" /\ socket[conn] = "closed"
  /\ loop' = "pausing"
  /\ UNCHANGED <<retryCount, conn, cancelled, socket, loopVars, commandVars>>

\* Mutant of ReadExpires: the deadline of Read is only the connector's context.
ReadNeverExpires ==
  /\ loop = "serving" /\ socket[conn] \in {"up", "silent"}
  /\ cancelled
  /\ Closing(conn)
  /\ loop' = "pausing"
  /\ UNCHANGED <<retryCount, conn, cancelled, loopVars, commandVars>>

\* The deadline of Read passes, or c.ctx is cancelled; the library closes the
\* connection.  A link that is up may also have been quiet for 150 seconds.
ReadExpires ==
  /\ loop = "serving" /\ socket[conn] \in {"up", "silent"}
  /\ Closing(conn)
  /\ loop' = "pausing"
  /\ UNCHANGED <<retryCount, conn, cancelled, loopVars, commandVars>>

\* The pause of 3 seconds outlasts a heartbeat in progress on the link that
\* was lost: its write fails at once, and the lock for the close is free.  This
\* is an assumption on timing, which the code makes likely and does not enforce.
PauseEnds ==
  /\ loop = "pausing"
  /\ \A n \in Links : beat[n] \notin {"beginning", "writing", "closing"}
  /\ loop' = "connecting"
  /\ UNCHANGED <<retryCount, conn, cancelled, socket, loopVars, commandVars>>

\* Stop, without the pusher's.  The close of the connection comes a moment after
\* cancel(), when c.ctx lets nobody read or write on it any more.
ConnectorStop ==
  /\ MayStop /\ ~cancelled /\ loop # "panicked"
  /\ cancelled' = TRUE
  /\ IF conn # 0 THEN Closing(conn) ELSE UNCHANGED socket
  /\ UNCHANGED <<loop, retryCount, conn, loopVars, commandVars>>

-----------------------------------------------------------------------------
(* heartbeatLoop and metricsLoop                                           *)

\* Mutant of ContextLive: the connection's context is never cancelled by
\* itself, as without the deferred cancel of handleConnection.
ContextOutlives(n) == ~cancelled /\ loop # "returned"

\* The context handleConnection makes and cancels when it returns.
ContextLive(n) == n = conn /\ loop = "serving" /\ ~cancelled

\* A tick that is ready together with the end of the context may still be taken
\* by the select, until the pause is over.
LateTick(n) == n = conn /\ (loop = "pausing" \/ (loop = "serving" /\ cancelled))

\* The first heartbeat; its failure does not count.
BeatFirst(n) ==
  /\ beat[n] = "beginning"
  /\ SendAndForget
  /\ beat' = [beat EXCEPT ![n] = "waiting"]
  /\ UNCHANGED <<loop, retryCount, conn, cancelled, missed, meter, commandVars>>

BeatTick(n) ==
  /\ beat[n] = "waiting" /\ (ContextLive(n) \/ LateTick(n))
  /\ beat' = [beat EXCEPT ![n] = "writing"]
  /\ UNCHANGED <<linkVars, missed, meter, commandVars>>

\* Mutant of MissedTooOften: one heartbeat more.
MissedOnceMore(count) == count > 3
MissedTooOften(count) == count >= 3

\* sendHeartbeat, on the connection there is by now.
BeatWrite(n) ==
  /\ beat[n] = "writing"
  /\ \/ /\ Written
        /\ missed' = [missed EXCEPT ![n] = 0]
        /\ beat' = [beat EXCEPT ![n] = "waiting"]
        /\ UNCHANGED socket
     \/ /\ WriteFails
        /\ missed' = [missed EXCEPT ![n] = @ + 1]
        /\ beat' = [beat EXCEPT ![n] = IF MissedTooOften(missed'[n]) THEN "closing" ELSE "waiting"]
  /\ UNCHANGED <<loop, retryCount, conn, cancelled, meter, commandVars>>

\* The third failure in a row closes c.conn.
BeatClose(n) ==
  /\ beat[n] = "closing"
  /\ Closing(conn)
  /\ beat' = [beat EXCEPT ![n] = "ended"]
  /\ UNCHANGED <<loop, retryCount, conn, cancelled, missed, meter, commandVars>>

BeatEnds(n) ==
  /\ beat[n] = "waiting" /\ ~ContextLive(n)
  /\ beat' = [beat EXCEPT ![n] = "ended"]
  /\ missed' = [missed EXCEPT ![n] = 0]
  /\ UNCHANGED <<linkVars, meter, commandVars>>

\* pushMetrics; only a write that runs into its deadline leaves a trace.
MeterPush(n) ==
  /\ meter[n] = "waiting" /\ (ContextLive(n) \/ LateTick(n))
  /\ WriteFails
  /\ UNCHANGED <<loop, retryCount, conn, cancelled, loopVars, commandVars>>

MeterEnds(n) ==
  /\ meter[n] = "waiting" /\ ~ContextLive(n)
  /\ meter' = [meter EXCEPT ![n] = "ended"]
  /\ UNCHANGED <<linkVars, beat, missed, commandVars>>

-----------------------------------------------------------------------------
(* Commands                                                                *)

\* Read returns a command, which gets a goroutine.
CommandArrives(m) ==
  /\ loop = "serving" /\ socket[conn] = "up"
  /\ command[m] = "unsent"
  /\ command' = [command EXCEPT ![m] = "arrived"]
  /\ source' = [source EXCEPT ![m] = conn]
  /\ UNCHANGED <<linkVars, loopVars, answered, commandCall, commandResult>>

\* processMessage: the payload, the action or its parameters are refused; or
\* handleAPICall calls the page.
CommandRefused(m) ==
  /\ command[m] = "arrived"
  /\ command' = [command EXCEPT ![m] = "answering"]
  /\ UNCHANGED <<linkVars, loopVars, source, answered, commandCall, commandResult>>

CommandCalls(m) ==
  /\ command[m] = "arrived"
  /\ command' = [command EXCEPT ![m] = "calling"]
  /\ Api!Begin(m)
  /\ UNCHANGED <<linkVars, loopVars, source, answered>>

CommandAnswer(m) ==
  /\ Api!Answer(m)
  /\ UNCHANGED <<linkVars, loopVars, command, source, answered>>

\* Mutant of CommandReturns: the error path of CallAPI returns unanswered.
ErrorUnanswered(m) ==
  /\ command[m] = "calling"
  /\ Api!Return(m)
  /\ command' = [command EXCEPT ![m] = IF commandResult[m] = "none" THEN "done" ELSE "answering"]
  /\ UNCHANGED <<linkVars, loopVars, source, answered>>

\* CallAPI returns, with an answer or an error; either is passed on.
CommandReturns(m) ==
  /\ command[m] = "calling"
  /\ Api!Return(m)
  /\ command' = [command EXCEPT ![m] = "answering"]
  /\ UNCHANGED <<linkVars, loopVars, source, answered>>

\* sendResponse and sendError: a failure is logged and the answer is lost; so
\* is what is written to a silent link.
CommandAnswers(m) ==
  /\ command[m] = "answering"
  /\ SendAndForget
  /\ answered' = [answered EXCEPT ![m] =
                    IF Written /\ socket[conn] = "up" THEN @ + 1 ELSE @]
  /\ command' = [command EXCEPT ![m] = "done"]
  /\ UNCHANGED <<loop, retryCount, conn, cancelled, loopVars, source, commandCall, commandResult>>

-----------------------------------------------------------------------------
\* The network or the cloud drops a link.
LinkLost(n) ==
  /\ socket[n] = "up"
  /\ \E state \in {"silent", "closed"} : socket' = [socket EXCEPT ![n] = state]
  /\ UNCHANGED <<loop, retryCount, conn, cancelled, loopVars, commandVars>>

LoopStep == \/ DialFails \/ BackoffEnds \/ DialSucceeds \/ Serve \/ ReadFails \/ ReadExpires
            \/ PauseEnds
BeatStep(n) == BeatFirst(n) \/ BeatTick(n) \/ BeatWrite(n) \/ BeatClose(n) \/ BeatEnds(n)
CommandStep(m) == \/ CommandArrives(m) \/ CommandRefused(m) \/ CommandCalls(m)
                  \/ CommandAnswer(m) \/ CommandReturns(m) \/ CommandAnswers(m)

\* Nothing runs on after the panic of a goroutine nobody recovers.
ConnectorStep ==
  /\ loop # "panicked"
  /\ \/ LoopStep
     \/ \E n \in Links : BeatStep(n) \/ MeterPush(n) \/ MeterEnds(n) \/ LinkLost(n)
     \/ \E m \in Commands : CommandStep(m)

ConnectorNext == ConnectorStep \/ ConnectorStop

ConnectorSpec == ConnectorInit /\ [][ConnectorNext]_connectorVars

\* connectLoop runs on, for its sleeps and the deadlines of Dial and Read are
\* timers; so do the heartbeat loops, whose writes have a deadline.  The pause is
\* shorter than the time between two ticks, so late ones do not hold it up.
ConnectorFairness ==
  /\ WF_connectorVars(loop # "panicked" /\ LoopStep)
  /\ SF_connectorVars(PauseEnds)
  /\ \A n \in Links : WF_connectorVars(loop # "panicked" /\ BeatStep(n))

-----------------------------------------------------------------------------
(* Properties                                                              *)

ConnectorTypeOK ==
  /\ loop \in {"connecting", "backing off", "opened", "serving", "pausing", "returned",
               "panicked"}
  /\ retryCount \in 0..MaxFailures /\ conn \in 0..MaxLinks /\ cancelled \in BOOLEAN
  /\ socket \in [Links -> {"unused", "up", "silent", "closed"}]
  /\ beat \in [Links -> {"none", "beginning", "waiting", "writing", "closing", "ended"}]
  /\ missed \in [Links -> 0..3] /\ meter \in [Links -> {"none", "waiting", "ended"}]
  /\ command \in [Commands -> {"unsent", "arrived", "calling", "answering", "done"}]
  /\ source \in [Commands -> 0..MaxLinks] /\ answered \in [Commands -> 0..1]
  /\ commandCall \in [Commands -> {"idle", "busy"}]
  /\ commandResult \in [Commands -> {"none", "own"}]

\* connector.go:388 closes c.conn, whichever link that is by now: a heartbeat
\* loop gets there only while the link that is current is dead, so one that
\* outlives its own connection never ends the connection dialled after it.
HealthyLinkKept ==
  \A n \in Links : beat[n] = "closing" => conn # 0 /\ socket[conn] # "up"

\* A command is answered at most once however often the connector reconnects
\* meanwhile; and as long as the link it came over lasts, its answer reaches the
\* cloud whatever way the command ended.
CommandsAnswered ==
  \A m \in Commands :
    /\ answered[m] <= 1
    /\ command[m] = "done" /\ socket[source[m]] = "up" => answered[m] = 1

\* connector.go:38 and :68 promise unlimited retries ("0 = unlimited"): no
\* number of failed dials in a row ends the loop.
RetriesForever == loop # "panicked"

\* A link that was lost, silently or not, is given up, and another one is
\* dialled as long as the cloud takes calls again.
LostLinkReplaced ==
  \A n \in Links : socket[n] \in {"silent", "closed"} /\ conn = n ~>
    conn # n \/ (conn = MaxLinks /\ loop # "serving") \/ cancelled
=============================================================================
