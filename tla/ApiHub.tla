------------------------------- MODULE ApiHub -------------------------------
(***************************************************************************)
(* The API bridge of src/internal/websocket: a Go caller asks a page of    *)
(* the browser for data.  CallAPI picks a connected page, registers a      *)
(* response channel under a fresh request id, puts the request in the      *)
(* page's send buffer and waits.  The page's answer comes back through the *)
(* connection's ReadPump, a bounded queue and a pool of workers, and is    *)
(* handed to whatever channel its id names at that moment.                 *)
(*                                                                         *)
(* The pages (src/internal/assets/inject/api_client.js) are the            *)
(* environment.  A page goes on with the calls it is working on when its   *)
(* socket breaks, and answers on the socket it has by then; so it does     *)
(* when the Go program is restarted, and request ids start again from 1.   *)
(*                                                                         *)
(* Abstracted: the body of requests and answers, so that the key of a call *)
(* is one key and a page either supports it or not; the JSON errors (both  *)
(* sides produce the JSON); time stamps; pingLoop, which changes only one  *)
(* of them; the idle timeout of a Read and the timeout of a Write, after   *)
(* which the socket is as good as broken.                                  *)
(***************************************************************************)
EXTENDS Integers, Sequences, FiniteSets

CONSTANTS
  Callers,       \* goroutines that call CallAPI
  Pages,         \* browser pages
  Conns,         \* connections, in the order of nothing; each is dialled once
  PageOf,        \* the page that dials a connection
  Workers,       \* response workers of a connection (5 in the code)
  SendCap,       \* capacity of client.send (256)
  QueueCap,      \* capacity of msgChan (50)
  ChanCap,       \* capacity of a response channel (2)
  LeastConnection, \* load_balancer_strategy is "leastconn", the default; the
                 \* others take any connection that supports the key
  NoConn,
  MaxCalls,      \* bound: calls made
  MaxNotices,    \* bound: states and pings of pages, and broadcasts
  MaxRestarts,   \* bound: restarts of the Go program
  WireCap        \* bound: frames of a page in flight

ASSUME ApiHubAssumption ==
  /\ PageOf \in [Conns -> Pages]
  /\ NoConn \notin Conns
  /\ {Workers, SendCap, QueueCap, ChanCap} \subseteq Nat \ {0}
  /\ LeastConnection \in BOOLEAN
  /\ {MaxCalls, MaxNotices, MaxRestarts, WireCap} \subseteq Nat

VARIABLES
  \* Hub
  clients,       \* h.clients
  lastClient,    \* h.lastClient
  hubOp,         \* what Run took from register or unregister and has not applied
  requests,      \* the ids h.requests has an entry for
  chan,          \* the response channel made for an id
  reqSeq,        \* h.reqSeq
  \* Client
  closed, ready, active, outbox,
  reader,        \* where ReadPump is (ServeHTTP before it starts)
  writer,        \* where WritePump is
  queue,         \* msgChan
  task,          \* answers whose channel was looked up: worker s, or ReadPump at 0
  \* callers of CallAPI
  callPc, callConn, callId, callNo, answer,
  \* pages and sockets
  link,          \* the socket: "unused", "up" or "down"
  uplink,        \* frames the page sent and ReadPump has not read
  work,          \* requests a page is working on
  \* history
  calls,         \* calls enrolled since the beginning
  oldCalls,      \* how many of them before the last restart
  notices, restarts

hub   == <<clients, lastClient, hubOp>>
table == <<requests, chan, reqSeq>>
conn  == <<closed, ready, active, outbox, reader, writer, queue, task>>
call  == <<callPc, callConn, callId, callNo, answer>>
page  == <<link, uplink, work>>
hist  == <<calls, oldCalls, notices, restarts>>
vars  == <<hub, table, conn, call, page, hist>>

Ids    == 1..MaxCalls
Slots  == 0..Workers
\* A request or an answer: the id it carries and, as history, the call it was
\* made for.  A broadcast command or a pong carries neither.
Message == [id : 0..MaxCalls, no : 0..MaxCalls]
Notice  == [id |-> 0, no |-> 0]
NoMessage == Notice
Frame   == [type : {"ready", "unready", "ping", "answer"}, msg : Message]
Channel == [open : BOOLEAN, buf : Seq(Message)]
NoChannel == [open |-> FALSE, buf |-> <<>>]
Idle    == [op |-> "idle", conn |-> NoConn]

Init ==
  /\ clients = {} /\ lastClient = NoConn /\ hubOp = Idle
  /\ requests = {} /\ chan = [i \in Ids |-> NoChannel] /\ reqSeq = 0
  /\ closed = [c \in Conns |-> FALSE]
  /\ ready  = [c \in Conns |-> FALSE]
  /\ active = [c \in Conns |-> 0]
  /\ outbox = [c \in Conns |-> <<>>]
  /\ reader = [c \in Conns |-> "none"]
  /\ writer = [c \in Conns |-> "none"]
  /\ queue  = [c \in Conns |-> <<>>]
  /\ task   = [c \in Conns |-> [s \in Slots |-> NoMessage]]
  /\ callPc = [k \in Callers |-> "idle"]
  /\ callConn = [k \in Callers |-> NoConn]
  /\ callId = [k \in Callers |-> 0]
  /\ callNo = [k \in Callers |-> 0]
  /\ answer = [k \in Callers |-> NoMessage]
  /\ link = [c \in Conns |-> "unused"]
  /\ uplink = [c \in Conns |-> <<>>]
  /\ work = [p \in Pages |-> {}]
  /\ calls = 0 /\ oldCalls = 0 /\ notices = 0 /\ restarts = 0

-----------------------------------------------------------------------------
(* Client                                                                  *)

\* Client.Send, under c.mu: refuses a closed client and a full buffer.
CanSend(c) == ~closed[c] /\ Len(outbox[c]) < SendCap

\* Client.Close, under c.mu; the first call closes the socket.
Close(c) ==
  /\ closed' = [closed EXCEPT ![c] = TRUE]
  /\ link' = [link EXCEPT ![c] = "down"]
  /\ outbox' = [outbox EXCEPT ![c] = <<>>]

-----------------------------------------------------------------------------
(* Hub.Run: one goroutine; the receive from an unbuffered channel lets the *)
(* sender go on before the locked section that follows has been entered.   *)

HubReceive(c) ==
  /\ hubOp = Idle
  /\ \/ /\ reader[c] = "registering"    \* then ServeHTTP starts the two pumps
        /\ hubOp' = [op |-> "register", conn |-> c]
        /\ reader' = [reader EXCEPT ![c] = "reading"]
        /\ writer' = [writer EXCEPT ![c] = "writing"]
     \/ /\ reader[c] = "leaving"
        /\ hubOp' = [op |-> "unregister", conn |-> c]
        /\ reader' = [reader EXCEPT ![c] = "closing"]
        /\ UNCHANGED writer
  /\ UNCHANGED <<clients, lastClient, table, closed, ready, active, outbox, queue, task,
                 call, page, hist>>

HubRegister ==
  /\ hubOp.op = "register"
  /\ clients' = clients \cup {hubOp.conn}
  /\ lastClient' = hubOp.conn
  /\ hubOp' = Idle
  /\ UNCHANGED <<table, conn, call, page, hist>>

\* Mutant of HubUnregister: the last client goes and lastClient stays.
UnregisterKeepsLast ==
  /\ hubOp.op = "unregister"
  /\ clients' = clients \ {hubOp.conn}
  /\ IF hubOp.conn \in clients THEN Close(hubOp.conn) ELSE UNCHANGED <<closed, link, outbox>>
  /\ hubOp' = Idle
  /\ UNCHANGED <<lastClient, table, ready, active, reader, writer, queue, task, call, uplink, work,
                 hist>>

\* Mutant of HubUnregister: a client that was closed already is not removed.
UnregisterSkipsClosed ==
  /\ hubOp.op = "unregister"
  /\ IF closed[hubOp.conn]
     THEN UNCHANGED <<clients, closed, link, outbox, lastClient>>
     ELSE /\ clients' = clients \ {hubOp.conn}
          /\ Close(hubOp.conn)
          /\ lastClient' \in (IF clients' = {} THEN {NoConn} ELSE clients')
  /\ hubOp' = Idle
  /\ UNCHANGED <<table, ready, active, reader, writer, queue, task, call, uplink, work, hist>>

\* lastClient becomes any client that is left.
HubUnregister ==
  /\ hubOp.op = "unregister"
  /\ clients' = clients \ {hubOp.conn}
  /\ IF hubOp.conn \in clients
     THEN /\ Close(hubOp.conn)
          /\ IF lastClient = hubOp.conn
             THEN lastClient' \in (IF clients' = {} THEN {NoConn} ELSE clients')
             ELSE UNCHANGED lastClient
     ELSE UNCHANGED <<closed, link, outbox, lastClient>>
  /\ hubOp' = Idle
  /\ UNCHANGED <<table, ready, active, reader, writer, queue, task, call, uplink, work, hist>>

\* BroadcastCommand and Broadcast: what a client refuses is ignored.
Broadcast ==
  /\ notices < MaxNotices
  /\ clients # {}
  /\ outbox' = [c \in Conns |-> IF c \in clients /\ CanSend(c)
                                THEN Append(outbox[c], Notice) ELSE outbox[c]]
  /\ notices' = notices + 1
  /\ UNCHANGED <<hub, table, closed, ready, active, reader, writer, queue, task, call, page,
                 calls, oldCalls, restarts>>

-----------------------------------------------------------------------------
(* ReadPump and its workers                                                *)

\* handleAPIResponse looks the channel up under requestsMu and lets go of the
\* lock before it sends: an answer to an unknown id is dropped here, and the
\* channel of one that is found may be closed by the time it is used.
LookUp(m) == IF m.id \in requests THEN m ELSE NoMessage

\* ReadPump reads a frame.  An answer goes to the workers, or is processed by
\* ReadPump itself when their queue is full; a ping is answered by Send, whose
\* error is ignored.
ReaderTake(c) ==
  /\ reader[c] = "reading" /\ task[c][0] = NoMessage
  /\ ~closed[c]
  /\ uplink[c] # <<>>
  /\ uplink' = [uplink EXCEPT ![c] = Tail(uplink[c])]
  /\ LET f == Head(uplink[c]) IN
     \/ /\ f.type \in {"ready", "unready"}
        /\ ready' = [ready EXCEPT ![c] = (f.type = "ready")]
        /\ UNCHANGED <<outbox, queue, task>>
     \/ /\ f.type = "ping"
        /\ outbox' = IF CanSend(c) THEN [outbox EXCEPT ![c] = Append(outbox[c], Notice)]
                                   ELSE outbox
        /\ UNCHANGED <<ready, queue, task>>
     \/ /\ f.type = "answer"
        /\ IF Len(queue[c]) < QueueCap
           THEN queue' = [queue EXCEPT ![c] = Append(queue[c], f.msg)] /\ UNCHANGED task
           ELSE task' = [task EXCEPT ![c][0] = LookUp(f.msg)] /\ UNCHANGED queue
        /\ UNCHANGED <<ready, outbox>>
  /\ UNCHANGED <<hub, table, closed, active, reader, writer, call, link, work, hist>>

\* A worker takes the next answer and looks its channel up.
WorkerTake(c, s) ==
  /\ s # 0 /\ task[c][s] = NoMessage
  /\ queue[c] # <<>>
  /\ queue' = [queue EXCEPT ![c] = Tail(queue[c])]
  /\ task' = [task EXCEPT ![c][s] = LookUp(Head(queue[c]))]
  /\ UNCHANGED <<hub, table, closed, ready, active, outbox, reader, writer, call, page, hist>>

\* The send: into the buffer, or given up after 5 seconds when that stays
\* full, or on a closed channel.  The panic of the latter is recovered in a
\* worker; in ReadPump it unwinds the loop.
Deliver(c, s) ==
  /\ task[c][s] # NoMessage
  /\ LET m == task[c][s] IN
     \/ /\ chan[m.id].open
        /\ chan' = IF Len(chan[m.id].buf) < ChanCap
                   THEN [chan EXCEPT ![m.id].buf = Append(chan[m.id].buf, m)] ELSE chan
        /\ UNCHANGED reader
     \/ /\ ~chan[m.id].open
        /\ reader' = IF s = 0 THEN [reader EXCEPT ![c] = "draining"] ELSE reader
        /\ UNCHANGED chan
  /\ task' = [task EXCEPT ![c][s] = NoMessage]
  /\ UNCHANGED <<hub, requests, reqSeq, closed, ready, active, outbox, writer, queue, call,
                 page, hist>>

\* Read fails: the client was closed or the socket broke.
ReaderFail(c) ==
  /\ reader[c] = "reading" /\ task[c][0] = NoMessage
  /\ closed[c] \/ link[c] = "down"
  /\ reader' = [reader EXCEPT ![c] = "draining"]
  /\ uplink' = [uplink EXCEPT ![c] = <<>>]
  /\ UNCHANGED <<hub, table, closed, ready, active, outbox, writer, queue, task, call, link, work,
                 hist>>

\* close(msgChan) and wg.Wait(), then the unregister channel.
ReaderLeave(c) ==
  /\ reader[c] = "draining"
  /\ queue[c] = <<>> /\ \A s \in Slots : task[c][s] = NoMessage
  /\ reader' = [reader EXCEPT ![c] = "leaving"]
  /\ UNCHANGED <<hub, table, closed, ready, active, outbox, writer, queue, task, call, page, hist>>

ReaderClose(c) ==
  /\ reader[c] = "closing"
  /\ reader' = [reader EXCEPT ![c] = "done"]
  /\ Close(c)
  /\ UNCHANGED <<hub, table, ready, active, writer, queue, task, call, uplink, work, hist>>

-----------------------------------------------------------------------------
(* WritePump                                                               *)

\* A request reaches the page if its socket is still there.
WriterSend(c) ==
  /\ writer[c] = "writing" /\ ~closed[c]
  /\ outbox[c] # <<>>
  /\ outbox' = [outbox EXCEPT ![c] = Tail(outbox[c])]
  /\ work' = IF link[c] = "up" /\ Head(outbox[c]) # Notice
             THEN [work EXCEPT ![PageOf[c]] = @ \cup {Head(outbox[c])}] ELSE work
  /\ UNCHANGED <<hub, table, closed, ready, active, reader, writer, queue, task, call, link,
                 uplink, hist>>

\* The write failed, or the client was closed.
WriterEnd(c) ==
  /\ writer[c] = "writing"
  /\ closed[c] \/ (link[c] = "down" /\ outbox[c] # <<>>)
  /\ writer' = [writer EXCEPT ![c] = "done"]
  /\ Close(c)
  /\ UNCHANGED <<hub, table, ready, active, reader, queue, task, call, uplink, work, hist>>

-----------------------------------------------------------------------------
(* CallAPI                                                                 *)

\* Select of the configured selector: the default one takes a connection with
\* the least calls; round robin, weights and chance may each take any.
Selectable(c, candidates) ==
  /\ c \in candidates
  /\ LeastConnection => \A d \in candidates : active[c] <= active[d]

\* GetClientForKey, under h.mu: the selector chooses among the registered clients
\* that support the key; without one CallAPI fails.
CallSelect(k) ==
  /\ callPc[k] = "idle"
  /\ calls + Cardinality({j \in Callers : callPc[j] = "selected"}) < MaxCalls
  /\ \E c \in clients :
       /\ Selectable(c, {d \in clients : ready[d]})
       /\ callConn' = [callConn EXCEPT ![k] = c]
  /\ callPc' = [callPc EXCEPT ![k] = "selected"]
  /\ UNCHANGED <<hub, table, conn, callId, callNo, answer, page, hist>>

\* Mutant of NextId: ids that are free again once a call has returned.
IdFromTableSize == Cardinality(requests) + 1

NextId == reqSeq + 1

\* IncrementActiveRequests, the next request id, its channel and its entry.
CallEnrol(k) ==
  /\ callPc[k] = "selected"
  /\ calls < MaxCalls
  /\ active' = [active EXCEPT ![callConn[k]] = @ + 1]
  /\ reqSeq' = NextId
  /\ requests' = requests \cup {reqSeq'}
  /\ chan' = [chan EXCEPT ![reqSeq'] = [open |-> TRUE, buf |-> <<>>]]
  /\ calls' = calls + 1
  /\ callId' = [callId EXCEPT ![k] = reqSeq']
  /\ callNo' = [callNo EXCEPT ![k] = calls']
  /\ callPc' = [callPc EXCEPT ![k] = "enrolled"]
  /\ UNCHANGED <<hub, closed, ready, outbox, reader, writer, queue, task, callConn, answer,
                 page, oldCalls, notices, restarts>>

\* Send under c.mu; its error ends the call.
CallSend(k) ==
  /\ callPc[k] = "enrolled"
  /\ LET c == callConn[k] IN
     IF CanSend(c)
     THEN /\ outbox' = [outbox EXCEPT ![c] = Append(@, [id |-> callId[k], no |-> callNo[k]])]
          /\ callPc' = [callPc EXCEPT ![k] = "waiting"]
     ELSE /\ callPc' = [callPc EXCEPT ![k] = "ended"]
          /\ UNCHANGED outbox
  /\ UNCHANGED <<hub, table, closed, ready, active, reader, writer, queue, task, callConn, callId,
                 callNo, answer, page, hist>>

\* The select: an answer, or the timeout, which may win over a waiting answer.
CallReceive(k) ==
  /\ callPc[k] = "waiting"
  /\ LET i == callId[k] IN
     /\ chan[i].buf # <<>>
     /\ answer' = [answer EXCEPT ![k] = Head(chan[i].buf)]
     /\ chan' = [chan EXCEPT ![i].buf = Tail(@)]
  /\ callPc' = [callPc EXCEPT ![k] = "ended"]
  /\ UNCHANGED <<hub, requests, reqSeq, conn, callConn, callId, callNo, page, hist>>

\* Mutant of CallTimeout: a caller gives up only when its client was closed.
TimeoutWhenClosed(k) ==
  /\ callPc[k] = "waiting"
  /\ closed[callConn[k]]
  /\ callPc' = [callPc EXCEPT ![k] = "ended"]
  /\ UNCHANGED <<hub, table, conn, callConn, callId, callNo, answer, page, hist>>

\* Mutant of CallTimeout: the error path skips the deletion of the entry.
TimeoutSkipsForget(k) ==
  /\ callPc[k] = "waiting"
  /\ callPc' = [callPc EXCEPT ![k] = "forgotten"]
  /\ UNCHANGED <<hub, table, conn, callConn, callId, callNo, answer, page, hist>>

CallTimeout(k) ==
  /\ callPc[k] = "waiting"
  /\ callPc' = [callPc EXCEPT ![k] = "ended"]
  /\ UNCHANGED <<hub, table, conn, callConn, callId, callNo, answer, page, hist>>

\* The deferred functions: the entry goes, then the channel is closed, then
\* DecrementActiveRequests, which does not go below zero.
CallForget(k) ==
  /\ callPc[k] = "ended"
  /\ requests' = requests \ {callId[k]}
  /\ callPc' = [callPc EXCEPT ![k] = "forgotten"]
  /\ UNCHANGED <<hub, chan, reqSeq, conn, callConn, callId, callNo, answer, page, hist>>

\* Mutant of CallReturn: the count goes down only after an answer.
ReturnCountsAnswers(k) ==
  /\ callPc[k] = "forgotten"
  /\ chan' = [chan EXCEPT ![callId[k]] = NoChannel]
  /\ active' = IF answer[k] # NoMessage THEN [active EXCEPT ![callConn[k]] = @ - 1] ELSE active
  /\ callPc' = [callPc EXCEPT ![k] = "idle"]
  /\ callConn' = [callConn EXCEPT ![k] = NoConn]
  /\ callId' = [callId EXCEPT ![k] = 0]
  /\ callNo' = [callNo EXCEPT ![k] = 0]
  /\ answer' = [answer EXCEPT ![k] = NoMessage]
  /\ UNCHANGED <<hub, requests, reqSeq, closed, ready, outbox, reader, writer, queue, task, page,
                 hist>>

\* Mutant of CallReturn: the error path lowers the count too, and nothing
\* keeps it from going below zero.
ReturnDecrementsTwice(k) ==
  /\ callPc[k] = "forgotten"
  /\ chan' = [chan EXCEPT ![callId[k]] = NoChannel]
  /\ active' = [active EXCEPT ![callConn[k]] = @ - (IF answer[k] = NoMessage THEN 2 ELSE 1)]
  /\ callPc' = [callPc EXCEPT ![k] = "idle"]
  /\ callConn' = [callConn EXCEPT ![k] = NoConn]
  /\ callId' = [callId EXCEPT ![k] = 0]
  /\ callNo' = [callNo EXCEPT ![k] = 0]
  /\ answer' = [answer EXCEPT ![k] = NoMessage]
  /\ UNCHANGED <<hub, requests, reqSeq, closed, ready, outbox, reader, writer, queue, task, page,
                 hist>>

CallReturn(k) ==
  /\ callPc[k] = "forgotten"
  /\ chan' = [chan EXCEPT ![callId[k]] = NoChannel]
  /\ active' = IF active[callConn[k]] > 0 THEN [active EXCEPT ![callConn[k]] = @ - 1] ELSE active
  /\ callPc' = [callPc EXCEPT ![k] = "idle"]
  /\ callConn' = [callConn EXCEPT ![k] = NoConn]
  /\ callId' = [callId EXCEPT ![k] = 0]
  /\ callNo' = [callNo EXCEPT ![k] = 0]
  /\ answer' = [answer EXCEPT ![k] = NoMessage]
  /\ UNCHANGED <<hub, requests, reqSeq, closed, ready, outbox, reader, writer, queue, task, page,
                 hist>>

-----------------------------------------------------------------------------
(* Pages and the process                                                   *)

Post(c, type, m) == uplink' = [uplink EXCEPT ![c] = Append(@, [type |-> type, msg |-> m])]

\* tryConnect and ServeHTTP: the upgraded connection is handed to the hub; the
\* page begins with sendClientState, ready or not.
Dial(c) ==
  /\ link[c] = "unused"
  /\ \A d \in Conns : PageOf[d] = PageOf[c] => link[d] # "up"
  /\ link' = [link EXCEPT ![c] = "up"]
  /\ reader' = [reader EXCEPT ![c] = "registering"]
  /\ \E type \in {"ready", "unready"} : Post(c, type, Notice)
  /\ UNCHANGED <<hub, table, closed, ready, active, outbox, writer, queue, task, call, work, hist>>

CanPost(c) == link[c] = "up" /\ Len(uplink[c]) < WireCap

\* sendClientState: the page's methods became available, or went.
PageState(c) ==
  /\ notices < MaxNotices
  /\ CanPost(c)
  /\ \E type \in {"ready", "unready"} : Post(c, type, Notice)
  /\ notices' = notices + 1
  /\ UNCHANGED <<hub, table, conn, call, link, work, calls, oldCalls, restarts>>

PagePing(c) ==
  /\ notices < MaxNotices
  /\ CanPost(c)
  /\ Post(c, "ping", Notice)
  /\ notices' = notices + 1
  /\ UNCHANGED <<hub, table, conn, call, link, work, calls, oldCalls, restarts>>

\* handleAPICall ends with sendResponse: one answer, on the socket the page
\* has at that time; without one the answer is lost.
PageAnswer(p) ==
  \E m \in work[p] :
    /\ work' = [work EXCEPT ![p] = @ \ {m}]
    /\ \/ \E c \in Conns : PageOf[c] = p /\ CanPost(c) /\ Post(c, "answer", m)
       \/ /\ \A c \in Conns : PageOf[c] = p => link[c] # "up"
          /\ UNCHANGED uplink
    /\ UNCHANGED <<hub, table, conn, call, link, hist>>

\* The socket breaks; when the page was closed or reloaded its work is gone too.
PageDrop(c) ==
  /\ link[c] = "up"
  /\ link' = [link EXCEPT ![c] = "down"]
  /\ \/ UNCHANGED work
     \/ work' = [work EXCEPT ![PageOf[c]] = {}]
  /\ UNCHANGED <<hub, table, conn, call, uplink, hist>>

\* The Go program ends and is started again: everything of it is lost, what
\* the pages are working on is not.
Restart ==
  /\ restarts < MaxRestarts
  /\ restarts' = restarts + 1
  /\ oldCalls' = calls
  /\ clients' = {} /\ lastClient' = NoConn /\ hubOp' = Idle
  /\ requests' = {} /\ chan' = [i \in Ids |-> NoChannel] /\ reqSeq' = 0
  /\ closed' = [c \in Conns |-> FALSE]
  /\ ready'  = [c \in Conns |-> FALSE]
  /\ active' = [c \in Conns |-> 0]
  /\ outbox' = [c \in Conns |-> <<>>]
  /\ reader' = [c \in Conns |-> "none"]
  /\ writer' = [c \in Conns |-> "none"]
  /\ queue'  = [c \in Conns |-> <<>>]
  /\ task'   = [c \in Conns |-> [s \in Slots |-> NoMessage]]
  /\ callPc' = [k \in Callers |-> "idle"]
  /\ callConn' = [k \in Callers |-> NoConn]
  /\ callId' = [k \in Callers |-> 0]
  /\ callNo' = [k \in Callers |-> 0]
  /\ answer' = [k \in Callers |-> NoMessage]
  /\ link' = [c \in Conns |-> IF link[c] = "up" THEN "down" ELSE link[c]]
  /\ uplink' = [c \in Conns |-> <<>>]
  /\ UNCHANGED <<work, calls, notices>>

-----------------------------------------------------------------------------
Caller(k) == \/ CallSelect(k) \/ CallEnrol(k) \/ CallSend(k) \/ CallReceive(k)
             \/ CallTimeout(k) \/ CallForget(k) \/ CallReturn(k)
Reader(c) == \/ ReaderTake(c) \/ ReaderFail(c) \/ ReaderLeave(c) \/ ReaderClose(c)
             \/ \E s \in Slots : WorkerTake(c, s) \/ Deliver(c, s)
Writer(c) == WriterSend(c) \/ WriterEnd(c)
Hub       == HubRegister \/ HubUnregister \/ Broadcast \/ \E c \in Conns : HubReceive(c)
PageStep  == \/ \E c \in Conns : Dial(c) \/ PageState(c) \/ PagePing(c) \/ PageDrop(c)
             \/ \E p \in Pages : PageAnswer(p)

Next == \/ \E k \in Callers : Caller(k)
        \/ \E c \in Conns : Reader(c) \/ Writer(c)
        \/ Hub
        \/ PageStep
        \/ Restart

Spec == Init /\ [][Next]_vars

\* Every goroutine of the program runs on: the hub, the pumps, the workers, and
\* a call that has begun (its timeout is a timer).  Pages owe nothing.
Fairness ==
  /\ WF_vars(HubRegister \/ HubUnregister)
  /\ \A c \in Conns :
       /\ WF_vars(HubReceive(c))
       /\ WF_vars(ReaderTake(c) \/ ReaderFail(c))
       /\ WF_vars(ReaderLeave(c)) /\ WF_vars(ReaderClose(c))
       /\ \A s \in Slots : WF_vars(Deliver(c, s)) /\ WF_vars(WorkerTake(c, s))
       /\ WF_vars(Writer(c))
  /\ \A k \in Callers :
       WF_vars(\/ CallEnrol(k) \/ CallSend(k) \/ CallReceive(k) \/ CallTimeout(k)
               \/ CallForget(k) \/ CallReturn(k))
FairSpec == Spec /\ Fairness

-----------------------------------------------------------------------------
(* Properties                                                              *)

Pcs == {"idle", "selected", "enrolled", "waiting", "ended", "forgotten"}

\* The shape of the state.
TypeOK ==
  /\ clients \subseteq Conns /\ lastClient \in Conns \cup {NoConn}
  /\ hubOp \in [op : {"register", "unregister"}, conn : Conns] \cup {Idle}
  /\ requests \subseteq Ids /\ chan \in [Ids -> Channel] /\ reqSeq \in 0..MaxCalls
  /\ closed \in [Conns -> BOOLEAN] /\ ready \in [Conns -> BOOLEAN]
  /\ active \in [Conns -> Nat]
  /\ outbox \in [Conns -> Seq(Message)]
  /\ reader \in [Conns -> {"none", "registering", "reading", "draining", "leaving", "closing",
                           "done"}]
  /\ writer \in [Conns -> {"none", "writing", "done"}]
  /\ queue \in [Conns -> Seq(Message)] /\ task \in [Conns -> [Slots -> Message]]
  /\ callPc \in [Callers -> Pcs] /\ callConn \in [Callers -> Conns \cup {NoConn}]
  /\ callId \in [Callers -> 0..MaxCalls] /\ callNo \in [Callers -> 0..MaxCalls]
  /\ answer \in [Callers -> Message]
  /\ link \in [Conns -> {"unused", "up", "down"}]
  /\ uplink \in [Conns -> Seq(Frame)] /\ work \in [Pages -> SUBSET Message]
  /\ calls \in 0..MaxCalls /\ oldCalls \in 0..MaxCalls
  /\ notices \in 0..MaxNotices /\ restarts \in 0..MaxRestarts

\* CallAPI returns the answer to its own request and to no other of this
\* process, whatever answers come late, over another connection of the page,
\* or while other calls end and begin.  Only an answer a page held over from
\* before a restart can be taken for the answer to a later call.
OwnAnswer ==
  \A k \in Callers : answer[k] # NoMessage =>
    answer[k].no = callNo[k] \/ answer[k].no <= oldCalls

\* h.requests names exactly the calls in progress, each by an id of its own,
\* and a response channel is open exactly while its CallAPI has not returned:
\* no path out of CallAPI leaves an entry or a channel behind.  And whoever has an
\* answer to put into an open channel has room for it: one of this process, and one
\* held over from before a restart, can carry its id.
NothingLeaks ==
  LET At(pcs) == {k \in Callers : callPc[k] \in pcs}
      Inside  == {"enrolled", "waiting", "ended"}
  IN  /\ requests = {callId[k] : k \in At(Inside)}
      /\ {i \in Ids : chan[i].open} = {callId[k] : k \in At(Inside \cup {"forgotten"})}
      /\ \A j, k \in At(Inside \cup {"forgotten"}) : callId[j] = callId[k] => j = k
      /\ \A c \in Conns, s \in Slots : task[c][s] # NoMessage /\ chan[task[c][s].id].open =>
           Len(chan[task[c][s].id].buf) < ChanCap

\* What the selector balances on: the active requests of a connection are the
\* calls in progress on it, also after the connection is gone.
LoadIsCalls ==
  \A c \in Conns : active[c] = Cardinality({k \in Callers :
    callConn[k] = c /\ callPc[k] \in {"enrolled", "waiting", "ended", "forgotten"}})

\* A connection whose ReadPump has ended is not registered, or the hub is about
\* to remove it, whenever its registration and its end came; a running one is
\* registered, or is being;
\* and lastClient is registered as long as anyone is.
RegistryFollowsPumps ==
  /\ \A c \in Conns : reader[c] = "done" =>
       c \notin clients \/ hubOp = [op |-> "unregister", conn |-> c]
  /\ \A c \in Conns : reader[c] \in {"reading", "draining", "leaving"} =>
       c \in clients \/ hubOp = [op |-> "register", conn |-> c]
  /\ IF clients = {} THEN lastClient = NoConn ELSE lastClient \in clients

\* A client that was closed, by whichever goroutine, leaves the registry: the
\* hub takes its unregistration even while answers are still being handed over.
ClosedLeaves == \A c \in Conns : closed[c] ~> c \notin clients

\* A call ends whatever its page does.
CallEnds == \A k \in Callers : callPc[k] # "idle" ~> callPc[k] = "idle"

\* The state of the abstract service: who is inside CallAPI, whose answer a
\* caller holds, and whether the program was restarted.
Inside == [k \in Callers |-> IF callPc[k] = "idle" THEN "idle" ELSE "busy"]
Outcome == [k \in Callers |-> IF answer[k] = NoMessage THEN "none"
                             ELSE IF answer[k].no = callNo[k] THEN "own" ELSE "old"]
Restarted == restarts > 0

Calls == INSTANCE CallService WITH
  Users <- Callers, service <- Inside, outcome <- Outcome, restarted <- Restarted

\* The bridge keeps the promise of CallService through every interleaving of
\* callers, pumps, workers, reconnections and restarts: a call in progress gets
\* one answer, its own, and an old one only once the program was restarted.
CallsImplemented == Calls!ServiceSpec
=============================================================================
