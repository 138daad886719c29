----------------------------- MODULE PocBridge ------------------------------
(***************************************************************************)
(* The bridge of the restricted run to its page, src/internal/poc/         *)
(* bridge.go, and those who use it: the collector's calls (callPage in     *)
(* search.go), the human wait that a call may need (wait.go), the          *)
(* goroutines that wait until the page is ready, and the Close of the      *)
(* clean-up (runtime_windows.go).                                          *)
(*                                                                         *)
(* A page is external: it may report any state, answer any call it was     *)
(* sent or was not, any number of times, read slowly, and leave.           *)
(* Abstracted: methods (the page offers what a call needs or does not, as  *)
(* "usable"), bodies, the authorisation of a connection, the pause between *)
(* calls, and the operator's EXTEND, which the approved policy refuses.    *)
(***************************************************************************)
EXTENDS Integers, FiniteSets

CONSTANTS
  Sockets,    \* connections the page may make
  NoPage,
  MaxCalls,   \* bound on calls
  MaxReports  \* bound on the states pages report

ASSUME PocBridgeAssumption == NoPage \notin Sockets /\ MaxCalls \in Nat \ {0} /\ MaxReports \in Nat

CallIds == 1..MaxCalls
Waiters == 0..MaxCalls   \* the login wait, and one for each call

VARIABLES
  attached,    \* s.conn
  usable,      \* s.state: visible, with the methods needed
  closed,      \* s.closed
  pending,     \* keys of s.pending
  slot,        \* slot[id]: what its channel of capacity one holds
  pageSocket,  \* pageSocket[p]: "new", "open" or "shut"
  reader,      \* reader[p] = [at, id]: its handleWebSocket
  writing,     \* who holds writeMu: NoPage, a page's reader, or "caller"
  caller,      \* [at, id, via, outcome, retried]: the collector
  waiter,      \* waiter[w]: a goroutine in WaitReady
  interrupted, \* the run's context is done
  reports,
  sentTo,      \* history: the calls page p was sent and has not answered
  faulty       \* history: pages that said what no honest page says

bridgeVars == <<attached, usable, closed, pending, slot, pageSocket, reader, writing, caller, waiter,
                interrupted, reports, sentTo, faulty>>

NoCall == [at |-> "login", id |-> 0, via |-> NoPage, outcome |-> "none", retried |-> FALSE]

BridgeInit ==
  /\ attached = NoPage /\ usable = FALSE /\ closed = FALSE
  /\ pending = {} /\ slot = [id \in CallIds |-> "empty"]
  /\ pageSocket = [p \in Sockets |-> "new"] /\ reader = [p \in Sockets |-> [at |-> "none", id |-> 0]]
  /\ writing = NoPage
  /\ caller = NoCall
  /\ waiter = [w \in Waiters |-> IF w = 0 THEN "looking" ELSE "unborn"]
  /\ interrupted = FALSE /\ reports = 0
  /\ sentTo = [p \in Sockets |-> {}] /\ faulty = {}

-----------------------------------------------------------------------------
\* signalStateChangedLocked: who sleeps on stateChanged looks again.
Signal == waiter' = [w \in Waiters |-> IF waiter[w] = "asleep" THEN "looking" ELSE waiter[w]]

\* failPendingLocked: an error for each pending call that has no result yet.
FailPending ==
  /\ slot' = [id \in CallIds |-> IF id \in pending /\ slot[id] = "empty" THEN "error" ELSE slot[id]]
  /\ pending' = {}

ReaderAt(p, at) == reader' = [reader EXCEPT ![p].at = at]

\* handleWebSocket: the only page is attached, another is put off.
PageConnects(p) ==
  /\ pageSocket[p] = "new"
  /\ IF closed \/ attached # NoPage
     THEN /\ pageSocket' = [pageSocket EXCEPT ![p] = "shut"]
          /\ UNCHANGED <<attached, usable, reader, waiter>>
     ELSE /\ pageSocket' = [pageSocket EXCEPT ![p] = "open"]
          /\ attached' = p /\ usable' = FALSE /\ Signal
          /\ ReaderAt(p, "reading")
  /\ UNCHANGED <<closed, pending, slot, writing, caller, interrupted, reports, sentTo, faulty>>

\* The page leaves, or the network loses it.
PageLeaves(p) ==
  /\ pageSocket[p] = "open"
  /\ pageSocket' = [pageSocket EXCEPT ![p] = "shut"]
  /\ UNCHANGED <<attached, usable, closed, pending, slot, reader, writing, caller, waiter,
                 interrupted, reports, sentTo, faulty>>

Reads(p) == reader[p].at = "reading" /\ pageSocket[p] = "open"

StateChanges(isUsable) == usable' = isUsable /\ Signal

\* updateClientState.
PageReports(p) ==
  /\ Reads(p) /\ reports < MaxReports
  /\ reports' = reports + 1
  /\ \E isUsable \in BOOLEAN : StateChanges(isUsable)
  /\ UNCHANGED <<attached, closed, pending, slot, pageSocket, reader, writing, caller, interrupted,
                 sentTo, faulty>>

\* deliverAPIResponse up to the unlock: whose answer is it?
PageAnswers(p, id) ==
  /\ Reads(p)
  /\ reader' = [reader EXCEPT ![p] = [at |-> IF id \in pending THEN "delivering" ELSE "refusing",
                                     id |-> id]]
  /\ faulty' = IF id \in sentTo[p] THEN faulty ELSE faulty \cup {p}
  /\ sentTo' = [sentTo EXCEPT ![p] = @ \ {id}]
  /\ UNCHANGED <<attached, usable, closed, pending, slot, pageSocket, writing, caller, waiter,
                 interrupted, reports>>

\* ... and from there: the channel takes the first result only.
ReaderDelivers(p) ==
  /\ reader[p].at = "delivering"
  /\ LET id == reader[p].id
     IN IF slot[id] = "empty"
        THEN /\ \E answer \in {"answer", "target", "error"} : slot' = [slot EXCEPT ![id] = answer]
             /\ reader' = [reader EXCEPT ![p] = [at |-> "reading", id |-> 0]]
        ELSE ReaderAt(p, "refusing") /\ UNCHANGED slot
  /\ UNCHANGED <<attached, usable, closed, pending, pageSocket, writing, caller, waiter,
                 interrupted, reports, sentTo, faulty>>

\* A ping: the pong waits for writeMu, and is written without a time limit.
ReaderGetsPing(p) ==
  /\ Reads(p)
  /\ ReaderAt(p, "ponging")
  /\ UNCHANGED <<attached, usable, closed, pending, slot, pageSocket, writing, caller, waiter,
                 interrupted, reports, sentTo, faulty>>

ReaderSendsPong(p) ==
  /\ reader[p].at = "ponging"
  /\ \/ writing = NoPage /\ writing' = p /\ UNCHANGED reader
     \/ writing = p /\ writing' = NoPage
        /\ ReaderAt(p, IF pageSocket[p] = "shut" THEN "ending" ELSE "reading")
  /\ UNCHANGED <<attached, usable, closed, pending, slot, pageSocket, caller, waiter, interrupted,
                 reports, sentTo, faulty>>

\* A message that is not allowed, as is an answer refused: the connection is closed.
ReaderRefuses(p) ==
  /\ Reads(p) \/ reader[p].at = "refusing"
  /\ pageSocket' = [pageSocket EXCEPT ![p] = "shut"]
  /\ reader' = [reader EXCEPT ![p] = [at |-> "ending", id |-> 0]]
  /\ faulty' = IF Reads(p) THEN faulty \cup {p} ELSE faulty
  /\ UNCHANGED <<attached, usable, closed, pending, slot, writing, caller, waiter, interrupted,
                 reports, sentTo>>

ReaderFails(p) ==
  /\ reader[p].at = "reading" /\ pageSocket[p] = "shut"
  /\ ReaderAt(p, "ending")
  /\ UNCHANGED <<attached, usable, closed, pending, slot, pageSocket, writing, caller, waiter,
                 interrupted, reports, sentTo, faulty>>

\* Mutant of Detach: the calls sent to the page are forgotten.
DetachAlone == attached' = NoPage /\ usable' = FALSE /\ Signal /\ UNCHANGED <<pending, slot>>
Detach == attached' = NoPage /\ usable' = FALSE /\ Signal /\ FailPending

\* The deferred detach and CloseNow of handleWebSocket.
ReaderEnds(p) ==
  /\ reader[p].at = "ending"
  /\ IF attached = p THEN Detach ELSE UNCHANGED <<attached, usable, waiter, pending, slot>>
  /\ pageSocket' = [pageSocket EXCEPT ![p] = "shut"]
  /\ ReaderAt(p, "gone")
  /\ UNCHANGED <<closed, writing, caller, interrupted, reports, sentTo, faulty>>

-----------------------------------------------------------------------------
\* WaitReady under the lock: closed, ready, or asleep until the state changes.
WaiterLooks(w) ==
  /\ waiter[w] = "looking"
  /\ waiter' = [waiter EXCEPT ![w] = IF closed THEN "failed"
                                     ELSE IF attached # NoPage /\ usable THEN "ready"
                                     ELSE "asleep"]
  /\ UNCHANGED <<attached, usable, closed, pending, slot, pageSocket, reader, writing, caller,
                 interrupted, reports, sentTo, faulty>>

WaiterInterrupted(w) ==
  /\ waiter[w] = "asleep" /\ interrupted
  /\ waiter' = [waiter EXCEPT ![w] = "failed"]
  /\ UNCHANGED <<attached, usable, closed, pending, slot, pageSocket, reader, writing, caller,
                 interrupted, reports, sentTo, faulty>>

CallerAt(at) == caller' = [caller EXCEPT !.at = at]
CallFails    == caller' = [caller EXCEPT !.at = "leaving", !.outcome = "error"]

\* WaitController.Wait, at the login or after a call that lacked its context:
\* resolved, or interrupted, cancelled by the operator or at its deadline.
HumanWaitEnds ==
  /\ caller.at \in {"login", "context"}
  /\ \/ waiter[caller.id] = "ready" /\ CallerAt("idle")
     \/ CallerAt("done")
  /\ UNCHANGED <<attached, usable, closed, pending, slot, pageSocket, reader, writing, waiter,
                 interrupted, reports, sentTo, faulty>>

\* Mutant of Enrols: Call enters itself only when the request is on its way.
EnrolsLate(id) == UNCHANGED pending
Enrols(id) == pending' = pending \cup {id}

\* Call up to the unlock: refused, or enrolled on the connection of the moment.
\* A call repeated after a wait for its context keeps that it was.
CallBegins ==
  /\ caller.at = "idle" /\ caller.id < MaxCalls
  /\ IF closed \/ attached = NoPage \/ ~usable
     THEN caller' = [caller EXCEPT !.at = "failed", !.retried = FALSE] /\ UNCHANGED pending
     ELSE /\ caller' = [caller EXCEPT !.at = "enrolled", !.id = @ + 1, !.via = attached,
                                      !.outcome = "none"]
          /\ Enrols(caller.id + 1)
  /\ UNCHANGED <<attached, usable, closed, slot, pageSocket, reader, writing, waiter, interrupted,
                 reports, sentTo, faulty>>

\* ctx.Err() is looked at once; then the call waits for writeMu, as long as that takes.
CallLocks ==
  /\ caller.at = "enrolled"
  /\ \/ writing = NoPage /\ writing' = "caller" /\ CallerAt("writing")
     \/ interrupted /\ CallFails /\ UNCHANGED writing
  /\ UNCHANGED <<attached, usable, closed, pending, slot, pageSocket, reader, waiter, interrupted,
                 reports, sentTo, faulty>>

\* The page gets the request while the write is under way ...
CallReaches ==
  /\ caller.at = "writing" /\ pageSocket[caller.via] = "open"
  /\ CallerAt("written")
  /\ sentTo' = [sentTo EXCEPT ![caller.via] = @ \cup {caller.id}]
  /\ UNCHANGED <<attached, usable, closed, pending, slot, pageSocket, reader, writing, waiter,
                 interrupted, reports, faulty>>

\* ... and the write returns: an error, at the time limit too, which closes the connection.
WriteReturns ==
  /\ caller.at \in {"writing", "written"}
  /\ writing' = NoPage
  /\ \/ caller.at = "written" /\ CallerAt("waiting") /\ UNCHANGED pageSocket
     \/ /\ CallFails
        /\ pageSocket' = [pageSocket EXCEPT ![caller.via] = "shut"]
  /\ UNCHANGED <<attached, usable, closed, pending, slot, reader, waiter, interrupted, reports,
                 sentTo, faulty>>

\* The select: the result, or the context; nothing else ends it.
CallWakes ==
  /\ caller.at = "waiting"
  /\ \/ /\ slot[caller.id] # "empty"
        /\ caller' = [caller EXCEPT !.at = "leaving", !.outcome = slot[caller.id]]
        /\ slot' = [slot EXCEPT ![caller.id] = "empty"]
     \/ interrupted /\ CallFails /\ UNCHANGED slot
  /\ UNCHANGED <<attached, usable, closed, pending, pageSocket, reader, writing, waiter,
                 interrupted, reports, sentTo, faulty>>

\* The deferred delete, and callPage's reading of the result: a call that lacked its
\* context is repeated, once, after a human wait that a goroutine in WaitReady resolves.
\* A retry after a transient error counts as a call of its own, which allows one
\* repetition more than callPage does.
CallReturns ==
  /\ caller.at = "leaving"
  /\ pending' = pending \ {caller.id}
  /\ IF caller.outcome = "target" /\ ~caller.retried
     THEN /\ waiter' = [waiter EXCEPT ![caller.id] = "looking"]
          /\ caller' = [caller EXCEPT !.at = "context", !.via = NoPage, !.retried = TRUE]
     ELSE /\ caller' = [caller EXCEPT !.at = IF caller.outcome = "answer" THEN "idle" ELSE "failed",
                                      !.via = NoPage, !.retried = FALSE]
          /\ UNCHANGED waiter
  /\ UNCHANGED <<attached, usable, closed, slot, pageSocket, reader, writing, interrupted, reports,
                 sentTo, faulty>>

\* After a failure the collector goes on with the next account, or gives up;
\* without one it may have collected enough.
CollectorGoesOn ==
  /\ \/ caller.at = "failed" /\ \E at \in {"idle", "done"} : CallerAt(at)
     \/ caller.at = "idle" /\ CallerAt("done")
  /\ UNCHANGED <<attached, usable, closed, pending, slot, pageSocket, reader, writing, waiter,
                 interrupted, reports, sentTo, faulty>>

Interrupt ==
  /\ ~interrupted /\ interrupted' = TRUE
  /\ UNCHANGED <<attached, usable, closed, pending, slot, pageSocket, reader, writing, caller, waiter,
                 reports, sentTo, faulty>>

\* Close, by the clean-up once the collector has returned.
BridgeCloses ==
  /\ caller.at = "done" /\ ~closed
  /\ closed' = TRUE /\ FailPending /\ Signal
  /\ pageSocket' = IF attached = NoPage THEN pageSocket ELSE [pageSocket EXCEPT ![attached] = "shut"]
  /\ UNCHANGED <<attached, usable, reader, writing, caller, interrupted, reports, sentTo, faulty>>

BridgeNext ==
  \/ \E p \in Sockets :
       \/ PageConnects(p) \/ PageLeaves(p) \/ PageReports(p) \/ ReaderDelivers(p) \/ ReaderGetsPing(p)
       \/ ReaderSendsPong(p) \/ ReaderRefuses(p) \/ ReaderFails(p) \/ ReaderEnds(p)
       \/ \E id \in CallIds : PageAnswers(p, id)
  \/ \E w \in Waiters : WaiterLooks(w) \/ WaiterInterrupted(w)
  \/ HumanWaitEnds \/ CallBegins \/ CallLocks \/ CallReaches \/ WriteReturns \/ CallWakes \/ CallReturns
  \/ CollectorGoesOn \/ Interrupt \/ BridgeCloses

BridgeSpec == BridgeInit /\ [][BridgeNext]_bridgeVars

-----------------------------------------------------------------------------
BridgeTypeOK ==
  /\ attached \in Sockets \cup {NoPage} /\ usable \in BOOLEAN /\ closed \in BOOLEAN
  /\ pending \subseteq CallIds /\ slot \in [CallIds -> {"empty", "answer", "target", "error"}]
  /\ pageSocket \in [Sockets -> {"new", "open", "shut"}]
  /\ reader \in [Sockets -> [at : {"none", "reading", "delivering", "refusing", "ponging", "ending",
                                 "gone"},
                           id : 0..MaxCalls]]
  /\ writing \in Sockets \cup {NoPage, "caller"}
  /\ caller \in [at : {"login", "idle", "enrolled", "writing", "written", "waiting", "leaving",
                        "context", "failed", "done"},
                  id : 0..MaxCalls, via : Sockets \cup {NoPage},
                  outcome : {"none", "answer", "target", "error"}, retried : BOOLEAN]
  /\ waiter \in [Waiters -> {"unborn", "looking", "asleep", "ready", "failed"}]
  /\ interrupted \in BOOLEAN /\ reports \in 0..MaxReports
  /\ sentTo \in [Sockets -> SUBSET CallIds] /\ faulty \subseteq Sockets

\* Nobody sleeps where nothing can wake him: a call that waits for its result has it,
\* or is enrolled while its page is attached and that page's reader is still there to
\* deliver or to fail it; and who waits for the page is asleep only while the page
\* is not ready and the bridge not closed (there is no time limit on either wait).
SleepersCanWake ==
  /\ (caller.at = "waiting" /\ slot[caller.id] = "empty") =>
        /\ caller.id \in pending /\ ~closed
        /\ attached = caller.via /\ reader[attached].at \notin {"none", "gone"}
  /\ \A w \in Waiters : waiter[w] = "asleep" => ~closed /\ ~(attached # NoPage /\ usable)

\* A page that answers what it was sent, once, is not turned away for it: its
\* answer is refused only when the run was interrupted or the bridge closed, or the
\* connection is lost already.  (An unknown or a second answer closes the
\* connection, so a race on the way to s.pending would cost an honest page its own.)
HonestPageKept ==
  \A p \in Sockets : reader[p].at = "refusing" =>
    p \in faulty \/ interrupted \/ closed \/ pageSocket[p] = "shut"
=============================================================================
