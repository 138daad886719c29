-------------------------- MODULE PocBridgeProofs ---------------------------
(***************************************************************************)
(* SleepersCanWake and HonestPageKept of PocBridge, for any number of      *)
(* connections, calls and reports.                                         *)
(*                                                                         *)
(* The argument: only the attached page has a reader, so that a call whose *)
(* result has not come is enrolled for the page it went to, and that       *)
(* page's end fails it.  What an honest page has been sent and has not     *)
(* answered is the one call in progress, which stays pending with an empty *)
(* channel until the answer is in it.                                      *)
(*                                                                         *)
(* And SearchBounded of WorkSearch, which asks its questions over the      *)
(* bridge, for any works, limits and answers of the source: a page pays    *)
(* for itself and for each account it lists, and a new work for the next   *)
(* page of the feed it was in.                                             *)
(*                                                                         *)
(* And NothingLostSilently of CommentPages, for any pages of comments and  *)
(* replies, any limits and any number of interruptions: what is in hand    *)
(* only grows; the pages before the marker are in it; each comment in it   *)
(* has its replies, or as many as may be, or is still to be asked for; and *)
(* a checkpoint holds what a later collector needs to have the same again. *)
(***************************************************************************)
EXTENDS PocBridge, WorkSearch, CommentPages, FiniteSetTheorems, SequenceTheorems, WellFoundedInduction, TLAPS

InFlight == {"enrolled", "writing", "written", "waiting"}
ReaderType == [at : {"none", "reading", "delivering", "refusing", "ponging", "ending", "gone"},
               id : 0..MaxCalls]
CallerType == [at : {"login", "idle", "enrolled", "writing", "written", "waiting", "leaving",
                     "context", "failed", "done"},
               id : 0..MaxCalls, via : Sockets \cup {NoPage},
               outcome : {"none", "answer", "target", "error"}, retried : BOOLEAN]

\* The readers: only the attached page has one, and it has one.
ReaderInv ==
  /\ attached # NoPage => reader[attached].at \notin {"none", "gone"}
  /\ \A p \in Sockets :
       /\ reader[p].at \notin {"none", "gone"} => attached = p
       /\ pageSocket[p] = "open" => attached = p
       /\ pageSocket[p] = "new" => reader[p].at = "none" /\ sentTo[p] = {}
       /\ reader[p].at = "delivering" => reader[p].id \in 1..caller.id

\* The calls: nothing is known of one that has not been made, and one without a
\* result is pending for the page that is attached.
CallerInv ==
  /\ pending \subseteq 1..caller.id
  /\ \A id \in CallIds : id > caller.id => slot[id] = "empty"
  /\ caller.at \in InFlight =>
       /\ caller.id \in CallIds /\ caller.via \in Sockets /\ pageSocket[caller.via] # "new"
       /\ slot[caller.id] = "empty" => caller.id \in pending /\ ~closed /\ attached = caller.via

\* Who sleeps until the state changes has something to wait for.
SleepInv ==
  \A w \in Waiters : waiter[w] = "asleep" => ~closed /\ ~(attached # NoPage /\ usable)

\* What a page that has done nothing wrong was sent is the call in progress,
\* and the channel is empty for its answer until that is delivered.
HonestInv ==
  \A p \in Sockets : pageSocket[p] = "open" /\ p \notin faulty /\ ~interrupted /\ ~closed =>
    /\ \A id \in sentTo[p] : /\ id = caller.id /\ caller.at \in {"written", "waiting"}
                             /\ caller.via = p /\ slot[id] = "empty" /\ id \in pending
    /\ caller.at \in {"enrolled", "writing"} /\ caller.via = p =>
         slot[caller.id] = "empty" /\ ~(reader[p].at = "delivering" /\ reader[p].id = caller.id)
    /\ reader[p].at = "delivering" => slot[reader[p].id] = "empty" /\ reader[p].id \notin sentTo[p]
    /\ reader[p].at # "refusing"

Inv == BridgeTypeOK /\ ReaderInv /\ CallerInv /\ SleepInv /\ HonestInv

\* A reader that moves, a call that does, and the types under their names.
LEMMA ReaderMoves ==
  ASSUME reader \in [Sockets -> ReaderType], NEW p \in Sockets,
         NEW at \in {"none", "reading", "delivering", "refusing", "ponging", "ending", "gone"}
  PROVE  [reader EXCEPT ![p].at = at] \in [Sockets -> ReaderType]
<1>1. [reader[p] EXCEPT !.at = at] \in ReaderType
  BY DEF ReaderType
<1> QED BY <1>1

LEMMA CallerMoves ==
  ASSUME caller \in CallerType,
         NEW at \in {"login", "idle", "enrolled", "writing", "written", "waiting", "leaving", "context",
                     "failed", "done"},
         NEW outcome \in {"none", "answer", "target", "error"}, NEW retried \in BOOLEAN
  PROVE  /\ [caller EXCEPT !.at = at] \in CallerType
         /\ [caller EXCEPT !.at = at, !.outcome = outcome] \in CallerType
         /\ [caller EXCEPT !.at = at, !.retried = retried] \in CallerType
         /\ [caller EXCEPT !.at = at, !.via = NoPage, !.retried = retried] \in CallerType
BY DEF CallerType

\* What else such a step leaves as it was.
LEMMA CallerFields ==
  ASSUME caller \in CallerType, NEW at, NEW outcome,
         \/ caller' = [caller EXCEPT !.at = at]
         \/ caller' = [caller EXCEPT !.at = at, !.outcome = outcome]
  PROVE  caller'.at = at /\ caller'.id = caller.id /\ caller'.via = caller.via
BY DEF CallerType

LEMMA InvTypes == BridgeTypeOK <=>
  /\ attached \in Sockets \cup {NoPage} /\ usable \in BOOLEAN /\ closed \in BOOLEAN
  /\ pending \subseteq CallIds /\ slot \in [CallIds -> {"empty", "answer", "target", "error"}]
  /\ pageSocket \in [Sockets -> {"new", "open", "shut"}]
  /\ reader \in [Sockets -> ReaderType]
  /\ writing \in Sockets \cup {NoPage, "caller"}
  /\ caller \in CallerType
  /\ waiter \in [Waiters -> {"unborn", "looking", "asleep", "ready", "failed"}]
  /\ interrupted \in BOOLEAN /\ reports \in 0..MaxReports
  /\ sentTo \in [Sockets -> SUBSET CallIds] /\ faulty \subseteq Sockets
BY DEF BridgeTypeOK, ReaderType, CallerType

LEMMA NextTypes == BridgeTypeOK' <=>
  /\ attached' \in Sockets \cup {NoPage} /\ usable' \in BOOLEAN /\ closed' \in BOOLEAN
  /\ pending' \subseteq CallIds /\ slot' \in [CallIds -> {"empty", "answer", "target", "error"}]
  /\ pageSocket' \in [Sockets -> {"new", "open", "shut"}]
  /\ reader' \in [Sockets -> ReaderType]
  /\ writing' \in Sockets \cup {NoPage, "caller"}
  /\ caller' \in CallerType
  /\ waiter' \in [Waiters -> {"unborn", "looking", "asleep", "ready", "failed"}]
  /\ interrupted' \in BOOLEAN /\ reports' \in 0..MaxReports
  /\ sentTo' \in [Sockets -> SUBSET CallIds] /\ faulty' \subseteq Sockets
BY DEF BridgeTypeOK, ReaderType, CallerType

LEMMA InitInv == BridgeInit => Inv
<1> SUFFICES ASSUME BridgeInit PROVE Inv
  OBVIOUS
<1> USE PocBridgeAssumption DEF BridgeInit, NoCall, CallIds, Waiters
<1>1. reader \in [Sockets -> ReaderType] /\ caller \in CallerType
  BY DEF ReaderType, CallerType
<1>2. waiter \in [Waiters -> {"unborn", "looking", "asleep", "ready", "failed"}]
  OBVIOUS
<1>3. BridgeTypeOK
  <2>1. sentTo \in [Sockets -> SUBSET CallIds] /\ slot \in [CallIds -> {"empty", "answer", "target", "error"}]
    OBVIOUS
  <2>2. pageSocket \in [Sockets -> {"new", "open", "shut"}] /\ reports \in 0..MaxReports
    OBVIOUS
  <2>3. attached = NoPage /\ writing = NoPage /\ pending = {} /\ faulty = {}
        /\ usable = FALSE /\ closed = FALSE /\ interrupted = FALSE
    OBVIOUS
  <2> HIDE DEF BridgeInit, NoCall, CallIds, Waiters
  <2> QED BY <1>1, <1>2, <2>1, <2>2, <2>3, InvTypes
<1>4. ReaderInv
  BY DEF ReaderInv
<1>5. CallerInv
  BY DEF CallerInv, InFlight
<1>6. SleepInv
  BY DEF SleepInv
<1>7. HonestInv
  BY DEF HonestInv
<1> QED BY <1>3, <1>4, <1>5, <1>6, <1>7 DEF Inv

\* A page, and its reader up to the answer.
LEMMA PageKeepsInv ==
  ASSUME Inv, NEW p \in Sockets, \/ PageConnects(p)
         \/ PageLeaves(p)
         \/ PageReports(p)
         \/ ReaderGetsPing(p)
         \/ ReaderSendsPong(p)
         \/ ReaderFails(p)
  PROVE  Inv'
<1> USE PocBridgeAssumption DEF CallIds, Waiters
<1>1. CASE PageConnects(p)
  <2>1. /\ pageSocket[p] = "new"
        /\ UNCHANGED <<closed, pending, slot, writing, caller, interrupted, reports, sentTo, faulty>>
    BY <1>1 DEF PageConnects, Signal, ReaderAt, Inv, BridgeTypeOK, ReaderInv, CallerInv, InFlight
  <2>2. \/ /\ pageSocket' = [pageSocket EXCEPT ![p] = "shut"] /\ UNCHANGED <<attached, usable, reader, waiter>>
        \/ /\ pageSocket' = [pageSocket EXCEPT ![p] = "open"] /\ ~closed /\ attached = NoPage
           /\ attached' = p /\ usable' = FALSE /\ reader' = [reader EXCEPT ![p].at = "reading"]
    BY <1>1 DEF PageConnects, Signal, ReaderAt, Inv, BridgeTypeOK, ReaderInv, CallerInv, InFlight
  <2>3. waiter' \in [Waiters -> {"unborn", "looking", "asleep", "ready", "failed"}]
    BY <1>1 DEF PageConnects, Signal, ReaderAt, Inv, BridgeTypeOK, ReaderInv, CallerInv, InFlight
  <2>4. reader' \in [Sockets -> ReaderType]
    <3>0. reader \in [Sockets -> ReaderType]
      BY InvTypes DEF Inv
    <3>1. CASE reader' = reader
      BY <3>1, <3>0, ReaderMoves
    <3>2. CASE reader' = [reader EXCEPT ![p].at = "reading"]
      BY <3>2, <3>0, ReaderMoves
    <3> QED BY <2>1, <2>2, <3>1, <3>2
  <2>5. BridgeTypeOK'
    <3>1. /\ attached' \in Sockets \cup {NoPage} /\ usable' \in BOOLEAN
          /\ pageSocket' \in [Sockets -> {"new", "open", "shut"}]
      BY <2>1, <2>2, InvTypes DEF Inv
    <3> QED BY <2>1, <2>3, <2>4, <3>1, InvTypes, NextTypes DEF Inv
  <2>6. ReaderInv'
    BY <2>1, <2>2, <2>3, <2>4 DEF Inv, BridgeTypeOK, ReaderInv
  <2>7. CallerInv'
    BY <2>1, <2>2, <2>3, <2>4 DEF Inv, BridgeTypeOK, ReaderInv, CallerInv, InFlight
  <2>8. SleepInv'
    BY <2>1, <2>2, <2>3, <2>4 DEF Inv, BridgeTypeOK, SleepInv
  <2>9. HonestInv'
    BY <2>1, <2>2, <2>3, <2>4 DEF Inv, BridgeTypeOK, ReaderInv, CallerInv, HonestInv, InFlight
  <2> QED BY <2>5, <2>6, <2>7, <2>8, <2>9 DEF Inv
<1>2. CASE PageLeaves(p)
  <2>1. BridgeTypeOK'
    BY <1>2 DEF PageLeaves, Inv, BridgeTypeOK
  <2>2. ReaderInv'
    BY <1>2 DEF PageLeaves, Inv, BridgeTypeOK, ReaderInv
  <2>3. CallerInv'
    BY <1>2 DEF PageLeaves, Inv, BridgeTypeOK, ReaderInv, CallerInv, InFlight
  <2>4. SleepInv'
    BY <1>2 DEF PageLeaves, Inv, BridgeTypeOK, SleepInv
  <2>5. HonestInv'
    BY <1>2 DEF PageLeaves, Inv, BridgeTypeOK, ReaderInv, CallerInv, HonestInv, InFlight
  <2> QED BY <2>1, <2>2, <2>3, <2>4, <2>5 DEF Inv
<1>3. CASE PageReports(p)
  <2>1. BridgeTypeOK'
    BY <1>3 DEF PageReports, Reads, StateChanges, Signal, Inv, BridgeTypeOK
  <2>2. ReaderInv'
    BY <1>3 DEF PageReports, Reads, StateChanges, Signal, Inv, BridgeTypeOK, ReaderInv
  <2>3. CallerInv'
    BY <1>3 DEF PageReports, Reads, StateChanges, Signal, Inv, BridgeTypeOK, ReaderInv, CallerInv, InFlight
  <2>4. SleepInv'
    BY <1>3 DEF PageReports, Reads, StateChanges, Signal, Inv, BridgeTypeOK, SleepInv
  <2>5. HonestInv'
    BY <1>3 DEF PageReports, Reads, StateChanges, Signal, Inv, BridgeTypeOK, ReaderInv, CallerInv, HonestInv, InFlight
  <2> QED BY <2>1, <2>2, <2>3, <2>4, <2>5 DEF Inv
<1>4. CASE ReaderGetsPing(p)
  <2>1. /\ reader[p].at = "reading" /\ reader' = [reader EXCEPT ![p].at = "ponging"]
        /\ UNCHANGED <<attached, usable, closed, pending, slot, pageSocket, writing, caller, waiter,
                       interrupted, reports, sentTo, faulty>>
    BY <1>4 DEF ReaderGetsPing, Reads, ReaderAt, Inv, BridgeTypeOK, ReaderInv, CallerInv, InFlight
  <2>2. reader' \in [Sockets -> ReaderType]
    <3>0. reader \in [Sockets -> ReaderType]
      BY InvTypes DEF Inv
    <3> QED BY <2>1, <3>0, ReaderMoves
  <2>3. BridgeTypeOK'
    BY <2>1, <2>2, InvTypes, NextTypes DEF Inv
  <2>4. ReaderInv'
    BY <2>1, <2>2 DEF Inv, BridgeTypeOK, ReaderInv
  <2>5. CallerInv'
    BY <2>1, <2>2 DEF Inv, BridgeTypeOK, ReaderInv, CallerInv, InFlight
  <2>6. SleepInv'
    BY <2>1, <2>2 DEF Inv, BridgeTypeOK, SleepInv
  <2>7. HonestInv'
    BY <2>1, <2>2 DEF Inv, BridgeTypeOK, ReaderInv, CallerInv, HonestInv, InFlight
  <2> QED BY <2>3, <2>4, <2>5, <2>6, <2>7 DEF Inv
<1>5. CASE ReaderSendsPong(p)
  <2>1. /\ reader[p].at = "ponging"
        /\ UNCHANGED <<attached, usable, closed, pending, slot, pageSocket, caller, waiter, interrupted,
                       reports, sentTo, faulty>>
    BY <1>5 DEF ReaderSendsPong, ReaderAt, Inv, BridgeTypeOK, ReaderInv, CallerInv, InFlight
  <2>2. \/ reader' = reader
        \/ \E at \in {"ending", "reading"} : reader' = [reader EXCEPT ![p].at = at]
    BY <1>5 DEF ReaderSendsPong, ReaderAt, Inv, BridgeTypeOK, ReaderInv, CallerInv, InFlight
  <2>3. writing' \in Sockets \cup {NoPage, "caller"}
    BY <1>5 DEF ReaderSendsPong, ReaderAt, Inv, BridgeTypeOK, ReaderInv, CallerInv, InFlight
  <2>4. reader' \in [Sockets -> ReaderType]
    <3>0. reader \in [Sockets -> ReaderType]
      BY InvTypes DEF Inv
    <3>1. ASSUME NEW at \in {"ending", "reading"}, reader' = [reader EXCEPT ![p].at = at]
          PROVE  reader' \in [Sockets -> ReaderType]
      BY <3>1, <3>0, ReaderMoves
    <3> QED BY <2>2, <3>1, <3>0
  <2>5. /\ reader'[p].at \in {"ending", "reading", "ponging"}
        /\ \A q \in Sockets : q # p => reader'[q] = reader[q]
    BY <2>1, <2>2 DEF Inv, BridgeTypeOK
  <2>6. BridgeTypeOK'
    BY <2>1, <2>2, <2>3, <2>4, <2>5, InvTypes, NextTypes DEF Inv
  <2>7. ReaderInv'
    BY <2>1, <2>4, <2>5, InvTypes DEF Inv, ReaderInv
  <2>8. CallerInv'
    BY <2>1, <2>2, <2>3, <2>4, <2>5 DEF Inv, BridgeTypeOK, ReaderInv, CallerInv, InFlight
  <2>9. SleepInv'
    BY <2>1, <2>2, <2>3, <2>4, <2>5 DEF Inv, BridgeTypeOK, SleepInv
  <2>10. HonestInv'
    BY <2>1, <2>4, <2>5, InvTypes DEF Inv, ReaderInv, CallerInv, HonestInv, InFlight
  <2> QED BY <2>6, <2>7, <2>8, <2>9, <2>10 DEF Inv
<1>6. CASE ReaderFails(p)
  <2>1. BridgeTypeOK'
    BY <1>6, InvTypes, NextTypes, ReaderMoves DEF ReaderFails, ReaderAt, Inv
  <2>2. ReaderInv'
    BY <1>6 DEF ReaderFails, ReaderAt, Inv, BridgeTypeOK, ReaderInv
  <2>3. CallerInv'
    BY <1>6 DEF ReaderFails, ReaderAt, Inv, BridgeTypeOK, ReaderInv, CallerInv, InFlight
  <2>4. SleepInv'
    BY <1>6 DEF ReaderFails, ReaderAt, Inv, BridgeTypeOK, SleepInv
  <2>5. HonestInv'
    BY <1>6 DEF ReaderFails, ReaderAt, Inv, BridgeTypeOK, ReaderInv, CallerInv, HonestInv, InFlight
  <2> QED BY <2>1, <2>2, <2>3, <2>4, <2>5 DEF Inv
<1> QED BY <1>1, <1>2, <1>3, <1>4, <1>5, <1>6

\* The answers of a page, and its end.
LEMMA ReaderKeepsInv ==
  ASSUME Inv, NEW p \in Sockets, \/ ReaderDelivers(p)
         \/ ReaderRefuses(p)
         \/ ReaderEnds(p)
         \/ (\E id \in CallIds : PageAnswers(p, id))
  PROVE  Inv'
<1> USE PocBridgeAssumption DEF CallIds, Waiters
<1>1. CASE ReaderDelivers(p)
  <2>1. /\ reader[p].at = "delivering" /\ reader[p].id \in 1..caller.id /\ reader[p].id \in CallIds
        /\ UNCHANGED <<attached, usable, closed, pending, pageSocket, writing, caller, waiter,
                       interrupted, reports, sentTo, faulty>>
    BY <1>1 DEF ReaderDelivers, ReaderAt, Inv, BridgeTypeOK, ReaderInv, CallerInv, InFlight
  <2>2. \/ /\ slot[reader[p].id] = "empty" /\ reader' = [reader EXCEPT ![p] = [at |-> "reading", id |-> 0]]
           /\ \E answer \in {"answer", "target", "error"} : slot' = [slot EXCEPT ![reader[p].id] = answer]
        \/ /\ slot[reader[p].id] # "empty" /\ reader' = [reader EXCEPT ![p].at = "refusing"] /\ slot' = slot
    BY <1>1 DEF ReaderDelivers, ReaderAt, Inv, BridgeTypeOK, ReaderInv, CallerInv, InFlight
  <2>3. reader' \in [Sockets -> ReaderType]
    <3>0. reader \in [Sockets -> ReaderType]
      BY InvTypes DEF Inv
    <3>3. [at |-> "reading", id |-> 0] \in ReaderType
      BY PocBridgeAssumption DEF ReaderType
    <3>1. CASE reader' = [reader EXCEPT ![p] = [at |-> "reading", id |-> 0]]
      BY <3>1, <3>3, <3>0
    <3>2. CASE reader' = [reader EXCEPT ![p].at = "refusing"]
      BY <3>2, <3>0, ReaderMoves
    <3> QED BY <2>2, <3>1, <3>2
  <2>4. slot' \in [CallIds -> {"empty", "answer", "target", "error"}]
    <3>1. slot \in [CallIds -> {"empty", "answer", "target", "error"}]
      BY InvTypes DEF Inv
    <3>2. CASE \E answer \in {"answer", "target", "error"} : slot' = [slot EXCEPT ![reader[p].id] = answer]
      BY <3>1, <3>2
    <3> QED BY <2>2, <3>1, <3>2
  <2>5. /\ \A q \in Sockets : q # p => reader'[q] = reader[q]
        /\ reader'[p].at \in {"reading", "refusing"}
        /\ reader'[p].at = "refusing" => slot[reader[p].id] # "empty"
        /\ \A id \in CallIds : id # reader[p].id => slot'[id] = slot[id]
        /\ slot[reader[p].id] = "empty" => slot'[reader[p].id] # "empty"
        /\ slot[reader[p].id] # "empty" => slot' = slot
    <3>1. reader \in [Sockets -> ReaderType] /\ slot \in [CallIds -> {"empty", "answer", "target", "error"}]
      BY InvTypes DEF Inv
    <3>2. reader[p] \in ReaderType
      BY <3>1
    <3>3. CASE slot[reader[p].id] = "empty"
      BY <2>1, <2>2, <3>1, <3>3
    <3>4. CASE slot[reader[p].id] # "empty"
      BY <2>1, <2>2, <3>1, <3>2, <3>4 DEF ReaderType
    <3> QED BY <3>3, <3>4
  <2>6. BridgeTypeOK'
    BY <2>1, <2>3, <2>4, InvTypes, NextTypes DEF Inv
  <2>0. attached = p /\ p # NoPage /\ \A q \in Sockets : pageSocket[q] = "open" => q = p
    BY <2>1 DEF Inv, ReaderInv
  <2>7. ReaderInv'
    <3>1. ASSUME NEW q \in Sockets
          PROVE  /\ reader'[q].at \notin {"none", "gone"} => attached = q
                 /\ pageSocket[q] = "open" => attached = q
                 /\ pageSocket[q] = "new" => reader'[q].at = "none" /\ sentTo[q] = {}
                 /\ reader'[q].at = "delivering" => reader'[q].id \in 1..caller.id
      <4>1. CASE q = p
        BY <4>1, <2>0, <2>1, <2>5 DEF Inv, ReaderInv
      <4>2. CASE q # p
        BY <4>2, <2>5 DEF Inv, ReaderInv
      <4> QED BY <4>1, <4>2
    <3>2. attached # NoPage => reader'[attached].at \notin {"none", "gone"}
      BY <2>0, <2>5
    <3> QED BY <2>1, <3>1, <3>2 DEF ReaderInv
  <2>8. CallerInv'
    <3>1. caller.id \in Nat
      BY InvTypes DEF Inv, CallerType
    <3>2. \A id \in CallIds : id > caller.id => slot'[id] = "empty"
      BY <2>1, <2>5, <3>1 DEF Inv, CallerInv
    <3> QED BY <2>1, <2>5, <3>2 DEF Inv, CallerInv
  <2>9. SleepInv'
    BY <2>1 DEF Inv, SleepInv
  <2>10. HonestInv'
    <3> SUFFICES ASSUME pageSocket[p] = "open", p \notin faulty, ~interrupted, ~closed
                 PROVE  /\ \A id \in sentTo[p] : /\ id = caller.id /\ caller.at \in {"written", "waiting"}
                                                 /\ caller.via = p /\ slot'[id] = "empty" /\ id \in pending
                        /\ caller.at \in {"enrolled", "writing"} /\ caller.via = p => slot'[caller.id] = "empty"
                        /\ reader'[p].at = "reading"
      BY <2>0, <2>1 DEF HonestInv
    <3>1. /\ \A id \in sentTo[p] : /\ id = caller.id /\ caller.at \in {"written", "waiting"}
                                   /\ caller.via = p /\ slot[id] = "empty" /\ id \in pending
          /\ caller.at \in {"enrolled", "writing"} /\ caller.via = p =>
               slot[caller.id] = "empty" /\ reader[p].id # caller.id /\ caller.id \in CallIds
          /\ slot[reader[p].id] = "empty" /\ reader[p].id \notin sentTo[p]
      BY <2>1 DEF Inv, HonestInv, CallerInv, InFlight
    <3>2. sentTo[p] \subseteq CallIds
      BY InvTypes DEF Inv
    <3> QED BY <2>5, <3>1, <3>2
  <2> QED BY <2>6, <2>7, <2>8, <2>9, <2>10 DEF Inv
<1>2. CASE ReaderRefuses(p)
  <2>1. BridgeTypeOK'
    BY <1>2 DEF ReaderRefuses, Reads, Inv, BridgeTypeOK
  <2>2. ReaderInv'
    BY <1>2 DEF ReaderRefuses, Reads, Inv, BridgeTypeOK, ReaderInv
  <2>3. CallerInv'
    BY <1>2 DEF ReaderRefuses, Reads, Inv, BridgeTypeOK, ReaderInv, CallerInv, InFlight
  <2>4. SleepInv'
    BY <1>2 DEF ReaderRefuses, Reads, Inv, BridgeTypeOK, SleepInv
  <2>5. HonestInv'
    BY <1>2 DEF ReaderRefuses, Reads, Inv, BridgeTypeOK, ReaderInv, CallerInv, HonestInv, InFlight
  <2> QED BY <2>1, <2>2, <2>3, <2>4, <2>5 DEF Inv
<1>3. CASE ReaderEnds(p)
  <2>1. /\ reader[p].at = "ending" /\ attached = p /\ attached' = NoPage /\ usable' = FALSE
        /\ pageSocket' = [pageSocket EXCEPT ![p] = "shut"] /\ reader' = [reader EXCEPT ![p].at = "gone"]
        /\ UNCHANGED <<closed, writing, caller, interrupted, reports, sentTo, faulty>>
    BY <1>3 DEF ReaderEnds, Detach, Signal, FailPending, ReaderAt, Inv, BridgeTypeOK, ReaderInv, CallerInv, InFlight
  <2>2. /\ slot' = [id \in CallIds |-> IF id \in pending /\ slot[id] = "empty" THEN "error" ELSE slot[id]]
        /\ pending' = {}
        /\ waiter' = [w \in Waiters |-> IF waiter[w] = "asleep" THEN "looking" ELSE waiter[w]]
    BY <1>3 DEF ReaderEnds, Detach, Signal, FailPending, ReaderAt, Inv, BridgeTypeOK, ReaderInv, CallerInv, InFlight
  <2>3. reader' \in [Sockets -> ReaderType]
    <3>0. reader \in [Sockets -> ReaderType]
      BY InvTypes DEF Inv
    <3> QED BY <2>1, <3>0, ReaderMoves
  <2>4. slot' \in [CallIds -> {"empty", "answer", "target", "error"}]
    BY <1>3 DEF ReaderEnds, Detach, Signal, FailPending, ReaderAt, Inv, BridgeTypeOK, ReaderInv, CallerInv, InFlight
  <2>5. BridgeTypeOK'
    BY <2>1, <2>2, <2>3, <2>4, InvTypes, NextTypes DEF Inv
  <2>6. ReaderInv'
    BY <2>1, <2>2, <2>3, <2>4 DEF Inv, BridgeTypeOK, ReaderInv
  <2>7. CallerInv'
    BY <2>1, <2>2, <2>3, <2>4 DEF Inv, BridgeTypeOK, ReaderInv, CallerInv, InFlight
  <2>8. SleepInv'
    BY <2>1, <2>2, <2>3, <2>4 DEF Inv, BridgeTypeOK, SleepInv
  <2>9. HonestInv'
    BY <2>1, <2>2, <2>3, <2>4 DEF Inv, BridgeTypeOK, ReaderInv, CallerInv, HonestInv, InFlight
  <2> QED BY <2>5, <2>6, <2>7, <2>8, <2>9 DEF Inv
<1>4. ASSUME NEW id \in CallIds, PageAnswers(p, id)
      PROVE  Inv'
  <2>1. /\ reader[p].at = "reading" /\ pageSocket[p] = "open" /\ attached = p
        /\ UNCHANGED <<attached, usable, closed, pending, slot, pageSocket, writing, caller, waiter,
                       interrupted, reports>>
    BY <1>4 DEF PageAnswers, Reads, Inv, BridgeTypeOK, ReaderInv, CallerInv, InFlight
  <2>2. /\ faulty' = IF id \in sentTo[p] THEN faulty ELSE faulty \cup {p}
        /\ sentTo' = [sentTo EXCEPT ![p] = @ \ {id}]
    BY <1>4 DEF PageAnswers, Reads, Inv, BridgeTypeOK, ReaderInv, CallerInv, InFlight
  <2>3. \/ id \in pending /\ id \in 1..caller.id /\ reader' = [reader EXCEPT ![p] = [at |-> "delivering", id |-> id]]
        \/ id \notin pending /\ reader' = [reader EXCEPT ![p] = [at |-> "refusing", id |-> id]]
    BY <1>4 DEF PageAnswers, Reads, Inv, BridgeTypeOK, ReaderInv, CallerInv, InFlight
  <2>4. reader' \in [Sockets -> ReaderType]
    BY <1>4, <2>1, <2>2, <2>3 DEF PageAnswers, Reads, Inv, BridgeTypeOK, ReaderType, CallerType
  <2>5. /\ reader'[p].id = id /\ reader'[p].at \in {"delivering", "refusing"}
        /\ reader'[p].at = "delivering" => id \in 1..caller.id
        /\ \A q \in Sockets : q # p => reader'[q] = reader[q]
        /\ \A q \in Sockets : q # p => sentTo'[q] = sentTo[q]
    BY <2>2, <2>3 DEF Inv, BridgeTypeOK
  <2>6. BridgeTypeOK'
    BY <2>1, <2>2, <2>3, <2>4, <2>5, InvTypes, NextTypes DEF Inv
  <2>7. ReaderInv'
    BY <2>1, <2>4, <2>5 DEF Inv, BridgeTypeOK, ReaderInv
  <2>8. CallerInv'
    BY <2>1, <2>2, <2>3, <2>4, <2>5 DEF Inv, BridgeTypeOK, ReaderInv, CallerInv, InFlight
  <2>9. SleepInv'
    BY <2>1, <2>2, <2>3, <2>4, <2>5 DEF Inv, BridgeTypeOK, SleepInv
  <2>10. HonestInv'
    BY <2>1, <2>2, <2>3, <2>4, <2>5 DEF Inv, BridgeTypeOK, ReaderInv, CallerInv, HonestInv, InFlight
  <2> QED BY <2>6, <2>7, <2>8, <2>9, <2>10 DEF Inv
<1> QED BY <1>1, <1>2, <1>3, <1>4

\* A call.
LEMMA CallKeepsInv ==
  ASSUME Inv, \/ CallBegins
         \/ CallLocks
         \/ CallReaches
         \/ WriteReturns
         \/ CallWakes
         \/ CallReturns
  PROVE  Inv'
<1> USE PocBridgeAssumption DEF CallIds, Waiters
<1>1. CASE CallBegins
  <2>1. /\ caller.at = "idle" /\ caller.id < MaxCalls /\ caller.id \in Nat
        /\ UNCHANGED <<attached, usable, closed, slot, pageSocket, reader, writing, waiter, interrupted,
                       reports, sentTo, faulty>>
    BY <1>1 DEF CallBegins, Enrols, Inv, BridgeTypeOK, ReaderInv, CallerInv, InFlight
  <2>2. \/ /\ caller'.at = "failed" /\ caller'.id = caller.id /\ pending' = pending
        \/ /\ ~closed /\ attached # NoPage /\ caller'.at = "enrolled" /\ caller'.id = caller.id + 1
           /\ caller'.via = attached /\ pending' = pending \cup {caller.id + 1}
    BY <1>1, InvTypes DEF CallBegins, Enrols, Inv, CallerType
  <2>3. caller.id + 1 \in CallIds
    BY <2>1 DEF Inv, BridgeTypeOK
  <2>4. caller' \in CallerType
    <3>0. caller \in CallerType
      BY InvTypes DEF Inv
    <3>1. CASE caller' = [caller EXCEPT !.at = "failed", !.retried = FALSE]
      BY <3>1, <3>0, CallerMoves
    <3>2. CASE caller' = [caller EXCEPT !.at = "enrolled", !.id = caller.id + 1, !.via = attached,
                                        !.outcome = "none"]
      <4>1. attached \in Sockets \cup {NoPage} /\ caller.id + 1 \in 0..MaxCalls
        BY <2>3 DEF Inv, BridgeTypeOK
      <4> QED BY <3>2, <3>0, <4>1 DEF CallerType
    <3> QED BY <1>1, <3>1, <3>2 DEF CallBegins
  <2>5. BridgeTypeOK'
    BY <2>1, <2>2, <2>3, <2>4, InvTypes, NextTypes DEF Inv
  <2>6. ReaderInv'
    BY <2>1, <2>2, <2>3, <2>4 DEF Inv, BridgeTypeOK, ReaderInv
  <2>7. CallerInv'
    <3>1. caller.id \in Nat /\ pending \subseteq 1..caller.id
      BY <2>1 DEF Inv, CallerInv
    <3>2. ASSUME NEW n \in Nat, NEW m, NEW S, NEW T, S \subseteq 1..n,
                 (T = S /\ m = n) \/ (T = S \cup {n + 1} /\ m = n + 1)
          PROVE  T \subseteq 1..m /\ m >= n
      <4>1. m \in Nat /\ m >= n /\ (T = S \/ (T = S \cup {m} /\ m >= 1))
        BY <3>2
      <4>2. \A x \in T : x \in S \/ (x = m /\ m >= 1)
        BY <4>1
      <4>3. \A x \in 1..n : x \in 1..m
        BY <4>1
      <4>4. ASSUME NEW x \in T PROVE x \in 1..m
        <5>1. CASE x \in S
          BY <3>2, <4>3, <5>1
        <5>2. CASE x = m /\ m >= 1
          BY <4>1, <5>2
        <5> QED BY <4>2, <5>1, <5>2
      <4> QED BY <4>1, <4>4
    <3>3. \/ pending' = pending /\ caller'.id = caller.id
          \/ pending' = pending \cup {caller.id + 1} /\ caller'.id = caller.id + 1
      BY <2>2
    <3>4. pending' \subseteq 1..caller'.id /\ caller'.id >= caller.id
      BY <3>1, <3>2, <3>3, Zenon
    <3>5. \A i \in CallIds : i > caller'.id => slot'[i] = "empty"
      BY <2>1, <2>2, <3>1, <3>4 DEF Inv, CallerInv
    <3>6. caller'.at \in InFlight =>
            /\ caller'.id \in CallIds /\ caller'.via \in Sockets /\ pageSocket'[caller'.via] # "new"
            /\ slot'[caller'.id] = "empty" => caller'.id \in pending' /\ ~closed' /\ attached' = caller'.via
      BY <2>1, <2>2, <2>3 DEF Inv, BridgeTypeOK, ReaderInv, InFlight
    <3> QED BY <3>4, <3>5, <3>6 DEF CallerInv
  <2>8. SleepInv'
    BY <2>1, <2>2, <2>3, <2>4 DEF Inv, BridgeTypeOK, SleepInv
  <2>9. HonestInv'
    BY <2>1, <2>2, <2>3, <2>4 DEF Inv, BridgeTypeOK, ReaderInv, CallerInv, HonestInv, InFlight
  <2> QED BY <2>5, <2>6, <2>7, <2>8, <2>9 DEF Inv
<1>2. CASE CallLocks
  <2>1. /\ caller.at = "enrolled"
        /\ UNCHANGED <<attached, usable, closed, pending, slot, pageSocket, reader, waiter, interrupted,
                       reports, sentTo, faulty>>
    BY <1>2 DEF CallLocks
  <2>2. caller \in CallerType /\ writing \in Sockets \cup {NoPage, "caller"}
    BY InvTypes DEF Inv
  <2>3. /\ caller' \in CallerType /\ caller'.id = caller.id /\ caller'.via = caller.via
        /\ caller'.at \in {"writing", "leaving"} /\ (caller'.at = "leaving" => interrupted)
        /\ writing' \in Sockets \cup {NoPage, "caller"}
    <3>1. CASE writing' = "caller" /\ caller' = [caller EXCEPT !.at = "writing"]
      BY <2>2, <3>1, CallerMoves, CallerFields
    <3>2. CASE interrupted /\ writing' = writing /\ caller' = [caller EXCEPT !.at = "leaving", !.outcome = "error"]
      BY <2>2, <3>2, CallerMoves, CallerFields
    <3> QED BY <1>2, <3>1, <3>2 DEF CallLocks, CallerAt, CallFails
  <2>4. BridgeTypeOK'
    BY <2>1, <2>3, InvTypes, NextTypes DEF Inv
  <2>5. ReaderInv'
    BY <2>1, <2>3 DEF Inv, ReaderInv
  <2>6. CallerInv'
    BY <2>1, <2>3 DEF Inv, CallerInv, InFlight
  <2>7. SleepInv'
    BY <2>1 DEF Inv, SleepInv
  <2>8. HonestInv'
    BY <2>1, <2>3 DEF Inv, HonestInv
  <2> QED BY <2>4, <2>5, <2>6, <2>7, <2>8 DEF Inv
<1>3. CASE CallReaches
  <2>1. /\ caller.at = "writing" /\ caller.via \in Sockets /\ pageSocket[caller.via] = "open" /\ caller.id \in CallIds
        /\ UNCHANGED <<attached, usable, closed, pending, slot, pageSocket, reader, writing, waiter,
                       interrupted, reports, faulty>>
    BY <1>3 DEF CallReaches, CallerAt, Inv, BridgeTypeOK, ReaderInv, CallerInv, InFlight
  <2>2. /\ caller'.at = "written" /\ caller'.id = caller.id /\ caller'.via = caller.via
        /\ sentTo' = [sentTo EXCEPT ![caller.via] = @ \cup {caller.id}]
    BY <1>3 DEF CallReaches, CallerAt, Inv, BridgeTypeOK, ReaderInv, CallerInv, InFlight
  <2>3. caller' \in CallerType
    BY <1>3, <2>1, <2>2 DEF CallReaches, CallerAt, Inv, BridgeTypeOK, ReaderType, CallerType
  <2>4. BridgeTypeOK'
    BY <2>1, <2>2, <2>3, InvTypes, NextTypes DEF Inv
  <2>5. ReaderInv'
    BY <2>1, <2>2, <2>3 DEF Inv, BridgeTypeOK, ReaderInv
  <2>6. CallerInv'
    BY <2>1, <2>2, <2>3 DEF Inv, BridgeTypeOK, ReaderInv, CallerInv, InFlight
  <2>7. SleepInv'
    BY <2>1, <2>2, <2>3 DEF Inv, BridgeTypeOK, SleepInv
  <2>8. HonestInv'
    BY <2>1, <2>2, <2>3 DEF Inv, BridgeTypeOK, ReaderInv, CallerInv, HonestInv, InFlight
  <2> QED BY <2>4, <2>5, <2>6, <2>7, <2>8 DEF Inv
<1>4. CASE WriteReturns
  <2>0. caller \in CallerType
    BY InvTypes DEF Inv
  <2>1. /\ caller.at \in {"writing", "written"} /\ caller.via \in Sockets /\ writing' = NoPage
        /\ UNCHANGED <<attached, usable, closed, pending, slot, reader, waiter, interrupted, reports,
                       sentTo, faulty>>
    BY <1>4 DEF WriteReturns, Inv, CallerInv, InFlight
  <2>2. \/ /\ caller.at = "written" /\ caller' = [caller EXCEPT !.at = "waiting"] /\ pageSocket' = pageSocket
        \/ /\ caller' = [caller EXCEPT !.at = "leaving", !.outcome = "error"]
           /\ pageSocket' = [pageSocket EXCEPT ![caller.via] = "shut"]
    BY <1>4 DEF WriteReturns, CallerAt, CallFails
  <2>3. /\ caller' \in CallerType /\ caller'.id = caller.id /\ caller'.via = caller.via
        /\ \/ caller.at = "written" /\ caller'.at = "waiting" /\ pageSocket' = pageSocket
           \/ caller'.at = "leaving" /\ pageSocket' = [pageSocket EXCEPT ![caller.via] = "shut"]
    BY <2>0, <2>2, CallerMoves, CallerFields
  <2>4. BridgeTypeOK'
    BY <2>1, <2>2, <2>3, InvTypes, NextTypes DEF Inv
  <2>5. ReaderInv'
    BY <2>1, <2>2, <2>3 DEF Inv, BridgeTypeOK, ReaderInv
  <2>6. CallerInv'
    BY <2>1, <2>2, <2>3 DEF Inv, BridgeTypeOK, ReaderInv, CallerInv, InFlight
  <2>7. SleepInv'
    BY <2>1, <2>2, <2>3 DEF Inv, BridgeTypeOK, SleepInv
  <2>8. HonestInv'
    BY <2>1, <2>2, <2>3 DEF Inv, BridgeTypeOK, ReaderInv, CallerInv, HonestInv, InFlight
  <2> QED BY <2>4, <2>5, <2>6, <2>7, <2>8 DEF Inv
<1>5. CASE CallWakes
  <2>1. /\ caller.at = "waiting" /\ caller.id \in CallIds
        /\ UNCHANGED <<attached, usable, closed, pending, pageSocket, reader, writing, waiter,
                       interrupted, reports, sentTo, faulty>>
    BY <1>5 DEF CallWakes, CallFails, Inv, BridgeTypeOK, ReaderInv, CallerInv, InFlight
  <2>2. /\ caller'.at = "leaving" /\ caller'.id = caller.id
        /\ \/ slot[caller.id] # "empty" /\ slot' = [slot EXCEPT ![caller.id] = "empty"]
           \/ interrupted /\ slot' = slot
    BY <1>5, InvTypes DEF CallWakes, CallFails, Inv, CallerType
  <2>3. caller' \in CallerType
    <3>0. caller \in CallerType
      BY InvTypes DEF Inv
    <3>1. slot[caller.id] \in {"empty", "answer", "target", "error"}
      BY <2>1 DEF Inv, BridgeTypeOK
    <3>2. \/ slot[caller.id] # "empty" /\ caller' = [caller EXCEPT !.at = "leaving", !.outcome = slot[caller.id]]
          \/ caller' = [caller EXCEPT !.at = "leaving", !.outcome = "error"]
      BY <1>5 DEF CallWakes, CallFails
    <3> QED BY <3>1, <3>2, <3>0, CallerMoves
  <2>4. slot' \in [CallIds -> {"empty", "answer", "target", "error"}]
    BY <1>5 DEF CallWakes, CallFails, Inv, BridgeTypeOK, ReaderInv, CallerInv, InFlight
  <2>5. BridgeTypeOK'
    BY <2>1, <2>2, <2>3, <2>4, InvTypes, NextTypes DEF Inv
  <2>6. ReaderInv'
    BY <2>1, <2>2, <2>3, <2>4 DEF Inv, BridgeTypeOK, ReaderInv
  <2>7. CallerInv'
    BY <2>1, <2>2, <2>3, <2>4 DEF Inv, BridgeTypeOK, ReaderInv, CallerInv, InFlight
  <2>8. SleepInv'
    BY <2>1, <2>2, <2>3, <2>4 DEF Inv, BridgeTypeOK, SleepInv
  <2>9. HonestInv'
    BY <2>1, <2>2, <2>3, <2>4 DEF Inv, BridgeTypeOK, ReaderInv, CallerInv, HonestInv, InFlight
  <2> QED BY <2>5, <2>6, <2>7, <2>8, <2>9 DEF Inv
<1>6. CASE CallReturns
  <2>1. /\ caller.at = "leaving" /\ pending' = pending \ {caller.id}
        /\ UNCHANGED <<attached, usable, closed, slot, pageSocket, reader, writing, interrupted, reports,
                       sentTo, faulty>>
    BY <1>6 DEF CallReturns, Inv, BridgeTypeOK, ReaderInv, CallerInv, InFlight
  <2>2. caller'.id = caller.id /\ caller'.at \in {"context", "idle", "failed"}
    <3>0. caller \in CallerType
      BY InvTypes DEF Inv
    <3>1. PICK at \in {"context", "idle", "failed"}, retried \in BOOLEAN :
             caller' = [caller EXCEPT !.at = at, !.via = NoPage, !.retried = retried]
      BY <1>6, Zenon DEF CallReturns
    <3> QED BY <3>0, <3>1 DEF CallerType
  <2>3. waiter' = waiter \/ waiter' = [waiter EXCEPT ![caller.id] = "looking"]
    BY <1>6 DEF CallReturns, Inv, BridgeTypeOK, ReaderInv, CallerInv, InFlight
  <2>4. caller' \in CallerType
    <3>0. caller \in CallerType
      BY InvTypes DEF Inv
    <3>1. \/ caller' = [caller EXCEPT !.at = "context", !.via = NoPage, !.retried = TRUE]
          \/ caller' = [caller EXCEPT !.at = "idle", !.via = NoPage, !.retried = FALSE]
          \/ caller' = [caller EXCEPT !.at = "failed", !.via = NoPage, !.retried = FALSE]
      BY <1>6 DEF CallReturns
    <3> QED BY <3>1, <3>0, CallerMoves
  <2>5. BridgeTypeOK'
    BY <2>1, <2>2, <2>3, <2>4, InvTypes, NextTypes DEF Inv
  <2>6. ReaderInv'
    BY <2>1, <2>2, <2>3, <2>4 DEF Inv, BridgeTypeOK, ReaderInv
  <2>7. CallerInv'
    BY <2>1, <2>2, <2>3, <2>4 DEF Inv, BridgeTypeOK, ReaderInv, CallerInv, InFlight
  <2>8. SleepInv'
    BY <2>1, <2>2, <2>3, <2>4 DEF Inv, BridgeTypeOK, SleepInv
  <2>9. HonestInv'
    BY <2>1, <2>2, <2>3, <2>4 DEF Inv, BridgeTypeOK, ReaderInv, CallerInv, HonestInv, InFlight
  <2> QED BY <2>5, <2>6, <2>7, <2>8, <2>9 DEF Inv
<1> QED BY <1>1, <1>2, <1>3, <1>4, <1>5, <1>6

\* Who waits, the collector between its calls, and the end.
LEMMA OthersKeepInv ==
  ASSUME Inv, \/ HumanWaitEnds
         \/ CollectorGoesOn
         \/ Interrupt
         \/ BridgeCloses
         \/ (\E w \in Waiters : WaiterLooks(w))
         \/ (\E w \in Waiters : WaiterInterrupted(w))
  PROVE  Inv'
<1> USE PocBridgeAssumption DEF CallIds, Waiters
<1>1. CASE HumanWaitEnds
  <2>1. /\ caller.at \in {"login", "context"}
        /\ UNCHANGED <<attached, usable, closed, pending, slot, pageSocket, reader, writing, waiter,
                       interrupted, reports, sentTo, faulty>>
    BY <1>1 DEF HumanWaitEnds
  <2>2. caller \in CallerType
    BY InvTypes DEF Inv
  <2>3. PICK at \in {"idle", "done"} : caller' = [caller EXCEPT !.at = at]
    BY <1>1 DEF HumanWaitEnds, CallerAt
  <2>4. caller' \in CallerType /\ caller'.at = at /\ caller'.id = caller.id /\ caller'.via = caller.via
    BY <2>2, <2>3, CallerMoves, CallerFields
  <2>5. BridgeTypeOK'
    BY <2>1, <2>4, InvTypes, NextTypes DEF Inv
  <2>6. ReaderInv'
    BY <2>1, <2>4 DEF Inv, ReaderInv
  <2>7. CallerInv'
    BY <2>1, <2>4 DEF Inv, CallerInv, InFlight
  <2>8. SleepInv'
    BY <2>1 DEF Inv, SleepInv
  <2>9. HonestInv'
    BY <2>1, <2>4 DEF Inv, HonestInv
  <2> QED BY <2>5, <2>6, <2>7, <2>8, <2>9 DEF Inv
<1>2. CASE CollectorGoesOn
  <2>1. /\ caller.at \in {"failed", "idle"}
        /\ UNCHANGED <<attached, usable, closed, pending, slot, pageSocket, reader, writing, waiter,
                       interrupted, reports, sentTo, faulty>>
    BY <1>2 DEF CollectorGoesOn
  <2>2. caller \in CallerType
    BY InvTypes DEF Inv
  <2>3. PICK at \in {"idle", "done"} : caller' = [caller EXCEPT !.at = at]
    BY <1>2 DEF CollectorGoesOn, CallerAt
  <2>4. caller' \in CallerType /\ caller'.at = at /\ caller'.id = caller.id /\ caller'.via = caller.via
    BY <2>2, <2>3, CallerMoves, CallerFields
  <2>5. BridgeTypeOK'
    BY <2>1, <2>4, InvTypes, NextTypes DEF Inv
  <2>6. ReaderInv'
    BY <2>1, <2>4 DEF Inv, ReaderInv
  <2>7. CallerInv'
    BY <2>1, <2>4 DEF Inv, CallerInv, InFlight
  <2>8. SleepInv'
    BY <2>1 DEF Inv, SleepInv
  <2>9. HonestInv'
    BY <2>1, <2>4 DEF Inv, HonestInv
  <2> QED BY <2>5, <2>6, <2>7, <2>8, <2>9 DEF Inv
<1>3. CASE Interrupt
  <2>1. BridgeTypeOK'
    BY <1>3 DEF Interrupt, Inv, BridgeTypeOK
  <2>2. ReaderInv'
    BY <1>3 DEF Interrupt, Inv, BridgeTypeOK, ReaderInv
  <2>3. CallerInv'
    BY <1>3 DEF Interrupt, Inv, BridgeTypeOK, ReaderInv, CallerInv, InFlight
  <2>4. SleepInv'
    BY <1>3 DEF Interrupt, Inv, BridgeTypeOK, SleepInv
  <2>5. HonestInv'
    BY <1>3 DEF Interrupt, Inv, BridgeTypeOK, ReaderInv, CallerInv, HonestInv, InFlight
  <2> QED BY <2>1, <2>2, <2>3, <2>4, <2>5 DEF Inv
<1>4. CASE BridgeCloses
  <2>1. BridgeTypeOK'
    BY <1>4 DEF BridgeCloses, FailPending, Signal, Inv, BridgeTypeOK
  <2>2. ReaderInv'
    BY <1>4 DEF BridgeCloses, FailPending, Signal, Inv, BridgeTypeOK, ReaderInv
  <2>3. CallerInv'
    BY <1>4 DEF BridgeCloses, FailPending, Signal, Inv, BridgeTypeOK, ReaderInv, CallerInv, InFlight
  <2>4. SleepInv'
    BY <1>4 DEF BridgeCloses, FailPending, Signal, Inv, BridgeTypeOK, SleepInv
  <2>5. HonestInv'
    BY <1>4 DEF BridgeCloses, FailPending, Signal, Inv, BridgeTypeOK, ReaderInv, CallerInv, HonestInv, InFlight
  <2> QED BY <2>1, <2>2, <2>3, <2>4, <2>5 DEF Inv
<1>5. ASSUME NEW w \in Waiters, WaiterLooks(w)
      PROVE  Inv'
  <2>1. BridgeTypeOK'
    BY <1>5 DEF WaiterLooks, Inv, BridgeTypeOK
  <2>2. ReaderInv'
    BY <1>5 DEF WaiterLooks, Inv, BridgeTypeOK, ReaderInv
  <2>3. CallerInv'
    BY <1>5 DEF WaiterLooks, Inv, BridgeTypeOK, ReaderInv, CallerInv, InFlight
  <2>4. SleepInv'
    BY <1>5 DEF WaiterLooks, Inv, BridgeTypeOK, SleepInv
  <2>5. HonestInv'
    BY <1>5 DEF WaiterLooks, Inv, BridgeTypeOK, ReaderInv, CallerInv, HonestInv, InFlight
  <2> QED BY <2>1, <2>2, <2>3, <2>4, <2>5 DEF Inv
<1>6. ASSUME NEW w \in Waiters, WaiterInterrupted(w)
      PROVE  Inv'
  <2>1. BridgeTypeOK'
    BY <1>6 DEF WaiterInterrupted, Inv, BridgeTypeOK
  <2>2. ReaderInv'
    BY <1>6 DEF WaiterInterrupted, Inv, BridgeTypeOK, ReaderInv
  <2>3. CallerInv'
    BY <1>6 DEF WaiterInterrupted, Inv, BridgeTypeOK, ReaderInv, CallerInv, InFlight
  <2>4. SleepInv'
    BY <1>6 DEF WaiterInterrupted, Inv, BridgeTypeOK, SleepInv
  <2>5. HonestInv'
    BY <1>6 DEF WaiterInterrupted, Inv, BridgeTypeOK, ReaderInv, CallerInv, HonestInv, InFlight
  <2> QED BY <2>1, <2>2, <2>3, <2>4, <2>5 DEF Inv
<1> QED BY <1>1, <1>2, <1>3, <1>4, <1>5, <1>6

\* The invariant is inductive.
LEMMA StepInv == Inv /\ [BridgeNext]_bridgeVars => Inv'
<1> SUFFICES ASSUME Inv, [BridgeNext]_bridgeVars PROVE Inv'
  OBVIOUS
<1>1. CASE UNCHANGED bridgeVars
  BY <1>1 DEF bridgeVars, Inv, BridgeTypeOK, ReaderInv, CallerInv, SleepInv, HonestInv
<1>2. CASE BridgeNext
  BY <1>2, PageKeepsInv, ReaderKeepsInv, CallKeepsInv, OthersKeepInv DEF BridgeNext
<1> QED BY <1>1, <1>2

LEMMA InvSleepers == Inv => SleepersCanWake
<1> SUFFICES ASSUME Inv PROVE SleepersCanWake
  OBVIOUS
<1>1. ASSUME caller.at = "waiting", slot[caller.id] = "empty"
      PROVE  /\ caller.id \in pending /\ ~closed /\ attached = caller.via
             /\ attached \in Sockets /\ attached # NoPage
  BY <1>1, PocBridgeAssumption DEF Inv, CallerInv, InFlight
<1>2. attached # NoPage => reader[attached].at \notin {"none", "gone"}
  BY DEF Inv, ReaderInv
<1> QED BY <1>1, <1>2 DEF Inv, SleepInv, SleepersCanWake

LEMMA InvHonest == Inv => HonestPageKept
BY DEF Inv, BridgeTypeOK, ReaderInv, HonestInv, HonestPageKept

\* In every behaviour a call that waits (bridge.go has no time limit on it) has
\* its result or a reader that will deliver or fail it, and who waits for the
\* page sleeps only while the page is not ready.
THEOREM SleepersWake == BridgeSpec => [](BridgeTypeOK /\ SleepersCanWake)
<1>1. Inv => BridgeTypeOK /\ SleepersCanWake
  BY InvSleepers DEF Inv
<1> QED BY <1>1, InitInv, StepInv, PTL DEF BridgeSpec

\* In every behaviour a page that answers what it was sent, once, keeps its
\* connection until the run is interrupted or the bridge closed.
THEOREM HonestPagesAreKept == BridgeSpec => []HonestPageKept
<1> QED BY InitInv, StepInv, InvHonest, PTL DEF BridgeSpec

-----------------------------------------------------------------------------
(* WorkSearch.                                                             *)

PageType == [before : 0..WorkLimit, listed : BOOLEAN, accounts : 0..MaxAccounts,
             feedIncomplete : BOOLEAN, marker : Markers]

\* Works of the source, each once, and no more than asked for.
Found(found) == found \in Seq(Works) /\ IsInjective(found) /\ Len(found) <= WorkLimit

\* Each page has been paid for with a call for itself and one for each account it
\* listed, those not asked for yet included; each call beyond them brought a work.
Owed == IF search = "feeds" THEN page.accounts ELSE 0
SearchInv ==
  /\ search \in {"off", "paging", "feeds", "retrying", "over"}
  /\ Found(works) /\ Found(searchPoint.works)
  /\ pages \in 0..MaxPages /\ page \in PageType /\ calls \in Nat
  /\ idlePages \in 0..NoProgressCap
  /\ search \in {"paging", "feeds"} => idlePages < NoProgressCap
  /\ result \in {"none", "target_met", "source_exhausted", "incomplete", "failed"}
  /\ searchPoint \in [phase : {"none", "search", "search_complete", "search_incomplete"}, works : Seq(Works)]
  /\ tries \in 0..MaxTries
  /\ calls + Owed <= pages * (1 + MaxAccounts) + Len(works)
  /\ search = "over" /\ result = "target_met" => Len(works) = WorkLimit

LEMMA SearchInitInv == SearchInit => SearchInv
<1> SUFFICES ASSUME SearchInit PROVE SearchInv
  OBVIOUS
<1>1. Found(<<>>)
  BY WorkSearchAssumption DEF Found, IsInjective
<1>2. EmptyPage \in PageType
  BY WorkSearchAssumption DEF EmptyPage, PageType, Markers
<1> QED BY <1>1, <1>2, WorkSearchAssumption DEF SearchInit, SearchInv, Owed

\* A page adds works, none of them twice and none beyond the limit.
LEMMA AcceptsAdds ==
  ASSUME Found(works), NEW shown \in SUBSET Works, Accepts(shown)
  PROVE  Found(works') /\ Len(works) <= Len(works')
<1> DEFINE S == shown \ ToSet(works)
           n == Cardinality(S)
           room == WorkLimit - Len(works)
<1>1. PICK order \in SetToSeqs(S) :
        works' = works \o SubSeq(order, 1, IF Len(order) < room THEN Len(order) ELSE room)
  BY DEF Accepts
<1>2. n \in Nat
  BY WorkSearchAssumption, FS_Subset, FS_CardinalityType
<1>3. order \in [1..n -> S] /\ \A i, j \in 1..n : i # j => order[i] # order[j]
  BY DEF SetToSeqs
<1>4. /\ works \in Seq(Works) /\ Len(works) \in Nat /\ Len(works) <= WorkLimit /\ WorkLimit \in Nat
      /\ room \in Nat
  BY WorkSearchAssumption DEF Found
<1>5. S \subseteq Works /\ \A i \in 1..Len(works) : works[i] \notin S
  BY <1>4 DEF ToSet
<1>6. \A i, j \in 1..Len(works) : works[i] = works[j] => i = j
  BY <1>4 DEF Found, IsInjective
<1> HIDE DEF S, n
<1>7. order \in Seq(Works) /\ Len(order) = n
  BY <1>2, <1>3, <1>5
<1> DEFINE k == IF Len(order) < room THEN Len(order) ELSE room
           more == SubSeq(order, 1, k)
<1>8. k \in 0..n /\ Len(works) + k <= WorkLimit
  BY <1>2, <1>4, <1>7
<1> HIDE DEF k, room
<1>9. more \in Seq(Works) /\ Len(more) = k /\ \A i \in 1..k : more[i] = order[i]
  BY <1>2, <1>7, <1>8
<1> HIDE DEF more
<1>10. works' = works \o more
  BY <1>1 DEF k, more
<1>11. /\ works' \in Seq(Works) /\ Len(works') = Len(works) + k
       /\ \A i \in 1..Len(works) : works'[i] = works[i]
       /\ \A i \in Len(works) + 1..Len(works) + k : works'[i] = more[i - Len(works)]
  <2>1. /\ works \o more \in Seq(Works) /\ Len(works \o more) = Len(works) + Len(more)
        /\ \A i \in 1..Len(works) + Len(more) :
             (works \o more)[i] = IF i <= Len(works) THEN works[i] ELSE more[i - Len(works)]
    BY <1>4, <1>9, ConcatProperties, Zenon
  <2> HIDE DEF k
  <2>2. works' \in Seq(Works) /\ Len(works') = Len(works) + k
    BY <1>9, <1>10, <2>1
  <2>3. \A i \in 1..Len(works) : works'[i] = works[i]
    BY <1>2, <1>4, <1>8, <1>9, <1>10, <2>1
  <2>4. \A i \in Len(works) + 1..Len(works) + k : works'[i] = more[i - Len(works)]
    BY <1>2, <1>4, <1>8, <1>9, <1>10, <2>1
  <2> QED BY <2>2, <2>3, <2>4
<1>12. ASSUME NEW i \in 1..Len(works) + k, NEW j \in 1..Len(works) + k, works'[i] = works'[j]
       PROVE  i = j
  <2>1. \A h \in 1..k : more[h] \in S
    BY <1>2, <1>3, <1>8, <1>9
  <2>2. \A g, h \in 1..k : more[g] = more[h] => g = h
    BY <1>2, <1>3, <1>8, <1>9
  <2>3. CASE i <= Len(works) /\ j <= Len(works)
    BY <1>4, <1>6, <1>8, <1>11, <1>12, <2>3
  <2>4. CASE i > Len(works) /\ j > Len(works)
    <3>1. i - Len(works) \in 1..k /\ j - Len(works) \in 1..k
      BY <1>2, <1>4, <1>8, <2>4
    <3>2. more[i - Len(works)] = more[j - Len(works)]
      BY <1>2, <1>4, <1>8, <1>11, <1>12, <2>4
    <3>3. i - Len(works) = j - Len(works)
      BY <2>2, <3>1, <3>2
    <3> QED BY <1>2, <1>4, <1>8, <3>3
  <2>5. ASSUME NEW g \in 1..Len(works), NEW h \in Len(works) + 1..Len(works) + k
        PROVE  works'[g] # works'[h]
    <3>1. h - Len(works) \in 1..k
      BY <1>2, <1>4, <1>8
    <3>2. works'[h] \in S
      BY <1>11, <2>1, <3>1
    <3> QED BY <1>5, <1>11, <3>2
  <2> QED BY <1>2, <1>4, <1>8, <1>12, <2>3, <2>4, <2>5
<1> QED BY <1>2, <1>4, <1>8, <1>11, <1>12 DEF Found, IsInjective

\* The invariant is inductive.
LEMMA SearchStepInv == SearchInv /\ [SearchNext]_searchVars => SearchInv'
<1> SUFFICES ASSUME SearchInv, [SearchNext]_searchVars PROVE SearchInv'
  OBVIOUS
<1> DEFINE K == 1 + MaxAccounts
<1>1. /\ WorkLimit \in Nat /\ MaxPages \in Nat \ {0} /\ NoProgressCap \in Nat \ {0} /\ MaxTries \in Nat
      /\ MaxAccounts \in Nat /\ K \in Nat /\ Len(works) \in 0..WorkLimit
      /\ pages \in Nat /\ pages * K \in Nat /\ (pages + 1) * K = pages * K + K /\ 0 * K = 0
      /\ page \in PageType /\ page.accounts \in 0..MaxAccounts /\ calls \in Nat
      /\ calls + Owed <= pages * K + Len(works) /\ Owed \in 0..MaxAccounts
  BY WorkSearchAssumption DEF SearchInv, Found, Owed, PageType
<1>2. CASE UNCHANGED searchVars
  BY <1>2 DEF searchVars, SearchInv, Owed, Found
<1>3. CASE SearchBegins
  <2>1. EmptyPage \in PageType /\ Len(searchPoint.works) \in Nat /\ Owed' = 0
    BY <1>1, <1>3 DEF SearchInv, SearchBegins, Found, EmptyPage, PageType, Markers, Owed
  <2> QED BY <1>1, <1>3, <2>1 DEF SearchInv, SearchBegins, Found
<1>4. CASE SearchGivesUp
  BY <1>1, <1>4 DEF SearchInv, SearchGivesUp, Over, Found, Owed
<1>5. CASE PagingEnds
  BY <1>1, <1>5 DEF SearchInv, PagingEnds, Over, Save, SaveFails, Enough, Found, Owed
<1>6. CASE PageFails
  BY <1>1, <1>6 DEF SearchInv, PageFails, MayAsk, Over, Save, SaveFails, Found, Owed
<1>7. CASE PageComes
  <2>1. PICK shown \in SUBSET Works, accounts \in 0..MaxAccounts, ending \in Markers :
          /\ Accepts(shown)
          /\ page' = [before |-> Len(works), listed |-> accounts > 0, accounts |-> accounts,
                      feedIncomplete |-> FALSE, marker |-> ending]
    BY <1>7 DEF PageComes
  <2>2. Found(works') /\ Len(works) <= Len(works') /\ Len(works') \in Nat
    BY <2>1, AcceptsAdds DEF SearchInv, Found
  <2>3. page' \in PageType /\ page'.accounts = accounts
    BY <1>1, <2>1 DEF PageType
  <2>4. Owed' = accounts
    BY <1>7, <2>3 DEF PageComes, Owed
  <2>5. calls' + Owed' <= pages' * K + Len(works')
    BY <1>1, <1>7, <2>2, <2>4 DEF PageComes
  <2> QED BY <1>1, <1>7, <2>2, <2>3, <2>5 DEF SearchInv, PageComes, MayAsk, Found
<1>8. CASE FeedComes
  <2>1. PICK shown \in SUBSET Works, ending \in Markers \cup {"failed"} :
          /\ IF ending = "failed" THEN UNCHANGED works ELSE Accepts(shown)
          /\ LET goesOn == FeedGoesOn(ending, Len(works') > Len(works))
             IN page' = [page EXCEPT !.accounts = IF goesOn THEN @ ELSE @ - 1,
                                     !.feedIncomplete = @ \/ (~goesOn /\ ending # "end")]
    BY <1>8 DEF FeedComes
  <2>2. Found(works') /\ Len(works) <= Len(works') /\ Len(works') \in Nat
    BY <2>1, AcceptsAdds DEF SearchInv, Found
  <2>3. page.accounts > 0 /\ search = "feeds" /\ search' = "feeds" /\ Owed = page.accounts
    BY <1>8 DEF FeedComes, Owed
  <2>4. /\ page' \in PageType
        /\ page'.accounts = page.accounts - 1 \/ (page'.accounts = page.accounts /\ Len(works') > Len(works))
    <3> DEFINE goesOn == FeedGoesOn(ending, Len(works') > Len(works))
               a == IF goesOn THEN page.accounts ELSE page.accounts - 1
               b == page.feedIncomplete \/ (~goesOn /\ ending # "end")
    <3>1. page' = [page EXCEPT !.accounts = a, !.feedIncomplete = b]
      BY <2>1
    <3>2. /\ a \in 0..MaxAccounts /\ b \in BOOLEAN
          /\ a = page.accounts - 1 \/ (a = page.accounts /\ Len(works') > Len(works))
      BY <1>1, <2>3 DEF FeedGoesOn, PageType
    <3> HIDE DEF goesOn, a, b
    <3>3. page' \in PageType /\ page'.accounts = a
      BY <1>1, <3>1, <3>2 DEF PageType
    <3> QED BY <3>2, <3>3
  <2>5. calls' + Owed' <= pages' * K + Len(works')
    <3>1. calls' = calls + 1 /\ pages' = pages /\ Owed' = page'.accounts
      BY <1>8, <2>3 DEF FeedComes, Owed
    <3>2. page'.accounts \in Nat
      BY <2>4 DEF PageType
    <3> DEFINE P == pages * K
    <3>3. pages' * K = P
      BY <3>1
    <3>4. P \in Nat /\ calls \in Nat /\ Len(works) \in Nat /\ page.accounts \in Nat
          /\ calls + page.accounts <= P + Len(works)
      BY <1>1, <2>3
    <3> HIDE DEF P
    <3>5. calls + 1 + page'.accounts <= P + Len(works')
      BY <2>2, <2>4, <3>2, <3>4
    <3> QED BY <3>1, <3>3, <3>5
  <2>6. UNCHANGED <<search, pages, idlePages, result, searchPoint, tries>> /\ calls' \in Nat
    <3>1. UNCHANGED <<search, pages, idlePages, result, searchPoint, tries>> /\ calls' = calls + 1
      BY <1>8 DEF FeedComes
    <3> QED BY <1>1, <3>1
  <2>7. /\ Found(searchPoint'.works) /\ search' = "feeds" /\ idlePages' < NoProgressCap
        /\ pages' \in 0..MaxPages /\ idlePages' \in 0..NoProgressCap /\ tries' \in 0..MaxTries
        /\ result' \in {"none", "target_met", "source_exhausted", "incomplete", "failed"}
        /\ searchPoint' \in [phase : {"none", "search", "search_complete", "search_incomplete"}, works : Seq(Works)]
    BY <2>3, <2>6 DEF SearchInv
  <2> QED BY <2>2, <2>4, <2>5, <2>6, <2>7 DEF SearchInv, Found
<1>9. CASE PageEnds
  <2> DEFINE idle == IF Len(works) = page.before THEN idlePages + 1 ELSE 0
  <2>1. idle \in 0..NoProgressCap
    BY <1>1, <1>9 DEF SearchInv, PageEnds
  <2>2. /\ UNCHANGED <<works, pages, page, tries, calls>> /\ Owed' \in 0..Owed
        /\ searchPoint'.works \in {works, searchPoint.works}
        /\ searchPoint' \in [phase : {"none", "search", "search_complete", "search_incomplete"}, works : Seq(Works)]
    <3>1. UNCHANGED <<works, pages, page, tries, calls>> /\ Owed' \in 0..Owed
      BY <1>1, <1>9 DEF PageEnds, Over, SaveFails, Owed
    <3>2. searchPoint' = searchPoint \/ \E phase \in {"search", "search_complete", "search_incomplete"} : Save(phase)
      BY <1>9 DEF PageEnds, SaveFails
    <3> QED BY <3>1, <3>2 DEF SearchInv, Save, Found
  <2>3. /\ search' \in {"paging", "over"} /\ idlePages' \in 0..NoProgressCap
        /\ search' = "paging" => idlePages' < NoProgressCap
    BY <1>1, <1>9, <2>1 DEF PageEnds, Over, SaveFails, SearchInv
  <2>4. /\ result' \in {"none", "target_met", "source_exhausted", "incomplete", "failed"}
        /\ search' = "over" /\ result' = "target_met" => Len(works) = WorkLimit
    BY <1>1, <1>9 DEF PageEnds, Over, SaveFails, Enough, SearchInv
  <2>5. calls' + Owed' <= pages' * K + Len(works')
    BY <1>1, <2>2
  <2> HIDE DEF idle
  <2> QED BY <2>2, <2>3, <2>4, <2>5 DEF SearchInv, Found
<1> QED BY <1>2, <1>3, <1>4, <1>5, <1>6, <1>7, <1>8, <1>9 DEF SearchNext

\* Whatever works and markers the source answers, each request of a search is for a
\* page, for the feed of an account it listed, or for the rest of a feed that has
\* just shown a new work; and no try takes a work twice or one beyond the limit.
THEOREM SearchesAreBounded == SearchSpec => [](SearchTypeOK /\ SearchBounded)
<1>1. SearchInv => SearchTypeOK
  <2> SUFFICES ASSUME SearchInv PROVE SearchTypeOK
    OBVIOUS
  <2>1. ToSet(works) \subseteq Works
    BY DEF SearchInv, Found, ToSet
  <2> QED BY <2>1 DEF SearchInv, SearchTypeOK, PageType
<1>2. SearchInv => SearchBounded
  <2> SUFFICES ASSUME SearchInv PROVE SearchBounded
    OBVIOUS
  <2> DEFINE K == 1 + MaxAccounts
  <2>1. /\ K \in Nat /\ pages \in 0..MaxPages /\ MaxPages \in Nat /\ WorkLimit \in Nat
        /\ Len(works) \in 0..WorkLimit /\ calls \in Nat /\ Owed \in Nat
        /\ calls + Owed <= pages * K + Len(works)
    BY WorkSearchAssumption DEF SearchInv, Found, Owed, PageType
  <2>2. pages * K <= MaxPages * K /\ pages * K \in Nat /\ MaxPages * K \in Nat
    BY <2>1
  <2>3. calls <= MaxPages * K + WorkLimit
    BY <2>1, <2>2
  <2> QED BY <2>1, <2>3 DEF SearchBounded, SearchInv, Found
<1> QED BY <1>1, <1>2, SearchInitInv, SearchStepInv, PTL DEF SearchSpec

-----------------------------------------------------------------------------
(* The comments of a work.                                                 *)

\* Comments that can be queued have a page of replies.
Askable == {c \in Roots : ReplyPages[c] # <<>>}
HandType == [comments : Seq(Everything), seen : SUBSET Everything, roots : Seq(Askable),
             marks : SUBSET {"truncated", "partial"}]

\* What is in hand is in it once, is what has been seen, and keeps the limits.
Hand(g) ==
  /\ g \in HandType /\ IsInjective(g.comments) /\ g.seen = ToSet(g.comments)
  /\ TopLevel(g) <= limits.top /\ Replies(g) <= limits.perWork
  /\ \A c \in Roots : RepliesTo(g, c) <= limits.perRoot

\* Each comment taken has its replies, or as many as may be, or will be asked for them.
Settled(g, c) == LimitReached(g, c) \/ RepliesOf(c) \subseteq ToSet(g.comments)
Known(g) == \A c \in Roots \cap ToSet(g.comments) : Settled(g, c) \/ c \in ToSet(g.roots)
\* The pages before the marker have been taken.
Taken(g, list, m) == \A i \in 1..m - 1 : ToSet(list[i]) \subseteq ToSet(g.comments)

TopInv(g, m) == Taken(g, Pages, m) /\ Known(g)
ReplyInv(g, m) ==
  /\ Roots \subseteq ToSet(g.comments) /\ Known(g)
  /\ g.roots # <<>> => Taken(g, ReplyPages[Head(g.roots)], m)

\* Where a collector goes on.
AtHead(point) == point.roots # <<>> /\ Head(point.roots) = point.current
PointType == [phase : {"comments_top", "comments_replies", "comments_complete"}, marker : Nat \ {0},
              roots : Seq(Askable), current : Roots \cup {NoRoot}, comments : Seq(Everything)]
PointOK(point) ==
  /\ point \in PointType /\ Hand(Restored(point))
  /\ point.phase = "comments_top" => point.marker \in 1..Len(Pages) /\ point.current = NoRoot
  /\ point.phase = "comments_replies" /\ AtHead(point) => point.marker \in 1..Len(ReplyPages[point.current])
  /\ point.phase = "comments_complete" => point.roots = <<>>
PointInv(point) ==
  /\ point.phase = "comments_top" => TopInv(Restored(point), point.marker)
  /\ point.phase # "comments_top" =>
       ReplyInv(Restored(point), IF AtHead(point) THEN point.marker ELSE First)

CommentInv ==
  /\ limits \in LimitChoices /\ stage \in {"off", "top", "replies", "failed", "complete"}
  /\ attempts \in 0..MaxAttempts
  /\ got.marks \subseteq told /\ told \subseteq {"truncated", "partial"}
  /\ Hand(got) /\ marker \in Nat \ {0}
  /\ stage = "top" => marker \in 1..Len(Pages)
  /\ stage = "replies" /\ got.roots # <<>> => marker \in 1..Len(ReplyPages[Head(got.roots)])
  /\ checkpoint = NoCheckpoint \/ PointOK(checkpoint)
  /\ told = {} =>
       /\ stage = "top" => TopInv(got, marker)
       /\ stage = "replies" => ReplyInv(got, marker)
       /\ stage = "complete" => ReplyInv(got, marker) /\ got.roots = <<>>
       /\ checkpoint = NoCheckpoint \/ PointInv(checkpoint)

\* What is in hand only grows.
Grows(x, y) ==
  /\ ToSet(x.comments) \subseteq ToSet(y.comments) /\ ToSet(x.roots) \subseteq ToSet(y.roots)
  /\ x.marks \subseteq y.marks /\ Replies(x) <= Replies(y)
  /\ \A c \in Roots : RepliesTo(x, c) <= RepliesTo(y, c)
\* And of comments at the top there are no more than there were.
SameTop(x, y) ==
  /\ y.roots = x.roots /\ TopLevel(y) = TopLevel(x)
  /\ Roots \cap ToSet(y.comments) \subseteq ToSet(x.comments)

\* A set of natural numbers that is not empty has a least element.
LEMMA Least ==
  ASSUME NEW S, S \subseteq Nat, S # {}
  PROVE  \E n \in S : \A m \in S : n <= m
<1> DEFINE R == {ss \in Nat \X Nat : ss[1] < ss[2]}
<1>1. IsWellFoundedOn(R, Nat)
  BY NatLessThanWellFounded DEF OpToRel
<1>2. ASSUME NEW m \in Nat, NEW n \in Nat, m < n
      PROVE  <<m, n>> \in R
  BY <1>2
<1> HIDE DEF R
<1>3. PICK n \in S : \A m \in S : ~(<<m, n>> \in R)
  BY <1>1, WFMin
<1>4. ASSUME NEW m \in S
      PROVE  n <= m
  <2>1. m \in Nat /\ n \in Nat /\ ~(<<m, n>> \in R)
    BY <1>3
  <2>2. ~(m < n)
    BY <1>2, <2>1, Zenon
  <2> QED BY <2>1, <2>2
<1> QED BY <1>4

LEMMA IntervalFinite ==
  ASSUME NEW n \in Nat
  PROVE  IsFiniteSet(1..n) /\ Cardinality(1..n) = n
<1>1. IsFiniteSet(1..n) /\ Cardinality(1..n) = IF 1 > n THEN 0 ELSE n - 1 + 1
  BY FS_Interval
<1>2. 1 > n => n = 0
  OBVIOUS
<1> QED BY <1>1, <1>2

\* The elements of a sequence are finitely many, no more than it is long; and if
\* it has none twice, just as many.
LEMMA ElementsFinite ==
  ASSUME NEW T, NEW s \in Seq(T)
  PROVE  /\ IsFiniteSet(ToSet(s)) /\ Cardinality(ToSet(s)) <= Len(s)
         /\ IsInjective(s) => Cardinality(ToSet(s)) = Len(s)
<1>1. IsFiniteSet(1..Len(s)) /\ Cardinality(1..Len(s)) = Len(s)
  <2>1. Len(s) \in Nat
    OBVIOUS
  <2> QED BY <2>1, IntervalFinite
<1>2. s \in Surjection(1..Len(s), ToSet(s))
  BY DEF Surjection, ToSet
<1>3. IsInjective(s) => s \in Injection(1..Len(s), ToSet(s))
  BY DEF Injection, IsInjective, ToSet
<1> QED BY <1>1, <1>2, <1>3, FS_Surjection

\* A sequence without repetition that is as long as its range is large has all of it.
LEMMA AllTaken ==
  ASSUME NEW T, IsFiniteSet(T), NEW s \in Seq(T), IsInjective(s), Len(s) >= Cardinality(T)
  PROVE  ToSet(s) = T
<1>1. ToSet(s) \in SUBSET T
  BY DEF ToSet
<1>2. Cardinality(ToSet(s)) = Len(s) /\ IsFiniteSet(ToSet(s))
  BY ElementsFinite
<1>3. Cardinality(ToSet(s)) <= Cardinality(T)
  BY <1>1, FS_Subset
<1>4. Cardinality(T) \in Nat /\ Cardinality(ToSet(s)) \in Nat
  BY <1>2, FS_CardinalityType
<1>5. Cardinality(T) = Cardinality(ToSet(s))
  BY <1>2, <1>3, <1>4
<1> QED BY <1>1, <1>5, FS_Subset

\* The comments on a sequence of pages are finitely many.
LEMMA PagesFinite ==
  ASSUME NEW T, NEW list \in Seq(Seq(T))
  PROVE  IsFiniteSet(UNION {ToSet(list[i]) : i \in DOMAIN list})
<1> DEFINE sets == [i \in 1..Len(list) |-> ToSet(list[i])]
<1>1. sets \in Seq(SUBSET T)
  <2>1. \A i \in 1..Len(list) : ToSet(list[i]) \in SUBSET T
    <3>1. ASSUME NEW i \in 1..Len(list)
          PROVE  ToSet(list[i]) \in SUBSET T
      <4>1. list[i] \in Seq(T)
        OBVIOUS
      <4> QED BY <4>1 DEF ToSet
    <3> QED BY <3>1
  <2> QED BY <2>1
<1>2. ToSet(sets) = {ToSet(list[i]) : i \in DOMAIN list}
  <2>1. DOMAIN sets = DOMAIN list /\ \A i \in DOMAIN list : sets[i] = ToSet(list[i])
    OBVIOUS
  <2> HIDE DEF sets
  <2>2. ToSet(sets) = {sets[i] : i \in DOMAIN sets}
    BY DEF ToSet
  <2> QED BY <2>1, <2>2
<1> HIDE DEF sets
<1>3. IsFiniteSet(ToSet(sets))
  BY <1>1, ElementsFinite
<1>4. \A A \in ToSet(sets) : IsFiniteSet(A)
  <2>1. ASSUME NEW i \in DOMAIN list
        PROVE  IsFiniteSet(ToSet(list[i]))
    <3>1. list[i] \in Seq(T)
      OBVIOUS
    <3> QED BY <3>1, ElementsFinite
  <2> QED BY <1>2, <2>1
<1>5. IsFiniteSet(UNION ToSet(sets))
  BY <1>3, <1>4, FS_UNION
<1> QED BY <1>2, <1>5

LEMMA EverythingFinite ==
  /\ \A c \in Roots : IsFiniteSet(RepliesOf(c))
  /\ IsFiniteSet(Everything)
<1>1. \A c \in Roots : IsFiniteSet(RepliesOf(c))
  <2> SUFFICES ASSUME NEW c \in Roots
               PROVE  IsFiniteSet(RepliesOf(c))
    OBVIOUS
  <2>1. ReplyPages[c] \in Seq(Seq(RepliesOf(c)))
    BY CommentPagesAssumption
  <2>2. IsFiniteSet(UNION {ToSet(ReplyPages[c][i]) : i \in DOMAIN ReplyPages[c]})
    BY <2>1, PagesFinite
  <2> QED BY <2>2 DEF RepliesOf
<1>2. IsFiniteSet(Roots)
  <2>1. Pages \in Seq(Seq(Roots))
    BY CommentPagesAssumption
  <2>2. IsFiniteSet(UNION {ToSet(Pages[i]) : i \in DOMAIN Pages})
    BY <2>1, PagesFinite
  <2> QED BY <2>2 DEF Roots
<1>3. IsFiniteSet(UNION {RepliesOf(c) : c \in Roots})
  <2> DEFINE below == [c \in Roots |-> RepliesOf(c)]
             sets == {RepliesOf(c) : c \in Roots}
  <2>1. below \in Surjection(Roots, sets)
    BY DEF Surjection
  <2>2. \A A \in sets : IsFiniteSet(A)
    BY <1>1
  <2> HIDE DEF below, sets
  <2>3. IsFiniteSet(sets)
    BY <1>2, <2>1, FS_Surjection
  <2>4. IsFiniteSet(UNION sets)
    BY <2>2, <2>3, FS_UNION
  <2> QED BY <2>4 DEF sets
<1>4. IsFiniteSet(Everything)
  BY <1>2, <1>3, FS_Union DEF Everything
<1> QED BY <1>1, <1>4

\* What a sequence counts, and one more element.
LEMMA CountType ==
  ASSUME NEW T, NEW s \in Seq(T), NEW S
  PROVE  CountIn(s, S) \in Nat /\ CountIn(s, S) <= Len(s)
<1> DEFINE at == {i \in DOMAIN s : s[i] \in S}
<1>1. at \in SUBSET (1..Len(s))
  OBVIOUS
<1>2. IsFiniteSet(1..Len(s)) /\ Cardinality(1..Len(s)) = Len(s)
  <2>1. Len(s) \in Nat
    OBVIOUS
  <2> QED BY <2>1, IntervalFinite
<1> HIDE DEF at
<1>3. IsFiniteSet(at) /\ Cardinality(at) <= Len(s)
  BY <1>1, <1>2, FS_Subset
<1>4. Cardinality(at) \in Nat
  BY <1>3, FS_CardinalityType
<1> QED BY <1>3, <1>4 DEF at, CountIn

LEMMA CountAppend ==
  ASSUME NEW T, NEW s \in Seq(T), NEW x \in T, NEW S
  PROVE  CountIn(Append(s, x), S) = IF x \in S THEN CountIn(s, S) + 1 ELSE CountIn(s, S)
<1> DEFINE at == {i \in DOMAIN s : s[i] \in S}
           now == {i \in DOMAIN Append(s, x) : Append(s, x)[i] \in S}
           n == Len(s) + 1
<1>1. DOMAIN Append(s, x) = 1..n /\ Append(s, x)[n] = x /\ \A i \in 1..Len(s) : Append(s, x)[i] = s[i]
  BY AppendProperties
<1>2. now = IF x \in S THEN at \cup {n} ELSE at
  BY <1>1
<1>3. at \in SUBSET (1..Len(s)) /\ n \notin at
  OBVIOUS
<1>4. IsFiniteSet(1..Len(s))
  <2>1. Len(s) \in Nat
    OBVIOUS
  <2> QED BY <2>1, IntervalFinite
<1> HIDE DEF at, now, n
<1>5. IsFiniteSet(at)
  BY <1>3, <1>4, FS_Subset
<1>6. Cardinality(at \cup {n}) = Cardinality(at) + 1
  BY <1>3, <1>5, FS_AddElement
<1> QED BY <1>2, <1>6 DEF at, now, CountIn

LEMMA ElementsAppend ==
  ASSUME NEW T, NEW s \in Seq(T), NEW x \in T
  PROVE  /\ Append(s, x) \in Seq(T) /\ Len(Append(s, x)) = Len(s) + 1
         /\ ToSet(Append(s, x)) = ToSet(s) \cup {x}
         /\ IsInjective(s) /\ x \notin ToSet(s) => IsInjective(Append(s, x))
<1>1. /\ Append(s, x) \in Seq(T) /\ Len(Append(s, x)) = Len(s) + 1
      /\ DOMAIN Append(s, x) = 1..Len(s) + 1 /\ Append(s, x)[Len(s) + 1] = x
      /\ \A i \in 1..Len(s) : Append(s, x)[i] = s[i]
  BY AppendProperties
<1>2. ToSet(Append(s, x)) = ToSet(s) \cup {x}
  BY <1>1 DEF ToSet
<1>3. IsInjective(s) /\ x \notin ToSet(s) => IsInjective(Append(s, x))
  BY <1>1 DEF ToSet, IsInjective
<1> QED BY <1>1, <1>2, <1>3

LEMMA HandFacts ==
  ASSUME NEW g, Hand(g), limits \in LimitChoices
  PROVE  /\ g.comments \in Seq(Everything) /\ g.roots \in Seq(Askable)
         /\ TopLevel(g) \in Nat /\ Replies(g) \in Nat /\ \A c \in Roots : RepliesTo(g, c) \in Nat
         /\ limits.top \in Nat \ {0} /\ limits.perRoot \in Nat \ {0} /\ limits.perWork \in Nat \ {0}
<1>1. g.comments \in Seq(Everything) /\ g.roots \in Seq(Askable)
  BY DEF Hand, HandType
<1>2. TopLevel(g) \in Nat /\ TopLevel(g) <= Len(g.comments)
  BY <1>1, CountType DEF TopLevel
<1>3. Replies(g) \in Nat
  BY <1>1, <1>2 DEF Replies
<1>4. \A c \in Roots : RepliesTo(g, c) \in Nat
  BY <1>1, CountType DEF RepliesTo
<1>5. limits \in [top : Nat \ {0}, perRoot : Nat \ {0}, perWork : Nat \ {0}]
  BY CommentPagesAssumption
<1> QED BY <1>1, <1>2, <1>3, <1>4, <1>5

\* Growing, step by step; and what a comment has got it keeps.
LEMMA GrowsOn ==
  ASSUME limits \in LimitChoices, NEW x, Hand(x)
  PROVE  /\ Grows(x, x) /\ SameTop(x, x)
         /\ \A y, z : Hand(y) /\ Hand(z) /\ Grows(x, y) /\ Grows(y, z) => Grows(x, z)
         /\ \A y, z : SameTop(x, y) /\ SameTop(y, z) => SameTop(x, z)
<1>1. Grows(x, x) /\ SameTop(x, x)
  BY HandFacts DEF Grows, SameTop
<1>2. ASSUME NEW y, NEW z, Hand(y), Hand(z), Grows(x, y), Grows(y, z)
      PROVE  Grows(x, z)
  <2>1. Replies(x) <= Replies(z)
    BY <1>2, HandFacts DEF Grows
  <2>2. \A c \in Roots : RepliesTo(x, c) <= RepliesTo(z, c)
    BY <1>2, HandFacts DEF Grows
  <2> QED BY <1>2, <2>1, <2>2 DEF Grows
<1>3. \A y, z : SameTop(x, y) /\ SameTop(y, z) => SameTop(x, z)
  BY DEF SameTop
<1> QED BY <1>1, <1>2, <1>3

LEMMA SettledStays ==
  ASSUME limits \in LimitChoices, NEW x, NEW y, Hand(x), Hand(y), Grows(x, y), NEW c \in Roots, Settled(x, c)
  PROVE  Settled(y, c)
<1>1. LimitReached(x, c) => LimitReached(y, c)
  BY HandFacts DEF Grows, LimitReached, WorkFull, RootFull
<1> QED BY <1>1 DEF Settled, Grows

\* A mark changes nothing else.
LEMMA MarkKeeps ==
  ASSUME limits \in LimitChoices, NEW g, Hand(g), NEW mark \in {"truncated", "partial"}
  PROVE  LET h == Mark(g, mark)
         IN /\ Hand(h) /\ Grows(g, h) /\ SameTop(g, h) /\ h.marks # {}
            /\ h.comments = g.comments /\ h.roots = g.roots
<1> DEFINE h == Mark(g, mark)
<1>1. g \in HandType
  BY DEF Hand
<1>2. /\ h \in HandType /\ h.comments = g.comments /\ h.roots = g.roots /\ h.seen = g.seen
      /\ h.marks = g.marks \cup {mark}
  BY <1>1 DEF HandType, Mark
<1> HIDE DEF h
<1>3. TopLevel(h) = TopLevel(g) /\ Replies(h) = Replies(g) /\ \A c \in Roots : RepliesTo(h, c) = RepliesTo(g, c)
  BY <1>2 DEF TopLevel, Replies, RepliesTo
<1>4. Hand(h)
  BY <1>2, <1>3 DEF Hand
<1>5. Grows(g, h) /\ SameTop(g, h)
  BY <1>2, <1>3, HandFacts DEF Grows, SameTop
<1> QED BY <1>2, <1>4, <1>5 DEF h

\* One more comment: a new one that is counted where it belongs.
LEMMA OneMore ==
  ASSUME limits \in LimitChoices, NEW g, Hand(g), NEW x \in Everything, x \notin g.seen
  PROVE  LET h == [g EXCEPT !.comments = Append(@, x), !.seen = @ \cup {x}]
         IN /\ h \in HandType /\ IsInjective(h.comments) /\ h.seen = ToSet(h.comments)
            /\ ToSet(h.comments) = ToSet(g.comments) \cup {x} /\ h.roots = g.roots /\ h.marks = g.marks
            /\ TopLevel(h) = IF x \in Roots THEN TopLevel(g) + 1 ELSE TopLevel(g)
            /\ Replies(h) = IF x \in Roots THEN Replies(g) ELSE Replies(g) + 1
            /\ \A c \in Roots : RepliesTo(h, c) = IF x \in RepliesOf(c) THEN RepliesTo(g, c) + 1 ELSE RepliesTo(g, c)
<1> DEFINE s == Append(g.comments, x)
           h1 == [g EXCEPT !.comments = s]
           h == [h1 EXCEPT !.seen = @ \cup {x}]
<1>1. /\ g \in HandType /\ IsInjective(g.comments) /\ g.seen = ToSet(g.comments)
      /\ g.comments \in Seq(Everything)
  BY HandFacts DEF Hand
<1>2. /\ s \in Seq(Everything) /\ Len(s) = Len(g.comments) + 1
      /\ ToSet(s) = ToSet(g.comments) \cup {x} /\ IsInjective(s)
  BY <1>1, ElementsAppend
<1>3. \A S : CountIn(s, S) = IF x \in S THEN CountIn(g.comments, S) + 1 ELSE CountIn(g.comments, S)
  BY <1>1, CountAppend
<1> HIDE DEF s
<1>4. h1 \in HandType /\ h1.comments = s /\ h1.seen = g.seen /\ h1.roots = g.roots /\ h1.marks = g.marks
  BY <1>1, <1>2 DEF HandType
<1> HIDE DEF h1
<1>5. /\ h \in HandType /\ h.comments = s /\ h.seen = g.seen \cup {x} /\ h.roots = g.roots
      /\ h.marks = g.marks
  BY <1>4 DEF HandType
<1>6. h = [g EXCEPT !.comments = Append(@, x), !.seen = @ \cup {x}]
  BY <1>1 DEF h1, s, HandType
<1> HIDE DEF h
<1>7. TopLevel(h) = IF x \in Roots THEN TopLevel(g) + 1 ELSE TopLevel(g)
  BY <1>3, <1>5 DEF TopLevel
<1>8. Replies(h) = IF x \in Roots THEN Replies(g) ELSE Replies(g) + 1
  <2>1. TopLevel(g) \in Nat /\ Len(g.comments) \in Nat
    BY <1>1, HandFacts
  <2> QED BY <1>2, <1>5, <1>7, <2>1 DEF Replies
<1>9. \A c \in Roots : RepliesTo(h, c) = IF x \in RepliesOf(c) THEN RepliesTo(g, c) + 1 ELSE RepliesTo(g, c)
  BY <1>3, <1>5 DEF RepliesTo
<1>10. h.seen = ToSet(h.comments)
  BY <1>1, <1>2, <1>5
<1> QED BY <1>2, <1>5, <1>6, <1>7, <1>8, <1>9, <1>10

\* One reply.
LEMMA ReplyKeeps ==
  ASSUME limits \in LimitChoices, NEW g, Hand(g), NEW c \in Roots, NEW r \in RepliesOf(c)
  PROVE  LET h == AcceptReply(c, g, r)
         IN /\ Hand(h) /\ Grows(g, h) /\ SameTop(g, h)
            /\ h.marks = {} => r \in ToSet(h.comments)
<1> DEFINE h == AcceptReply(c, g, r)
<1>1. CASE r \in g.seen
  <2>1. h = g
    BY <1>1 DEF AcceptReply
  <2>2. r \in ToSet(g.comments)
    BY <1>1 DEF Hand
  <2> QED BY <2>1, <2>2, GrowsOn
<1>2. CASE r \notin g.seen /\ LimitReached(g, c)
  <2>1. h = Mark(g, "truncated")
    BY <1>2 DEF AcceptReply
  <2> HIDE DEF h
  <2>2. Hand(h) /\ Grows(g, h) /\ SameTop(g, h) /\ h.marks # {}
    BY <2>1, MarkKeeps
  <2> QED BY <2>2 DEF h
<1>3. CASE r \notin g.seen /\ ~LimitReached(g, c)
  <2>1. h = [g EXCEPT !.comments = Append(@, r), !.seen = @ \cup {r}]
    BY <1>3 DEF AcceptReply
  <2> HIDE DEF h
  <2>2. r \in Everything /\ r \notin Roots /\ \A d \in Roots : r \in RepliesOf(d) <=> d = c
    BY CommentPagesAssumption DEF Everything
  <2>3. /\ h \in HandType /\ IsInjective(h.comments) /\ h.seen = ToSet(h.comments)
        /\ ToSet(h.comments) = ToSet(g.comments) \cup {r} /\ h.roots = g.roots /\ h.marks = g.marks
        /\ TopLevel(h) = TopLevel(g) /\ Replies(h) = Replies(g) + 1
        /\ \A d \in Roots : RepliesTo(h, d) = IF d = c THEN RepliesTo(g, d) + 1 ELSE RepliesTo(g, d)
    BY <1>3, <2>1, <2>2, OneMore
  <2>4. /\ TopLevel(g) \in Nat /\ Replies(g) \in Nat /\ \A d \in Roots : RepliesTo(g, d) \in Nat
        /\ limits.perRoot \in Nat /\ limits.perWork \in Nat
    BY HandFacts
  <2>5. Replies(h) <= limits.perWork /\ RepliesTo(h, c) <= limits.perRoot
    BY <1>3, <2>3, <2>4 DEF LimitReached, WorkFull, RootFull
  <2>6. TopLevel(h) <= limits.top /\ \A d \in Roots : RepliesTo(h, d) <= limits.perRoot
    BY <2>3, <2>5 DEF Hand
  <2>7. Hand(h)
    BY <2>3, <2>5, <2>6 DEF Hand
  <2>8. Grows(g, h) /\ SameTop(g, h)
    BY <2>2, <2>3, <2>4 DEF Grows, SameTop
  <2> QED BY <2>3, <2>7, <2>8 DEF h
<1> QED BY <1>1, <1>2, <1>3

\* A page is taken step by step: the recursive function is there.
RepliesSteps(f, c, g, replies) ==
  /\ f[0] = g /\ TakeReplies(c, g, replies) = f[Len(replies)]
  /\ \A n \in 1..Len(replies) : f[n] = AcceptReply(c, f[n - 1], replies[n])
LEMMA TakeRepliesSteps ==
  ASSUME NEW c, NEW g, NEW replies, Len(replies) \in Nat
  PROVE  \E f : RepliesSteps(f, c, g, replies)
<1> DEFINE k == Len(replies)
           Upto(m, f) == f = [n \in 0..m |-> IF n = 0 THEN g ELSE AcceptReply(c, f[n - 1], replies[n])]
           bad == {m \in 0..k : ~(\E f : Upto(m, f))}
<1> HIDE DEF k
<1>0. k \in Nat
  BY DEF k
<1>1. bad = {}
  <2> SUFFICES ASSUME bad # {}
               PROVE  FALSE
    OBVIOUS
  <2>1. bad \subseteq Nat
    BY <1>0
  <2>2. PICK m \in bad : \A j \in bad : m <= j
    BY <2>1, Least
  <2>3. m \in 0..k /\ ~(\E f : Upto(m, f))
    OBVIOUS
  <2>4. m # 0
    <3> DEFINE f == [n \in 0..0 |-> g]
    <3>1. f = [n \in 0..0 |-> IF n = 0 THEN g ELSE AcceptReply(c, f[n - 1], replies[n])]
      OBVIOUS
    <3>2. Upto(0, f)
      BY <3>1, Zenon
    <3> HIDE DEF f
    <3>3. m = 0 => \E e : Upto(m, e)
      <4> HIDE DEF Upto
      <4> QED BY <3>2
    <3> QED BY <2>3, <3>3
  <2>5. m - 1 \in 0..k /\ m - 1 \notin bad
    <3> HIDE DEF bad
    <3>1. m - 1 \in 0..k /\ ~(m <= m - 1)
      BY <1>0, <2>3, <2>4
    <3> QED BY <2>2, <3>1
  <2>6. PICK f : Upto(m - 1, f)
    BY <2>5
  <2> DEFINE e == [n \in 0..m |-> IF n = m THEN AcceptReply(c, f[m - 1], replies[m]) ELSE f[n]]
  <2>7. e = [n \in 0..m |-> IF n = 0 THEN g ELSE AcceptReply(c, e[n - 1], replies[n])]
    <3>1. ASSUME NEW n \in 0..m
          PROVE  e[n] = IF n = 0 THEN g ELSE AcceptReply(c, e[n - 1], replies[n])
      <4>1. CASE n = m
        <5>1. n - 1 \in 0..m /\ n - 1 # m /\ n # 0
          BY <2>3, <2>4, <4>1
        <5>2. e[n - 1] = f[n - 1]
          BY <5>1
        <5> QED BY <4>1, <5>1, <5>2
      <4>2. CASE n # m /\ n = 0
        <5>1. n \in 0..m - 1 /\ e[n] = f[n]
          BY <2>3, <2>4, <4>2
        <5> QED BY <2>6, <4>2, <5>1
      <4>3. CASE n # m /\ n # 0
        <5>1. n \in 0..m - 1 /\ n - 1 \in 0..m /\ n - 1 # m
          BY <2>3, <4>3
        <5>2. e[n] = f[n] /\ e[n - 1] = f[n - 1]
          BY <5>1, <4>3
        <5>3. f[n] = AcceptReply(c, f[n - 1], replies[n])
          BY <2>6, <5>1, <4>3
        <5> QED BY <4>3, <5>2, <5>3
      <4> QED BY <4>1, <4>2, <4>3
    <3> HIDE DEF e
    <3>2. e = [n \in 0..m |-> e[n]]
      BY DEF e
    <3> QED BY <3>1, <3>2
  <2>8. Upto(m, e)
    BY <2>7, Zenon
  <2> HIDE DEF e, Upto
  <2> QED BY <2>3, <2>8
<1>2. k \in 0..k /\ k \notin bad
  BY <1>0, <1>1
<1>3. \E f : Upto(k, f)
  BY <1>2
<1> DEFINE taken == CHOOSE f : Upto(k, f)
<1>4. Upto(k, taken)
  BY <1>3, Zenon
<1>5. TakeReplies(c, g, replies) = taken[k]
  BY Zenon DEF TakeReplies, k
<1>6. taken[0] = g /\ \A n \in 1..k : taken[n] = AcceptReply(c, taken[n - 1], replies[n])
  <2> HIDE DEF taken
  <2>1. 0 \in 0..k /\ \A n \in 1..k : n \in 0..k /\ n # 0
    BY <1>0
  <2> QED BY <1>4, <2>1
<1> HIDE DEF taken
<1>7. RepliesSteps(taken, c, g, replies)
  BY <1>5, <1>6 DEF RepliesSteps, k
<1> QED BY <1>7

\* The replies of a page.
LEMMA TakeRepliesKeeps ==
  ASSUME limits \in LimitChoices, NEW g, Hand(g), NEW c \in Roots, NEW replies \in Seq(RepliesOf(c))
  PROVE  LET h == TakeReplies(c, g, replies)
         IN /\ Hand(h) /\ Grows(g, h) /\ SameTop(g, h)
            /\ h.marks = {} => ToSet(replies) \subseteq ToSet(h.comments)
<1> DEFINE k == Len(replies)
<1>0. k \in Nat
  OBVIOUS
<1>1. PICK f : /\ f[0] = g /\ TakeReplies(c, g, replies) = f[k]
               /\ \A n \in 1..k : f[n] = AcceptReply(c, f[n - 1], replies[n])
  <2>1. \E f : RepliesSteps(f, c, g, replies)
    BY <1>0, TakeRepliesSteps
  <2> QED BY <2>1 DEF RepliesSteps
<1> DEFINE All(n, h) == h.marks = {} => \A i \in 1..n : replies[i] \in ToSet(h.comments)
           Good(n) == Hand(f[n]) /\ Grows(g, f[n]) /\ SameTop(g, f[n]) /\ All(n, f[n])
           bad == {n \in 0..k : ~Good(n)}
<1>2. Good(0)
  BY <1>1, GrowsOn
<1>3. ASSUME NEW n \in 1..k, Good(n - 1)
      PROVE  Good(n)
  <2> DEFINE x == f[n - 1]
             h == f[n]
  <2>1. h = AcceptReply(c, x, replies[n]) /\ replies[n] \in RepliesOf(c)
    BY <1>1
  <2>2. Hand(x) /\ Grows(g, x) /\ SameTop(g, x) /\ All(n - 1, x)
    BY <1>3
  <2> HIDE DEF x, h
  <2>3. /\ Hand(h) /\ Grows(x, h) /\ SameTop(x, h)
        /\ h.marks = {} => replies[n] \in ToSet(h.comments)
    BY <2>1, <2>2, ReplyKeeps
  <2>4. Grows(g, h) /\ SameTop(g, h)
    BY <2>2, <2>3, GrowsOn
  <2>5. All(n, h)
    <3> SUFFICES ASSUME h.marks = {}, NEW i \in 1..n
                 PROVE  replies[i] \in ToSet(h.comments)
      OBVIOUS
    <3>1. x.marks = {} /\ ToSet(x.comments) \subseteq ToSet(h.comments)
      BY <2>3 DEF Grows
    <3>2. i = n \/ i \in 1..n - 1
      BY <1>0
    <3> QED BY <2>2, <2>3, <3>1, <3>2
  <2> QED BY <2>3, <2>4, <2>5 DEF h
<1> HIDE DEF Good, k
<1>4. bad = {}
  <2> SUFFICES ASSUME bad # {}
               PROVE  FALSE
    OBVIOUS
  <2>1. bad \subseteq Nat
    BY <1>0
  <2>2. PICK m \in bad : \A j \in bad : m <= j
    BY <2>1, Least
  <2>3. m \in 0..k /\ ~Good(m)
    OBVIOUS
  <2>4. m # 0
    BY <1>2, <2>3
  <2>5. m \in 1..k /\ m - 1 \in 0..k /\ ~(m <= m - 1)
    BY <1>0, <2>3, <2>4
  <2>6. Good(m - 1)
    BY <2>2, <2>5
  <2> QED BY <1>3, <2>3, <2>5, <2>6
<1>5. k \in 0..k
  BY <1>0
<1>6. Good(k)
  BY <1>4, <1>5
<1>7. f[k].marks = {} => ToSet(replies) \subseteq ToSet(f[k].comments)
  <2>1. All(k, f[k])
    BY <1>6 DEF Good
  <2>2. DOMAIN replies = 1..k
    BY DEF k
  <2> QED BY <2>1, <2>2 DEF ToSet
<1> QED BY <1>1, <1>6, <1>7 DEF Good

\* A comment, with the replies shown with it.
LEMMA CommentKeeps ==
  ASSUME limits \in LimitChoices, NEW g, Hand(g), NEW c \in Roots
  PROVE  LET h == AcceptComment(g, c)
         IN /\ Hand(h) /\ Grows(g, h)
            /\ h.marks = {} => c \in ToSet(h.comments) /\ (Known(g) => Known(h))
<1> DEFINE h == AcceptComment(g, c)
           g1 == [g EXCEPT !.comments = Append(@, c), !.seen = @ \cup {c}]
           h1 == TakeReplies(c, g1, Embedded[c])
           more == Cardinality(RepliesOf(c)) > Len(Embedded[c]) /\ ~LimitReached(h1, c)
<1>0. /\ TopLevel(g) \in Nat /\ Replies(g) \in Nat /\ \A d \in Roots : RepliesTo(g, d) \in Nat
      /\ limits.top \in Nat
  BY HandFacts
<1>1. CASE TopLevel(g) >= limits.top
  <2>1. h = Mark(g, "truncated")
    BY <1>1 DEF AcceptComment
  <2> HIDE DEF h
  <2>2. Hand(h) /\ Grows(g, h) /\ h.marks # {}
    BY <2>1, MarkKeeps
  <2> QED BY <2>2 DEF h
<1>2. CASE ~(TopLevel(g) >= limits.top) /\ c \in g.seen
  <2>1. h = g
    BY <1>2 DEF AcceptComment
  <2>2. c \in ToSet(g.comments)
    BY <1>2 DEF Hand
  <2> QED BY <2>1, <2>2, GrowsOn
<1>3. CASE ~(TopLevel(g) >= limits.top) /\ c \notin g.seen
  <2>1. h = IF more THEN [h1 EXCEPT !.roots = Append(@, c)] ELSE h1
    BY <1>3 DEF AcceptComment
  <2> HIDE DEF h
  <2>2. c \in Everything /\ \A d \in Roots : c \notin RepliesOf(d)
    BY CommentPagesAssumption DEF Everything
  <2>3. /\ g1 \in HandType /\ IsInjective(g1.comments) /\ g1.seen = ToSet(g1.comments)
        /\ ToSet(g1.comments) = ToSet(g.comments) \cup {c} /\ g1.roots = g.roots /\ g1.marks = g.marks
        /\ TopLevel(g1) = TopLevel(g) + 1 /\ Replies(g1) = Replies(g)
        /\ \A d \in Roots : RepliesTo(g1, d) = RepliesTo(g, d)
    BY <1>3, <2>2, OneMore
  <2> HIDE DEF g1
  <2>4. Hand(g1) /\ Grows(g, g1)
    <3>1. TopLevel(g1) <= limits.top
      BY <1>0, <1>3, <2>3
    <3>2. Hand(g1)
      BY <2>3, <3>1 DEF Hand
    <3>3. Grows(g, g1)
      BY <1>0, <2>3 DEF Grows
    <3> QED BY <3>2, <3>3
  <2>5. Embedded[c] \in Seq(RepliesOf(c)) /\ IsInjective(Embedded[c])
    BY CommentPagesAssumption
  <2>6. /\ Hand(h1) /\ Grows(g1, h1) /\ SameTop(g1, h1)
        /\ h1.marks = {} => ToSet(Embedded[c]) \subseteq ToSet(h1.comments)
    BY <2>4, <2>5, TakeRepliesKeeps
  <2> HIDE DEF h1
  <2>7. Grows(g, h1)
    BY <2>4, <2>6, GrowsOn
  <2>8. more => c \in Askable
    <3> SUFFICES ASSUME more, ReplyPages[c] = <<>>
                 PROVE  FALSE
      BY DEF Askable
    <3>1. DOMAIN ReplyPages[c] = {}
      OBVIOUS
    <3>2. RepliesOf(c) = {}
      BY <3>1 DEF RepliesOf
    <3>3. Cardinality(RepliesOf(c)) = 0
      BY <3>2, FS_EmptySet
    <3>4. Len(Embedded[c]) \in Nat
      BY <2>5
    <3> QED BY <3>3, <3>4
  <2>9. /\ Hand(h) /\ Grows(h1, h) /\ h.comments = h1.comments /\ h.marks = h1.marks
        /\ ToSet(h1.roots) \subseteq ToSet(h.roots) /\ (more => c \in ToSet(h.roots))
    <3>1. CASE more
      <4>1. /\ Append(h1.roots, c) \in Seq(Askable)
            /\ ToSet(Append(h1.roots, c)) = ToSet(h1.roots) \cup {c}
        BY <2>6, <2>8, <3>1, HandFacts, ElementsAppend
      <4>2. h1 \in HandType
        BY <2>6 DEF Hand
      <4> DEFINE s == Append(h1.roots, c)
      <4>3. h = [h1 EXCEPT !.roots = s]
        BY <2>1, <3>1
      <4> HIDE DEF s
      <4>4. /\ h \in HandType /\ h.comments = h1.comments /\ h.seen = h1.seen /\ h.marks = h1.marks
            /\ h.roots = s
        BY <4>1, <4>2, <4>3 DEF s, HandType
      <4>5. TopLevel(h) = TopLevel(h1) /\ Replies(h) = Replies(h1) /\ \A d \in Roots : RepliesTo(h, d) = RepliesTo(h1, d)
        BY <4>4 DEF TopLevel, Replies, RepliesTo
      <4>6. Hand(h)
        BY <2>6, <4>4, <4>5 DEF Hand
      <4>7. Grows(h1, h)
        BY <2>6, <4>1, <4>4, <4>5, HandFacts DEF Grows, s
      <4> QED BY <4>1, <4>4, <4>6, <4>7 DEF s
    <3>2. CASE ~more
      <4>1. h = h1
        BY <2>1, <3>2
      <4> QED BY <2>6, <3>2, <4>1, GrowsOn
    <3> QED BY <3>1, <3>2
  <2>10. Grows(g, h)
    BY <2>6, <2>7, <2>9, GrowsOn
  <2>11. c \in ToSet(h.comments)
    BY <2>3, <2>6, <2>9 DEF Grows
  <2>12. ASSUME h.marks = {}, Known(g), NEW d \in Roots \cap ToSet(h.comments)
         PROVE  Settled(h, d) \/ d \in ToSet(h.roots)
    <3>1. d = c \/ d \in ToSet(g.comments)
      BY <2>3, <2>6, <2>9, <2>12 DEF SameTop
    <3>2. CASE d \in ToSet(g.comments)
      <4>1. Settled(g, d) \/ d \in ToSet(g.roots)
        BY <2>12, <3>2 DEF Known
      <4>2. Settled(g, d) => Settled(h, d)
        BY <2>9, <2>10, SettledStays
      <4> QED BY <2>10, <4>1, <4>2 DEF Grows
    <3>3. CASE d = c /\ more
      BY <2>9, <3>3
    <3>4. CASE d = c /\ ~more
      <4>1. CASE LimitReached(h1, c)
        <5>1. Settled(h1, c)
          BY <4>1 DEF Settled
        <5> QED BY <2>6, <2>9, <3>4, <5>1, SettledStays
      <4>2. CASE ~LimitReached(h1, c)
        <5>1. IsFiniteSet(RepliesOf(c))
          BY EverythingFinite
        <5>2. Cardinality(RepliesOf(c)) \in Nat /\ Len(Embedded[c]) \in Nat
          BY <2>5, <5>1, FS_CardinalityType
        <5>3. Len(Embedded[c]) >= Cardinality(RepliesOf(c))
          BY <3>4, <4>2, <5>2
        <5>4. ToSet(Embedded[c]) = RepliesOf(c)
          BY <2>5, <5>1, <5>3, AllTaken
        <5>5. RepliesOf(c) \subseteq ToSet(h.comments)
          BY <2>6, <2>9, <2>12, <5>4
        <5> QED BY <3>4, <5>5 DEF Settled
      <4> QED BY <4>1, <4>2
    <3> QED BY <3>1, <3>2, <3>3, <3>4
  <2>13. h.marks = {} /\ Known(g) => Known(h)
    BY <2>12 DEF Known
  <2> QED BY <2>9, <2>10, <2>11, <2>13 DEF h
<1> QED BY <1>1, <1>2, <1>3

\* The same of a page of comments.
CommentsSteps(f, g, items) ==
  /\ f[0] = g /\ TakeComments(g, items) = f[Len(items)]
  /\ \A n \in 1..Len(items) : f[n] = AcceptComment(f[n - 1], items[n])
LEMMA TakeCommentsSteps ==
  ASSUME NEW g, NEW items, Len(items) \in Nat
  PROVE  \E f : CommentsSteps(f, g, items)
<1> DEFINE k == Len(items)
           Upto(m, f) == f = [n \in 0..m |-> IF n = 0 THEN g ELSE AcceptComment(f[n - 1], items[n])]
           bad == {m \in 0..k : ~(\E f : Upto(m, f))}
<1> HIDE DEF k
<1>0. k \in Nat
  BY DEF k
<1>1. bad = {}
  <2> SUFFICES ASSUME bad # {}
               PROVE  FALSE
    OBVIOUS
  <2>1. bad \subseteq Nat
    BY <1>0
  <2>2. PICK m \in bad : \A j \in bad : m <= j
    BY <2>1, Least
  <2>3. m \in 0..k /\ ~(\E f : Upto(m, f))
    OBVIOUS
  <2>4. m # 0
    <3> DEFINE f == [n \in 0..0 |-> g]
    <3>1. f = [n \in 0..0 |-> IF n = 0 THEN g ELSE AcceptComment(f[n - 1], items[n])]
      OBVIOUS
    <3>2. Upto(0, f)
      BY <3>1, Zenon
    <3> HIDE DEF f
    <3>3. m = 0 => \E e : Upto(m, e)
      <4> HIDE DEF Upto
      <4> QED BY <3>2
    <3> QED BY <2>3, <3>3
  <2>5. m - 1 \in 0..k /\ m - 1 \notin bad
    <3> HIDE DEF bad
    <3>1. m - 1 \in 0..k /\ ~(m <= m - 1)
      BY <1>0, <2>3, <2>4
    <3> QED BY <2>2, <3>1
  <2>6. PICK f : Upto(m - 1, f)
    BY <2>5
  <2> DEFINE e == [n \in 0..m |-> IF n = m THEN AcceptComment(f[m - 1], items[m]) ELSE f[n]]
  <2>7. e = [n \in 0..m |-> IF n = 0 THEN g ELSE AcceptComment(e[n - 1], items[n])]
    <3>1. ASSUME NEW n \in 0..m
          PROVE  e[n] = IF n = 0 THEN g ELSE AcceptComment(e[n - 1], items[n])
      <4>1. CASE n = m
        <5>1. n - 1 \in 0..m /\ n - 1 # m /\ n # 0
          BY <2>3, <2>4, <4>1
        <5>2. e[n - 1] = f[n - 1]
          BY <5>1
        <5> QED BY <4>1, <5>1, <5>2
      <4>2. CASE n # m /\ n = 0
        <5>1. n \in 0..m - 1 /\ e[n] = f[n]
          BY <2>3, <2>4, <4>2
        <5> QED BY <2>6, <4>2, <5>1
      <4>3. CASE n # m /\ n # 0
        <5>1. n \in 0..m - 1 /\ n - 1 \in 0..m /\ n - 1 # m
          BY <2>3, <4>3
        <5>2. e[n] = f[n] /\ e[n - 1] = f[n - 1]
          BY <5>1, <4>3
        <5>3. f[n] = AcceptComment(f[n - 1], items[n])
          BY <2>6, <5>1, <4>3
        <5> QED BY <4>3, <5>2, <5>3
      <4> QED BY <4>1, <4>2, <4>3
    <3> HIDE DEF e
    <3>2. e = [n \in 0..m |-> e[n]]
      BY DEF e
    <3> QED BY <3>1, <3>2
  <2>8. Upto(m, e)
    BY <2>7, Zenon
  <2> HIDE DEF e, Upto
  <2> QED BY <2>3, <2>8
<1>2. k \in 0..k /\ k \notin bad
  BY <1>0, <1>1
<1>3. \E f : Upto(k, f)
  BY <1>2
<1> DEFINE taken == CHOOSE f : Upto(k, f)
<1>4. Upto(k, taken)
  BY <1>3, Zenon
<1>5. TakeComments(g, items) = taken[k]
  BY Zenon DEF TakeComments, k
<1>6. taken[0] = g /\ \A n \in 1..k : taken[n] = AcceptComment(taken[n - 1], items[n])
  <2> HIDE DEF taken
  <2>1. 0 \in 0..k /\ \A n \in 1..k : n \in 0..k /\ n # 0
    BY <1>0
  <2> QED BY <1>4, <2>1
<1> HIDE DEF taken
<1>7. CommentsSteps(taken, g, items)
  BY <1>5, <1>6 DEF CommentsSteps, k
<1> QED BY <1>7

\* The comments of a page.
LEMMA TakeCommentsKeeps ==
  ASSUME limits \in LimitChoices, NEW g, Hand(g), NEW items \in Seq(Roots)
  PROVE  LET h == TakeComments(g, items)
         IN /\ Hand(h) /\ Grows(g, h) /\ (h.marks = {} /\ Known(g) => Known(h))
            /\ h.marks = {} => ToSet(items) \subseteq ToSet(h.comments)
<1> DEFINE k == Len(items)
<1>0. k \in Nat
  OBVIOUS
<1>1. PICK f : /\ f[0] = g /\ TakeComments(g, items) = f[k]
               /\ \A n \in 1..k : f[n] = AcceptComment(f[n - 1], items[n])
  <2>1. \E f : CommentsSteps(f, g, items)
    BY <1>0, TakeCommentsSteps
  <2> QED BY <2>1 DEF CommentsSteps
<1> DEFINE All(n, h) == h.marks = {} => \A i \in 1..n : items[i] \in ToSet(h.comments)
           Keeps(h) == h.marks = {} /\ Known(g) => Known(h)
           Good(n) == Hand(f[n]) /\ Grows(g, f[n]) /\ Keeps(f[n]) /\ All(n, f[n])
           bad == {n \in 0..k : ~Good(n)}
<1>2. Good(0)
  BY <1>1, GrowsOn
<1>3. ASSUME NEW n \in 1..k, Good(n - 1)
      PROVE  Good(n)
  <2> DEFINE x == f[n - 1]
             h == f[n]
  <2>1. h = AcceptComment(x, items[n]) /\ items[n] \in Roots
    BY <1>1
  <2>2. Hand(x) /\ Grows(g, x) /\ Keeps(x) /\ All(n - 1, x)
    BY <1>3
  <2> HIDE DEF x, h
  <2>3. /\ Hand(h) /\ Grows(x, h)
        /\ h.marks = {} => items[n] \in ToSet(h.comments) /\ (Known(x) => Known(h))
    BY <2>1, <2>2, CommentKeeps
  <2>4. Grows(g, h) /\ Keeps(h)
    <3>1. Grows(g, h)
      BY <2>2, <2>3, GrowsOn
    <3>2. h.marks = {} => x.marks = {}
      BY <2>3 DEF Grows
    <3> QED BY <2>2, <2>3, <3>1, <3>2
  <2>5. All(n, h)
    <3> SUFFICES ASSUME h.marks = {}, NEW i \in 1..n
                 PROVE  items[i] \in ToSet(h.comments)
      OBVIOUS
    <3>1. x.marks = {} /\ ToSet(x.comments) \subseteq ToSet(h.comments)
      BY <2>3 DEF Grows
    <3>2. i = n \/ i \in 1..n - 1
      BY <1>0
    <3> QED BY <2>2, <2>3, <3>1, <3>2
  <2> QED BY <2>3, <2>4, <2>5 DEF h
<1> HIDE DEF Good, k
<1>4. bad = {}
  <2> SUFFICES ASSUME bad # {}
               PROVE  FALSE
    OBVIOUS
  <2>1. bad \subseteq Nat
    BY <1>0
  <2>2. PICK m \in bad : \A j \in bad : m <= j
    BY <2>1, Least
  <2>3. m \in 0..k /\ ~Good(m)
    OBVIOUS
  <2>4. m # 0
    BY <1>2, <2>3
  <2>5. m \in 1..k /\ m - 1 \in 0..k /\ ~(m <= m - 1)
    BY <1>0, <2>3, <2>4
  <2>6. Good(m - 1)
    BY <2>2, <2>5
  <2> QED BY <1>3, <2>3, <2>5, <2>6
<1>5. k \in 0..k
  BY <1>0
<1>6. Good(k)
  BY <1>4, <1>5
<1>7. f[k].marks = {} => ToSet(items) \subseteq ToSet(f[k].comments)
  <2>1. All(k, f[k])
    BY <1>6 DEF Good
  <2>2. DOMAIN items = 1..k
    BY DEF k
  <2> QED BY <2>1, <2>2 DEF ToSet
<1> QED BY <1>1, <1>6, <1>7 DEF Good

\* Only the comments, and who is still to be asked, decide what is settled.
LEMMA SameHand ==
  ASSUME NEW x, NEW y, x.comments = y.comments, x.roots = y.roots
  PROVE  /\ Hand(x) /\ y \in HandType /\ y.seen = x.seen => Hand(y)
         /\ \A list, m : Taken(x, list, m) <=> Taken(y, list, m)
         /\ Known(x) <=> Known(y)
         /\ \A m : (TopInv(x, m) <=> TopInv(y, m)) /\ (ReplyInv(x, m) <=> ReplyInv(y, m))
<1>1. TopLevel(x) = TopLevel(y) /\ Replies(x) = Replies(y) /\ \A c : RepliesTo(x, c) = RepliesTo(y, c)
  BY DEF TopLevel, Replies, RepliesTo
<1>2. Hand(x) /\ y \in HandType /\ y.seen = x.seen => Hand(y)
  BY <1>1 DEF Hand
<1>3. \A list, m : Taken(x, list, m) <=> Taken(y, list, m)
  BY DEF Taken
<1>4. Known(x) <=> Known(y)
  BY <1>1 DEF Known, Settled, LimitReached, WorkFull, RootFull
<1>5. \A m : (TopInv(x, m) <=> TopInv(y, m)) /\ (ReplyInv(x, m) <=> ReplyInv(y, m))
  BY <1>3, <1>4 DEF TopInv, ReplyInv
<1> QED BY <1>2, <1>3, <1>4, <1>5

\* What was settled stays so while there is more.
LEMMA KnownStays ==
  ASSUME limits \in LimitChoices, NEW x, NEW y, Hand(x), Hand(y), Grows(x, y), SameTop(x, y), Known(x)
  PROVE  Known(y)
<1> SUFFICES ASSUME NEW c \in Roots \cap ToSet(y.comments)
             PROVE  Settled(y, c) \/ c \in ToSet(y.roots)
  BY DEF Known
<1>1. Settled(x, c) \/ c \in ToSet(x.roots)
  BY DEF Known, SameTop
<1>2. Settled(x, c) => Settled(y, c)
  BY SettledStays
<1> QED BY <1>1, <1>2 DEF SameTop

LEMMA TakenStays ==
  ASSUME NEW x, NEW y, Grows(x, y), NEW list, NEW m, Taken(x, list, m)
  PROVE  Taken(y, list, m)
BY DEF Taken, Grows

\* Before the first page there is none.
LEMMA TakenFirst == \A g, list : Taken(g, list, First)
<1>1. 1..First - 1 = {}
  BY DEF First
<1> QED BY <1>1 DEF Taken

\* One page more has been taken.
LEMMA TakenNext ==
  ASSUME NEW g, NEW list, NEW m \in Nat, Taken(g, list, m), ToSet(list[m]) \subseteq ToSet(g.comments)
  PROVE  Taken(g, list, m + 1)
<1>1. \A i \in 1..m + 1 - 1 : i = m \/ i \in 1..m - 1
  OBVIOUS
<1> QED BY <1>1 DEF Taken

\* The comment in hand is done with.
LEMMA NextRoot ==
  ASSUME NEW g, Hand(g), g.roots # <<>>
  PROVE  LET h == [g EXCEPT !.roots = Tail(@)]
         IN /\ Hand(h) /\ h.marks = g.marks /\ h.comments = g.comments /\ h.roots = Tail(g.roots)
            /\ Known(g) /\ Settled(g, Head(g.roots)) => Known(h)
<1> DEFINE s == Tail(g.roots)
           h == [g EXCEPT !.roots = s]
<1>1. g \in HandType /\ g.roots \in Seq(Askable)
  BY DEF Hand, HandType
<1>2. s \in Seq(Askable) /\ ToSet(g.roots) \subseteq ToSet(s) \cup {Head(g.roots)}
  <2>1. s \in Seq(Askable) /\ Len(s) = Len(g.roots) - 1 /\ \A i \in 1..Len(s) : s[i] = g.roots[i + 1]
    BY <1>1
  <2>2. Head(g.roots) = g.roots[1] /\ Len(g.roots) \in Nat /\ DOMAIN g.roots = 1..Len(g.roots)
    BY <1>1
  <2> HIDE DEF s
  <2>3. ASSUME NEW i \in DOMAIN g.roots, i # 1
        PROVE  g.roots[i] \in ToSet(s)
    <3>1. i - 1 \in 1..Len(s) /\ i - 1 + 1 = i
      BY <2>1, <2>2, <2>3
    <3>2. s[i - 1] = g.roots[i]
      BY <2>1, <3>1
    <3>3. DOMAIN s = 1..Len(s)
      BY <2>1
    <3> QED BY <3>1, <3>2, <3>3 DEF ToSet
  <2>4. \A x \in ToSet(g.roots) : \E i \in DOMAIN g.roots : x = g.roots[i]
    BY DEF ToSet
  <2> QED BY <2>1, <2>2, <2>3, <2>4
<1> HIDE DEF s
<1>3. /\ h \in HandType /\ h.marks = g.marks /\ h.comments = g.comments /\ h.seen = g.seen /\ h.roots = s
  BY <1>1, <1>2 DEF HandType
<1>4. h = [g EXCEPT !.roots = Tail(@)]
  BY DEF s
<1> HIDE DEF h
<1>5. TopLevel(h) = TopLevel(g) /\ Replies(h) = Replies(g) /\ \A c : RepliesTo(h, c) = RepliesTo(g, c)
  BY <1>3 DEF TopLevel, Replies, RepliesTo
<1>6. Hand(h)
  BY <1>3, <1>5 DEF Hand
<1>7. \A c : Settled(g, c) <=> Settled(h, c)
  BY <1>3, <1>5 DEF Settled, LimitReached, WorkFull, RootFull
<1>8. Known(g) /\ Settled(g, Head(g.roots)) => Known(h)
  BY <1>2, <1>3, <1>7 DEF Known
<1> QED BY <1>3, <1>4, <1>6, <1>8 DEF s

\* A checkpoint with what is in hand.
LEMMA RestoredHand ==
  ASSUME limits \in LimitChoices, NEW g, Hand(g), NEW phase, NEW next, NEW current
  PROVE  LET r == Restored(Saved(phase, g, next, current))
         IN Hand(r) /\ r.comments = g.comments /\ r.roots = g.roots
<1> DEFINE r == Restored(Saved(phase, g, next, current))
<1>1. g \in HandType /\ g.seen = ToSet(g.comments)
  BY DEF Hand
<1>2. r = [comments |-> g.comments, seen |-> g.seen, roots |-> g.roots, marks |-> {}]
  BY <1>1 DEF Restored, Saved
<1> HIDE DEF r
<1>3. r \in HandType /\ r.comments = g.comments /\ r.seen = g.seen /\ r.roots = g.roots
  BY <1>1, <1>2 DEF HandType
<1>4. Hand(r)
  BY <1>3, SameHand
<1> QED BY <1>3, <1>4 DEF r

LEMMA SavedTop ==
  ASSUME limits \in LimitChoices, NEW g, Hand(g), NEW next \in 1..Len(Pages)
  PROVE  LET p == Saved("comments_top", g, next, NoRoot)
         IN PointOK(p) /\ (TopInv(g, next) => PointInv(p))
<1> DEFINE p == Saved("comments_top", g, next, NoRoot)
           r == Restored(p)
<1>1. Hand(r) /\ r.comments = g.comments /\ r.roots = g.roots
  BY RestoredHand
<1>2. /\ p = [phase |-> "comments_top", marker |-> next, roots |-> g.roots, current |-> NoRoot,
              comments |-> g.comments]
  BY DEF Saved
<1> HIDE DEF p, r
<1>3. g.comments \in Seq(Everything) /\ g.roots \in Seq(Askable)
  BY HandFacts
<1>4. p \in PointType
  BY <1>2, <1>3 DEF PointType
<1>5. TopInv(g, next) => TopInv(r, next)
  BY <1>1, SameHand
<1> QED BY <1>1, <1>2, <1>4, <1>5 DEF PointOK, PointInv, p, r

LEMMA SavedReplies ==
  ASSUME limits \in LimitChoices, NEW g, Hand(g), NEW next \in Nat \ {0}, NEW current \in Roots \cup {NoRoot},
         g.roots # <<>> /\ Head(g.roots) = current => next \in 1..Len(ReplyPages[current])
  PROVE  LET p == Saved("comments_replies", g, next, current)
             m == IF g.roots # <<>> /\ Head(g.roots) = current THEN next ELSE First
         IN PointOK(p) /\ (ReplyInv(g, m) => PointInv(p))
<1> DEFINE p == Saved("comments_replies", g, next, current)
           r == Restored(p)
           m == IF g.roots # <<>> /\ Head(g.roots) = current THEN next ELSE First
<1>1. Hand(r) /\ r.comments = g.comments /\ r.roots = g.roots
  BY RestoredHand
<1>2. /\ p = [phase |-> "comments_replies", marker |-> next, roots |-> g.roots, current |-> current,
              comments |-> g.comments]
  BY DEF Saved
<1> HIDE DEF p, r
<1>3. g.comments \in Seq(Everything) /\ g.roots \in Seq(Askable)
  BY HandFacts
<1>4. p \in PointType
  BY <1>2, <1>3 DEF PointType
<1>5. ReplyInv(g, m) => ReplyInv(r, m)
  BY <1>1, SameHand
<1>6. AtHead(p) <=> g.roots # <<>> /\ Head(g.roots) = current
  BY <1>2 DEF AtHead
<1>7. PointOK(p)
  BY <1>1, <1>2, <1>4, <1>6 DEF PointOK, r
<1>8. m = IF AtHead(p) THEN p.marker ELSE First
  BY <1>2, <1>6
<1>9. ReplyInv(g, m) => PointInv(p)
  <2> HIDE DEF m
  <2> QED BY <1>2, <1>5, <1>8 DEF PointInv, r
<1> QED BY <1>7, <1>9 DEF p

LEMMA SavedComplete ==
  ASSUME limits \in LimitChoices, NEW g, Hand(g), g.roots = <<>>
  PROVE  LET p == Saved("comments_complete", g, First, NoRoot)
         IN PointOK(p) /\ (ReplyInv(g, First) => PointInv(p))
<1> DEFINE p == Saved("comments_complete", g, First, NoRoot)
           r == Restored(p)
<1>1. Hand(r) /\ r.comments = g.comments /\ r.roots = g.roots
  BY RestoredHand
<1>2. /\ p = [phase |-> "comments_complete", marker |-> First, roots |-> g.roots, current |-> NoRoot,
              comments |-> g.comments]
  BY DEF Saved
<1> HIDE DEF p, r
<1>3. g.comments \in Seq(Everything) /\ g.roots \in Seq(Askable)
  BY HandFacts
<1>4. p \in PointType
  BY <1>2, <1>3 DEF PointType, First
<1>5. ReplyInv(g, First) => ReplyInv(r, First)
  BY <1>1, SameHand
<1> QED BY <1>1, <1>2, <1>4, <1>5 DEF PointOK, PointInv, AtHead, p, r

\* The next state has the invariant when what is then in hand and what is then
\* saved have it.
LEMMA InvAfter ==
  ASSUME limits \in LimitChoices, limits' = limits,
         stage' \in {"off", "top", "replies", "failed", "complete"}, attempts' \in 0..MaxAttempts,
         NEW h, got' = h, Hand(h), h.marks \subseteq told', told' \subseteq {"truncated", "partial"},
         marker' \in Nat \ {0},
         stage' = "top" => marker' \in 1..Len(Pages),
         stage' = "replies" /\ h.roots # <<>> => marker' \in 1..Len(ReplyPages[Head(h.roots)]),
         NEW p, checkpoint' = p, p = NoCheckpoint \/ PointOK(p),
         told' = {} =>
           /\ stage' = "top" => TopInv(h, marker')
           /\ stage' = "replies" => ReplyInv(h, marker')
           /\ stage' = "complete" => ReplyInv(h, marker') /\ h.roots = <<>>
           /\ p = NoCheckpoint \/ PointInv(p)
  PROVE  CommentInv'
<1>1. Hand(got)' /\ (TopInv(h, marker') => TopInv(got, marker)') /\ (ReplyInv(h, marker') => ReplyInv(got, marker)')
  <2>1. Hand(got)'
    BY DEF Hand, TopLevel, Replies, RepliesTo
  <2>2. Known(h) => Known(got)'
    BY DEF Known, Settled, LimitReached, WorkFull, RootFull, Replies, TopLevel, RepliesTo
  <2>3. TopInv(h, marker') => TopInv(got, marker)'
    BY <2>2 DEF TopInv, Taken
  <2>4. ReplyInv(h, marker') => ReplyInv(got, marker)'
    BY <2>2 DEF ReplyInv, Taken
  <2> QED BY <2>1, <2>3, <2>4
<1>2. (PointOK(p) => PointOK(checkpoint)') /\ (PointInv(p) => PointInv(checkpoint)')
  <2>1. Hand(Restored(p)) => Hand(Restored(checkpoint))'
    BY DEF Hand, TopLevel, Replies, RepliesTo, Restored
  <2>2. Known(Restored(p)) => Known(Restored(checkpoint))'
    BY DEF Known, Settled, LimitReached, WorkFull, RootFull, Replies, TopLevel, RepliesTo, Restored
  <2>3. TopInv(Restored(p), p.marker) => TopInv(Restored(checkpoint), checkpoint.marker)'
    BY <2>2 DEF TopInv, Taken, Restored
  <2>4. PointOK(p) => PointOK(checkpoint)'
    BY <2>1 DEF PointOK, AtHead
  <2>5. \A m : ReplyInv(Restored(p), m) => ReplyInv(Restored(checkpoint), m)'
    BY <2>2 DEF ReplyInv, Taken, Restored
  <2>6. PointInv(p) => PointInv(checkpoint)'
    BY <2>3, <2>5 DEF PointInv, AtHead
  <2> QED BY <2>4, <2>6
<1> QED BY <1>1, <1>2 DEF CommentInv

\* The pages, one by one and all of them.
LEMMA PageFacts ==
  /\ Len(Pages) \in Nat \ {0} /\ \A m \in 1..Len(Pages) : Pages[m] \in Seq(Roots)
  /\ \A g : Taken(g, Pages, Len(Pages) + 1) => Roots \subseteq ToSet(g.comments)
  /\ \A c \in Askable :
       /\ c \in Roots /\ Len(ReplyPages[c]) \in Nat \ {0}
       /\ \A m \in 1..Len(ReplyPages[c]) : ReplyPages[c][m] \in Seq(RepliesOf(c))
       /\ \A g : Taken(g, ReplyPages[c], Len(ReplyPages[c]) + 1) => RepliesOf(c) \subseteq ToSet(g.comments)
<1>1. Pages \in Seq(Seq(Roots)) /\ Pages # <<>>
  BY CommentPagesAssumption
<1>2. Len(Pages) \in Nat \ {0} /\ \A m \in 1..Len(Pages) : Pages[m] \in Seq(Roots)
  BY <1>1
<1>3. \A g : Taken(g, Pages, Len(Pages) + 1) => Roots \subseteq ToSet(g.comments)
  <2> SUFFICES ASSUME NEW g, Taken(g, Pages, Len(Pages) + 1), NEW x \in Roots
               PROVE  x \in ToSet(g.comments)
    OBVIOUS
  <2>1. PICK i \in DOMAIN Pages : x \in ToSet(Pages[i])
    BY DEF Roots
  <2>2. i \in 1..Len(Pages) + 1 - 1
    BY <1>1, <1>2
  <2> QED BY <2>1, <2>2 DEF Taken
<1>4. ASSUME NEW c \in Askable
      PROVE  /\ c \in Roots /\ Len(ReplyPages[c]) \in Nat \ {0}
             /\ \A m \in 1..Len(ReplyPages[c]) : ReplyPages[c][m] \in Seq(RepliesOf(c))
             /\ \A g : Taken(g, ReplyPages[c], Len(ReplyPages[c]) + 1) => RepliesOf(c) \subseteq ToSet(g.comments)
  <2>1. c \in Roots /\ ReplyPages[c] \in Seq(Seq(RepliesOf(c))) /\ ReplyPages[c] # <<>>
    BY CommentPagesAssumption DEF Askable
  <2>2. /\ Len(ReplyPages[c]) \in Nat \ {0}
        /\ \A m \in 1..Len(ReplyPages[c]) : ReplyPages[c][m] \in Seq(RepliesOf(c))
    BY <2>1
  <2>3. ASSUME NEW g, Taken(g, ReplyPages[c], Len(ReplyPages[c]) + 1), NEW x \in RepliesOf(c)
        PROVE  x \in ToSet(g.comments)
    <3>1. PICK i \in DOMAIN ReplyPages[c] : x \in ToSet(ReplyPages[c][i])
      BY DEF RepliesOf
    <3>2. i \in 1..Len(ReplyPages[c]) + 1 - 1
      BY <2>1, <2>2
    <3> QED BY <2>3, <3>1, <3>2 DEF Taken
  <2> QED BY <2>1, <2>2, <2>3
<1> QED BY <1>2, <1>3, <1>4

\* Who is asked next.
LEMMA HeadFacts ==
  ASSUME NEW g, Hand(g), g.roots # <<>>
  PROVE  /\ Head(g.roots) \in Askable /\ Head(g.roots) \in Roots /\ Head(g.roots) # NoRoot
         /\ First \in 1..Len(ReplyPages[Head(g.roots)])
<1>1. g.roots \in Seq(Askable)
  BY DEF Hand, HandType
<1>2. Head(g.roots) \in Askable
  BY <1>1
<1> QED BY <1>2, PageFacts, CommentPagesAssumption DEF First

\* With nothing in hand nothing is known, and nothing is missing of it.
LEMMA NothingHand ==
  ASSUME limits \in LimitChoices
  PROVE  Hand(Nothing) /\ TopInv(Nothing, First) /\ Nothing.marks = {} /\ Nothing.roots = <<>>
<1> DEFINE h == Nothing
<1>1. h \in HandType /\ h.comments = <<>> /\ h.seen = {} /\ h.roots = <<>> /\ h.marks = {}
  BY DEF Nothing, HandType
<1> HIDE DEF h
<1>2. {i \in DOMAIN h.comments : h.comments[i] \in Roots} = {} /\ \A c \in Roots : {i \in DOMAIN h.comments : h.comments[i] \in RepliesOf(c)} = {}
  BY <1>1
<1>3. TopLevel(h) = 0 /\ \A c \in Roots : RepliesTo(h, c) = 0
  BY <1>2, FS_EmptySet DEF TopLevel, RepliesTo, CountIn
<1>4. Replies(h) = 0
  BY <1>1, <1>3 DEF Replies
<1>5. ToSet(h.comments) = {} /\ IsInjective(h.comments)
  BY <1>1 DEF ToSet, IsInjective
<1>6. limits \in [top : Nat \ {0}, perRoot : Nat \ {0}, perWork : Nat \ {0}]
  BY CommentPagesAssumption
<1>7. Hand(h)
  BY <1>1, <1>3, <1>4, <1>5, <1>6 DEF Hand
<1>8. TopInv(h, First)
  BY <1>5 DEF TopInv, Taken, Known, First
<1> QED BY <1>1, <1>7, <1>8 DEF h

LEMMA CommentInitInv == CommentInit => CommentInv
<1> SUFFICES ASSUME CommentInit
             PROVE  CommentInv
  OBVIOUS
<1>1. limits \in LimitChoices /\ got = Nothing /\ stage = "off" /\ checkpoint = NoCheckpoint /\ told = {}
  BY DEF CommentInit
<1>2. Hand(got) /\ got.marks = {}
  BY <1>1, NothingHand
<1>3. attempts \in 0..MaxAttempts /\ marker \in Nat \ {0}
  BY CommentPagesAssumption DEF CommentInit, First
<1> QED BY <1>1, <1>2, <1>3 DEF CommentInv

LEMMA CollectKeepsInv ==
  ASSUME CommentInv, Collect
  PROVE  CommentInv'
<1>0. /\ limits \in LimitChoices /\ limits' = limits /\ checkpoint' = checkpoint
      /\ checkpoint = NoCheckpoint \/ PointOK(checkpoint)
      /\ told \subseteq {"truncated", "partial"} /\ told' = told \cup got'.marks
      /\ told = {} => checkpoint = NoCheckpoint \/ PointInv(checkpoint)
  BY DEF CommentInv, Collect
<1>1. attempts' \in 0..MaxAttempts
  BY CommentPagesAssumption DEF CommentInv, Collect
<1>2. CASE checkpoint = NoCheckpoint
  <2>1. got' = Nothing /\ marker' = First /\ stage' = "top"
    BY <1>2 DEF Collect
  <2>2. Hand(Nothing) /\ TopInv(Nothing, First) /\ Nothing.marks = {}
    BY <1>0, NothingHand
  <2>3. First \in Nat \ {0} /\ First \in 1..Len(Pages)
    BY PageFacts DEF First
  <2> QED BY <1>0, <1>1, <1>2, <2>1, <2>2, <2>3, InvAfter
<1>3. CASE checkpoint # NoCheckpoint
  <2> DEFINE g == Restored(checkpoint)
             full == TopLevel(g) >= limits.top
             h == IF full \/ WorkFull(g) THEN Mark(g, "truncated") ELSE g
             at == checkpoint.roots # <<>> /\ Head(checkpoint.roots) = checkpoint.current
  <2>1. /\ got' = h
        /\ stage' = IF checkpoint.phase = "comments_complete" THEN "complete"
                    ELSE IF checkpoint.phase = "comments_top" /\ ~full THEN "top" ELSE "replies"
        /\ marker' = IF stage' = "top" \/ at THEN checkpoint.marker ELSE First
    BY <1>3 DEF Collect
  <2>2. PointOK(checkpoint)
    BY <1>0, <1>3
  <2>3. /\ checkpoint \in PointType /\ Hand(g) /\ g.roots = checkpoint.roots /\ g.marks = {}
        /\ checkpoint.phase \in {"comments_top", "comments_replies", "comments_complete"}
        /\ checkpoint.marker \in Nat \ {0}
    BY <2>2 DEF PointOK, PointType, Restored
  <2>4. /\ at <=> AtHead(checkpoint)
        /\ told = {} => PointInv(checkpoint)
    BY <1>0, <1>3 DEF AtHead
  <2> HIDE DEF g, full, at
  <2>5. /\ Hand(h) /\ h.comments = g.comments /\ h.roots = g.roots
        /\ h.marks \subseteq {"truncated", "partial"} /\ (full => h.marks # {})
    <3>1. CASE full \/ WorkFull(g)
      <4>1. h = Mark(g, "truncated")
        BY <3>1
      <4> HIDE DEF h
      <4>2. Hand(h) /\ h.comments = g.comments /\ h.roots = g.roots /\ h.marks # {}
        BY <1>0, <2>3, <4>1, MarkKeeps
      <4>3. h.marks \subseteq {"truncated", "partial"}
        BY <4>2 DEF Hand, HandType
      <4> QED BY <4>2, <4>3
    <3>2. CASE ~(full \/ WorkFull(g))
      BY <2>3, <3>2
    <3> QED BY <3>1, <3>2
  <2> HIDE DEF h
  <2>6. at /\ checkpoint.phase # "comments_complete" => checkpoint.phase = "comments_replies"
    <3>1. at => checkpoint.current # NoRoot
      BY <2>3, HeadFacts DEF at
    <3> QED BY <2>2, <2>3, <3>1 DEF PointOK
  <2>7. marker' \in Nat \ {0}
    BY <2>1, <2>3 DEF First
  <2>8. stage' = "top" => checkpoint.phase = "comments_top" /\ marker' = checkpoint.marker /\ ~full
    BY <2>1
  <2>9. stage' = "top" => marker' \in 1..Len(Pages)
    BY <2>2, <2>8 DEF PointOK
  <2>10. stage' = "replies" /\ h.roots # <<>> => marker' \in 1..Len(ReplyPages[Head(h.roots)])
    <3> SUFFICES ASSUME stage' = "replies", h.roots # <<>>
                 PROVE  marker' \in 1..Len(ReplyPages[Head(h.roots)])
      OBVIOUS
    <3>1. CASE at
      <4>1. checkpoint.phase = "comments_replies" /\ marker' = checkpoint.marker
        BY <2>1, <2>6, <3>1
      <4> QED BY <2>2, <2>3, <2>4, <2>5, <3>1, <4>1 DEF PointOK, at
    <3>2. CASE ~at
      <4>1. marker' = First
        BY <2>1, <3>2
      <4> QED BY <2>5, <4>1, HeadFacts
    <3> QED BY <3>1, <3>2
  <2>11. ASSUME told' = {}
         PROVE  /\ stage' = "top" => TopInv(h, marker')
                /\ stage' = "replies" => ReplyInv(h, marker')
                /\ stage' = "complete" => ReplyInv(h, marker') /\ h.roots = <<>>
                /\ PointInv(checkpoint)
    <3>1. told = {} /\ h.marks = {} /\ ~full
      BY <1>0, <2>1, <2>5, <2>11
    <3>2. PointInv(checkpoint)
      BY <2>4, <3>1
    <3>3. stage' = "top" => TopInv(h, marker')
      <4>1. stage' = "top" => TopInv(g, marker')
        BY <2>8, <3>2 DEF PointInv, g
      <4> QED BY <2>5, <4>1, SameHand
    <3>4. stage' # "top" => ReplyInv(h, marker')
      <4>1. stage' # "top" => checkpoint.phase # "comments_top"
        BY <2>1, <3>1
      <4>2. stage' # "top" => ReplyInv(g, IF AtHead(checkpoint) THEN checkpoint.marker ELSE First)
        BY <3>2, <4>1 DEF PointInv, g
      <4>3. stage' # "top" => ReplyInv(g, marker')
        BY <2>1, <2>4, <4>2
      <4> QED BY <2>5, <4>3, SameHand
    <3>5. stage' = "complete" => h.roots = <<>>
      BY <2>1, <2>2, <2>3, <2>5 DEF PointOK
    <3> QED BY <3>2, <3>3, <3>4, <3>5
  <2>12. stage' \in {"off", "top", "replies", "failed", "complete"}
    BY <2>1
  <2>13. h.marks \subseteq told' /\ told' \subseteq {"truncated", "partial"}
    BY <1>0, <2>1, <2>5
  <2> QED BY <1>0, <1>1, <1>3, <2>1, <2>2, <2>5, <2>7, <2>9, <2>10, <2>11, <2>12, <2>13, InvAfter
<1> QED BY <1>2, <1>3

LEMMA FailKeepsInv ==
  ASSUME CommentInv, Fail
  PROVE  CommentInv'
<1>0. /\ limits \in LimitChoices /\ limits' = limits /\ got' = got /\ marker' = marker /\ told' = told
      /\ stage' = "failed" /\ attempts' \in 0..MaxAttempts
      /\ Hand(got) /\ got.marks \subseteq told /\ told \subseteq {"truncated", "partial"}
      /\ marker \in Nat \ {0}
  BY DEF CommentInv, Fail
<1> DEFINE p == checkpoint'
<1>1. PointOK(p) /\ (told = {} => PointInv(p))
  <2>1. CASE stage = "top" /\ checkpoint' = Saved("comments_top", got, marker, NoRoot)
    <3>1. marker \in 1..Len(Pages) /\ (told = {} => TopInv(got, marker))
      BY <2>1 DEF CommentInv
    <3> QED BY <1>0, <2>1, <3>1, SavedTop
  <2>2. CASE /\ stage = "replies" /\ got.roots # <<>>
             /\ checkpoint' = Saved("comments_replies", StillAsked(got), marker, Head(got.roots))
    <3>1. marker \in 1..Len(ReplyPages[Head(got.roots)]) /\ (told = {} => ReplyInv(got, marker))
      BY <2>2 DEF CommentInv
    <3>2. Head(got.roots) \in Roots \cup {NoRoot}
      BY <1>0, <2>2, HeadFacts
    <3>3. checkpoint' = Saved("comments_replies", got, marker, Head(got.roots))
      BY <2>2 DEF StillAsked
    <3> QED BY <1>0, <2>2, <3>1, <3>2, <3>3, SavedReplies
  <2> QED BY <2>1, <2>2 DEF Fail
<1> HIDE DEF p
<1>2. checkpoint' = p
  BY DEF p
<1> QED BY <1>0, <1>1, <1>2, InvAfter

LEMMA DieKeepsInv ==
  ASSUME CommentInv, Die
  PROVE  CommentInv'
<1>0. /\ limits \in LimitChoices /\ limits' = limits /\ got' = got /\ marker' = marker /\ told' = told
      /\ stage' = "failed" /\ attempts' \in 0..MaxAttempts /\ checkpoint' = checkpoint
      /\ Hand(got) /\ got.marks \subseteq told /\ told \subseteq {"truncated", "partial"}
      /\ marker \in Nat \ {0} /\ (checkpoint = NoCheckpoint \/ PointOK(checkpoint))
      /\ told = {} => checkpoint = NoCheckpoint \/ PointInv(checkpoint)
  BY DEF CommentInv, Die
<1> QED BY <1>0, InvAfter

LEMMA SkipRootKeepsInv ==
  ASSUME CommentInv, SkipRoot
  PROVE  CommentInv'
<1>0. /\ limits \in LimitChoices /\ limits' = limits /\ told' = told \cup {"truncated"}
      /\ stage' = "replies" /\ attempts' \in 0..MaxAttempts /\ checkpoint' = checkpoint
      /\ Hand(got) /\ told \subseteq {"truncated", "partial"} /\ got.roots # <<>>
      /\ marker' = First /\ (checkpoint = NoCheckpoint \/ PointOK(checkpoint))
      /\ got' = [Mark(got, "truncated") EXCEPT !.roots = Tail(@)]
  BY DEF CommentInv, SkipRoot
<1> DEFINE g == Mark(got, "truncated")
           h == [g EXCEPT !.roots = Tail(@)]
<1>1. Hand(g) /\ g.roots # <<>>
  BY <1>0, MarkKeeps
<1> HIDE DEF g
<1>2. Hand(h)
  BY <1>1, NextRoot
<1>3. got' = h
  BY <1>0 DEF g
<1> HIDE DEF h
<1>4. h.marks \subseteq {"truncated", "partial"} /\ h.marks \subseteq told'
  <2>1. h.marks = got.marks \cup {"truncated"} /\ got.marks \subseteq told
    <3>1. got \in HandType /\ got.marks \subseteq told
      BY <1>0 DEF Hand, CommentInv
    <3> QED BY <3>1 DEF h, g, Mark, HandType
  <2> QED BY <1>0, <2>1
<1>5. h.roots # <<>> => marker' \in 1..Len(ReplyPages[Head(h.roots)])
  BY <1>0, <1>2, HeadFacts
<1>6. marker' \in Nat \ {0} /\ told' # {} /\ told' \subseteq {"truncated", "partial"}
  BY <1>0 DEF First
<1> QED BY <1>0, <1>2, <1>3, <1>4, <1>5, <1>6, InvAfter

LEMMA FinishKeepsInv ==
  ASSUME CommentInv, Finish
  PROVE  CommentInv'
<1> DEFINE h == IF got.roots # <<>> THEN Mark(got, "truncated") ELSE got
           g == [got EXCEPT !.roots = <<>>]
           p == Saved("comments_complete", g, First, NoRoot)
<1>0. /\ limits \in LimitChoices /\ limits' = limits /\ got' = h /\ told' = told \cup h.marks
      /\ stage' = "complete" /\ attempts' \in 0..MaxAttempts /\ checkpoint' = p
      /\ Hand(got) /\ told \subseteq {"truncated", "partial"}
      /\ marker' = marker /\ marker \in Nat \ {0}
      /\ told = {} => ReplyInv(got, marker)
  BY DEF CommentInv, Finish
<1>1. Hand(h) /\ (got.roots # <<>> => h.marks # {})
  BY <1>0, MarkKeeps
<1>2. Hand(g) /\ g.roots = <<>> /\ g.comments = got.comments
  <2>1. got \in HandType
    BY <1>0 DEF Hand
  <2>2. /\ g \in HandType /\ g.comments = got.comments /\ g.seen = got.seen /\ g.roots = <<>>
        /\ g.marks = got.marks
    <3>1. <<>> \in Seq(Askable)
      OBVIOUS
    <3> QED BY <2>1, <3>1 DEF HandType
  <2> HIDE DEF g
  <2>3. TopLevel(g) = TopLevel(got) /\ Replies(g) = Replies(got) /\ \A c : RepliesTo(g, c) = RepliesTo(got, c)
    BY <2>2 DEF TopLevel, Replies, RepliesTo
  <2> QED BY <1>0, <2>2, <2>3 DEF Hand
<1> HIDE DEF g
<1>3. PointOK(p) /\ (ReplyInv(g, First) => PointInv(p))
  BY <1>0, <1>2, SavedComplete
<1>4. ASSUME told' = {}
      PROVE  ReplyInv(h, marker') /\ h.roots = <<>> /\ PointInv(p)
  <2>1. told = {} /\ got.roots = <<>> /\ h = got
    BY <1>0, <1>1, <1>4
  <2>2. ReplyInv(got, marker)
    BY <1>0, <2>1
  <2>3. ReplyInv(got, First)
    BY <2>1, <2>2 DEF ReplyInv
  <2>4. ReplyInv(g, First)
    BY <1>2, <2>1, <2>3, SameHand
  <2> QED BY <1>0, <1>3, <2>1, <2>2, <2>4
<1> HIDE DEF h, p
<1>5. h.marks \subseteq told' /\ told' \subseteq {"truncated", "partial"}
  BY <1>0, <1>1 DEF Hand, HandType
<1> QED BY <1>0, <1>1, <1>3, <1>4, <1>5, InvAfter

LEMMA ReplyPageKeepsInv ==
  ASSUME CommentInv, ReplyPage
  PROVE  CommentInv'
<1> DEFINE c == Head(got.roots)
           g == TakeReplies(c, got, ReplyPages[c][marker])
           next(present) == IF present /\ marker < Len(ReplyPages[c]) THEN marker + 1 ELSE First
           h(present) == IF LimitReached(g, c) THEN Mark(g, "truncated")
                         ELSE IF ~present THEN Mark(g, "partial") ELSE g
<1>0. /\ limits \in LimitChoices /\ limits' = limits /\ stage' = stage /\ stage = "replies"
      /\ attempts' \in 0..MaxAttempts /\ got.roots # <<>> /\ ~LimitReached(got, c)
      /\ Hand(got) /\ got.marks \subseteq told /\ told \subseteq {"truncated", "partial"}
      /\ marker \in 1..Len(ReplyPages[c])
      /\ told = {} => ReplyInv(got, marker)
  BY DEF CommentInv, ReplyPage
<1>1. PICK present \in BOOLEAN :
        /\ checkpoint' = Saved("comments_replies", g, next(present), c)
        /\ told' = told \cup h(present).marks
        /\ IF LimitReached(g, c) \/ next(present) = First
           THEN marker' = First /\ got' = [h(present) EXCEPT !.roots = Tail(@)]
           ELSE marker' = next(present) /\ got' = h(present)
  BY DEF ReplyPage
<1> DEFINE n == next(present)
           x == h(present)
           last == LimitReached(g, c) \/ n = First
           y == IF last THEN [x EXCEPT !.roots = Tail(@)] ELSE x
           p == Saved("comments_replies", g, n, c)
<1>2. c \in Askable /\ c \in Roots /\ First \in 1..Len(ReplyPages[c])
  BY <1>0, HeadFacts
<1>3. /\ Len(ReplyPages[c]) \in Nat \ {0} /\ ReplyPages[c][marker] \in Seq(RepliesOf(c))
      /\ Taken(g, ReplyPages[c], Len(ReplyPages[c]) + 1) => RepliesOf(c) \subseteq ToSet(g.comments)
  BY <1>0, <1>2, PageFacts
<1> HIDE DEF c
<1>4. /\ Hand(g) /\ Grows(got, g) /\ SameTop(got, g)
      /\ g.marks = {} => ToSet(ReplyPages[c][marker]) \subseteq ToSet(g.comments)
  BY <1>0, <1>2, <1>3, TakeRepliesKeeps
<1> HIDE DEF g
<1>5. g.roots # <<>> /\ Head(g.roots) = c
  BY <1>0, <1>4 DEF SameTop, c
<1>6. n \in 1..Len(ReplyPages[c]) /\ n \in Nat \ {0}
  BY <1>0, <1>2, <1>3 DEF First
<1>7. /\ Hand(x) /\ x.comments = g.comments /\ x.roots = g.roots /\ g.marks \subseteq x.marks
      /\ LimitReached(g, c) \/ ~present => x.marks # {}
  <2>1. CASE LimitReached(g, c)
    <3>1. x = Mark(g, "truncated")
      BY <2>1
    <3> HIDE DEF x
    <3> QED BY <1>0, <1>4, <3>1, MarkKeeps DEF Grows
  <2>2. CASE ~LimitReached(g, c) /\ ~present
    <3>1. x = Mark(g, "partial")
      BY <2>2
    <3> HIDE DEF x
    <3> QED BY <1>0, <1>4, <3>1, MarkKeeps DEF Grows
  <2>3. CASE ~LimitReached(g, c) /\ present
    BY <1>4, <2>3
  <2> QED BY <2>1, <2>2, <2>3
<1>8. /\ checkpoint' = p /\ told' = told \cup x.marks /\ got' = y
      /\ marker' = IF last THEN First ELSE n
  BY <1>1
<1>9. present /\ n # First => n = marker + 1
  OBVIOUS
<1>10. present /\ n = First => marker = Len(ReplyPages[c])
  BY <1>0, <1>3 DEF First
<1> HIDE DEF next, n, h, x
<1>11. PointOK(p) /\ (ReplyInv(g, n) => PointInv(p))
  BY <1>0, <1>2, <1>4, <1>5, <1>6, SavedReplies
<1> HIDE DEF p
<1>12. Hand(y) /\ y.marks = x.marks /\ (~last => y.roots = g.roots)
  BY <1>5, <1>7, NextRoot
<1>13. ASSUME told' = {}
       PROVE  ReplyInv(y, marker') /\ PointInv(p)
  <2>1. told = {} /\ x.marks = {} /\ g.marks = {} /\ present /\ ~LimitReached(g, c)
    BY <1>7, <1>8, <1>13
  <2>2. ReplyInv(got, marker)
    BY <1>0, <2>1
  <2>3. Known(g) /\ Roots \subseteq ToSet(g.comments)
    <3>1. Known(got) /\ Roots \subseteq ToSet(got.comments)
      BY <2>2 DEF ReplyInv
    <3>2. Known(g)
      BY <1>0, <1>4, <3>1, KnownStays
    <3> QED BY <1>4, <3>1, <3>2 DEF Grows
  <2>4. Taken(g, ReplyPages[c], marker + 1)
    <3>1. Taken(got, ReplyPages[c], marker)
      BY <1>0, <2>2 DEF ReplyInv, c
    <3>2. Taken(g, ReplyPages[c], marker)
      BY <1>4, <3>1, TakenStays
    <3>3. marker \in Nat
      BY <1>0, <1>3
    <3> QED BY <1>4, <2>1, <3>2, <3>3, TakenNext
  <2>5. CASE n # First
    <3>1. ReplyInv(g, n)
      BY <1>5, <1>9, <2>1, <2>3, <2>4, <2>5 DEF ReplyInv
    <3>2. y = x /\ marker' = n
      BY <1>8, <2>1, <2>5
    <3>3. ReplyInv(x, n)
      BY <1>7, <3>1, SameHand
    <3> QED BY <1>11, <3>1, <3>2, <3>3
  <2>6. CASE n = First
    <3>1. ReplyInv(g, n)
      BY <2>3, <2>6, TakenFirst DEF ReplyInv
    <3>2. y = [x EXCEPT !.roots = Tail(@)] /\ marker' = First
      BY <1>8, <2>6
    <3>3. RepliesOf(c) \subseteq ToSet(g.comments)
      BY <1>3, <1>10, <2>1, <2>4, <2>6
    <3>4. Known(x) /\ Settled(x, c) /\ c = Head(x.roots)
      BY <1>5, <1>7, <2>3, <3>3, SameHand DEF Settled
    <3>5. Known(y) /\ y.comments = x.comments
      BY <1>5, <1>7, <3>2, <3>4, NextRoot
    <3>6. ReplyInv(y, First)
      BY <1>7, <2>3, <3>5, TakenFirst DEF ReplyInv
    <3> QED BY <1>11, <3>1, <3>2, <3>6
  <2> QED BY <2>5, <2>6
<1>14. y.roots # <<>> => marker' \in 1..Len(ReplyPages[Head(y.roots)])
  <2>1. CASE last
    BY <1>8, <1>12, <2>1, HeadFacts
  <2>2. CASE ~last
    BY <1>5, <1>6, <1>8, <1>12, <2>2
  <2> QED BY <2>1, <2>2
<1>15. marker' \in Nat \ {0}
  BY <1>6, <1>8 DEF First
<1> HIDE DEF y, last
<1>16. y.marks \subseteq told' /\ told' \subseteq {"truncated", "partial"}
  BY <1>0, <1>7, <1>8, <1>12 DEF Hand, HandType
<1> QED BY <1>0, <1>8, <1>11, <1>12, <1>13, <1>14, <1>15, <1>16, InvAfter

LEMMA TopPageKeepsInv ==
  ASSUME CommentInv, TopPage
  PROVE  CommentInv'
<1> DEFINE items == Pages[marker]
           next(present) == IF present /\ marker < Len(Pages) THEN marker + 1 ELSE First
           g == TakeComments(got, items)
           verdict(present, counted) == PageVerdict(g, items, next(present), present, counted)
           h(v) == IF v \in {"truncated", "partial"} THEN Mark(g, v) ELSE g
<1>0. /\ limits \in LimitChoices /\ limits' = limits /\ stage = "top" /\ attempts' \in 0..MaxAttempts
      /\ Hand(got) /\ got.marks \subseteq told /\ told \subseteq {"truncated", "partial"}
      /\ marker \in 1..Len(Pages) /\ (told = {} => TopInv(got, marker))
  BY DEF CommentInv, TopPage
<1>1. PICK present \in BOOLEAN, counted \in BOOLEAN :
        /\ checkpoint' = Saved(IF present /\ next(present) = First THEN "comments_replies" ELSE "comments_top",
                               g, next(present), NoRoot)
        /\ got' = h(verdict(present, counted)) /\ told' = told \cup h(verdict(present, counted)).marks
        /\ IF verdict(present, counted) = "goes on" THEN marker' = next(present) /\ UNCHANGED stage
           ELSE marker' = First /\ stage' = "replies"
  BY DEF TopPage
<1> DEFINE n == next(present)
           v == verdict(present, counted)
           x == h(v)
           ends == present /\ n = First
           p == Saved(IF ends THEN "comments_replies" ELSE "comments_top", g, n, NoRoot)
<1>2. /\ checkpoint' = p /\ got' = x /\ told' = told \cup x.marks
      /\ IF v = "goes on" THEN marker' = n /\ stage' = "top" ELSE marker' = First /\ stage' = "replies"
  BY <1>0, <1>1
<1>3. Len(Pages) \in Nat \ {0} /\ items \in Seq(Roots)
  BY <1>0, PageFacts
<1>4. n \in 1..Len(Pages) /\ n \in Nat \ {0} /\ (n # First => present /\ n = marker + 1)
  BY <1>0, <1>3 DEF First
<1>5. ends => marker = Len(Pages)
  BY <1>0, <1>3 DEF First
<1>6. v = "goes on" => present /\ n # First
  BY DEF PageVerdict
<1>7. /\ Hand(g) /\ Grows(got, g) /\ (g.marks = {} /\ Known(got) => Known(g))
      /\ g.marks = {} => ToSet(items) \subseteq ToSet(g.comments)
  BY <1>0, <1>3, TakeCommentsKeeps
<1>8. v \notin {"truncated", "partial", "goes on"} =>
        \/ ends \/ Everything = {}
        \/ Cardinality(Everything) > 0 /\ Len(g.comments) >= Cardinality(Everything)
  <2> HIDE DEF g, n, next, items
  <2>1. v = PageVerdict(g, items, n, present, counted)
    BY DEF n
  <2> HIDE DEF v, verdict
  <2> QED BY <2>1 DEF PageVerdict
<1> HIDE DEF g, items, v, verdict, n, next
<1>9. /\ Hand(x) /\ x.comments = g.comments /\ x.roots = g.roots /\ g.marks \subseteq x.marks
      /\ v \in {"truncated", "partial"} => x.marks # {}
  <2>1. CASE v \in {"truncated", "partial"}
    <3>1. x = Mark(g, v)
      BY <2>1
    <3> HIDE DEF x
    <3> QED BY <1>0, <1>7, <2>1, <3>1, MarkKeeps DEF Grows
  <2>2. CASE v \notin {"truncated", "partial"}
    BY <1>7, <2>2
  <2> QED BY <2>1, <2>2
<1> HIDE DEF h, x
<1>10. /\ ends => PointOK(p) /\ (ReplyInv(g, First) => PointInv(p))
       /\ ~ends => PointOK(p) /\ (TopInv(g, n) => PointInv(p))
  <2>1. CASE ends
    <3>1. p = Saved("comments_replies", g, n, NoRoot)
      BY <2>1
    <3>2. g.roots # <<>> => Head(g.roots) # NoRoot
      BY <1>7, HeadFacts
    <3> HIDE DEF p, ends
    <3>3. PointOK(p) /\ (ReplyInv(g, First) => PointInv(p))
      BY <1>0, <1>4, <1>7, <3>1, <3>2, SavedReplies
    <3> QED BY <2>1, <3>3
  <2>2. CASE ~ends
    <3>1. p = Saved("comments_top", g, n, NoRoot)
      BY <2>2
    <3> HIDE DEF p, ends
    <3>2. PointOK(p) /\ (TopInv(g, n) => PointInv(p))
      BY <1>0, <1>4, <1>7, <3>1, SavedTop
    <3> QED BY <2>2, <3>2
  <2> QED BY <2>1, <2>2
<1> HIDE DEF p
<1>11. ASSUME told' = {}
       PROVE  /\ stage' = "top" => TopInv(x, marker')
              /\ stage' = "replies" => ReplyInv(x, marker')
              /\ PointInv(p)
  <2>1. told = {} /\ g.marks = {} /\ v \notin {"truncated", "partial"}
    BY <1>2, <1>9, <1>11
  <2>2. Known(got) /\ Taken(got, Pages, marker)
    BY <1>0, <2>1 DEF TopInv
  <2>3. Known(g)
    BY <1>7, <2>1, <2>2
  <2>4. Taken(g, Pages, marker + 1)
    <3>1. Taken(g, Pages, marker)
      BY <1>7, <2>2, TakenStays
    <3>2. marker \in Nat
      BY <1>0, <1>3
    <3> QED BY <1>7, <2>1, <3>1, <3>2, TakenNext DEF items
  <2>5. TopInv(g, First)
    BY <2>3, TakenFirst DEF TopInv
  <2>6. present /\ n # First => TopInv(g, n)
    BY <1>4, <2>3, <2>4 DEF TopInv
  <2>7. ends => Roots \subseteq ToSet(g.comments)
    BY <1>5, <2>4, PageFacts
  <2>8. v # "goes on" => ReplyInv(g, First)
    <3> SUFFICES ASSUME v # "goes on"
                 PROVE  Roots \subseteq ToSet(g.comments)
      BY <2>3, TakenFirst DEF ReplyInv
    <3>1. CASE ends
      BY <2>7, <3>1
    <3>2. CASE Everything = {}
      BY <3>2 DEF Everything
    <3>3. CASE Len(g.comments) >= Cardinality(Everything)
      <4>1. g.comments \in Seq(Everything) /\ IsInjective(g.comments)
        BY <1>0, <1>7, HandFacts DEF Hand
      <4>2. ToSet(g.comments) = Everything
        BY <3>3, <4>1, EverythingFinite, AllTaken
      <4> QED BY <4>2 DEF Everything
    <3> QED BY <1>8, <2>1, <3>1, <3>2, <3>3
  <2>9. ends => ReplyInv(g, First)
    BY <2>3, <2>7, TakenFirst DEF ReplyInv
  <2>10. PointInv(p)
    <3>1. CASE ends
      BY <1>10, <2>9, <3>1
    <3>2. CASE n = First /\ ~ends
      <4>1. TopInv(g, n)
        BY <2>5, <3>2
      <4> QED BY <1>10, <3>2, <4>1
    <3>3. CASE n # First
      BY <1>4, <1>10, <2>6, <3>3
    <3> QED BY <3>1, <3>2, <3>3
  <2>11. stage' = "top" => TopInv(x, marker')
    <3>1. stage' = "top" => TopInv(g, marker')
      BY <1>2, <1>6, <2>6
    <3> QED BY <1>9, <3>1, SameHand
  <2>12. stage' = "replies" => ReplyInv(x, marker')
    <3>1. stage' = "replies" => ReplyInv(g, marker')
      BY <1>2, <2>8
    <3> QED BY <1>9, <3>1, SameHand
  <2> QED BY <2>10, <2>11, <2>12
<1>12. /\ stage' = "top" => marker' \in 1..Len(Pages)
       /\ stage' = "replies" /\ x.roots # <<>> => marker' \in 1..Len(ReplyPages[Head(x.roots)])
       /\ marker' \in Nat \ {0} /\ stage' \in {"top", "replies"}
  <2>1. stage' = "replies" => marker' = First
    BY <1>2
  <2>2. First \in Nat \ {0}
    BY DEF First
  <2> QED BY <1>2, <1>4, <1>9, <2>1, <2>2, HeadFacts
<1>13. x.marks \subseteq told' /\ told' \subseteq {"truncated", "partial"}
  BY <1>0, <1>2, <1>9 DEF Hand, HandType
<1>14. PointOK(p)
  BY <1>10
<1> QED BY <1>0, <1>2, <1>9, <1>11, <1>12, <1>13, <1>14, InvAfter

\* A comment that is missing is below one whose limit is reached.
LEMMA InvSuffices == CommentInv => CommentTypeOK /\ NothingLostSilently
<1> SUFFICES ASSUME CommentInv
             PROVE  CommentTypeOK /\ NothingLostSilently
  OBVIOUS
<1>1. limits \in LimitChoices /\ Hand(got)
  BY DEF CommentInv
<1>2. got.comments \in Seq(Everything) /\ got.roots \in Seq(Askable) /\ got \in HandType
  BY <1>1, HandFacts DEF Hand
<1>3. ToSet(got.comments) \subseteq Everything /\ ToSet(got.roots) \subseteq Roots
  <2>1. Askable \subseteq Roots
    BY DEF Askable
  <2> QED BY <1>2, <2>1 DEF ToSet
<1>4. checkpoint.phase \in {"none", "comments_top", "comments_replies", "comments_complete"}
  BY DEF CommentInv, NoCheckpoint, PointOK, PointType
<1>5. got.seen \subseteq Everything /\ got.marks \subseteq {"truncated", "partial"}
  BY <1>2 DEF HandType
<1>6. CommentTypeOK
  BY <1>3, <1>4, <1>5 DEF CommentInv, CommentTypeOK
<1>7. ASSUME stage = "complete", told = {}, NEW x \in Everything \ ToSet(got.comments)
      PROVE  \E c \in ToSet(got.comments) \cap Roots : x \in RepliesOf(c) /\ LimitReached(got, c)
  <2>1. ReplyInv(got, marker) /\ got.roots = <<>>
    BY <1>7 DEF CommentInv
  <2>2. Roots \subseteq ToSet(got.comments) /\ Known(got)
    BY <2>1 DEF ReplyInv
  <2>3. PICK c \in Roots : x \in RepliesOf(c)
    BY <1>7, <2>2 DEF Everything
  <2>4. c \notin ToSet(got.roots)
    BY <2>1 DEF ToSet
  <2>5. Settled(got, c)
    BY <2>2, <2>4 DEF Known
  <2> QED BY <1>7, <2>2, <2>3, <2>5 DEF Settled
<1>8. NothingLostSilently
  BY <1>1, <1>7 DEF NothingLostSilently, Hand
<1> QED BY <1>6, <1>8

\* NothingLostSilently and the types of CommentPages, for any pages, limits and
\* number of collectors: comments.go:60-347.
THEOREM CommentsAccounted == CommentSpec => [](CommentTypeOK /\ NothingLostSilently)
<1>1. CommentInv /\ [CommentNext]_commentVars => CommentInv'
  <2> SUFFICES ASSUME CommentInv, [CommentNext]_commentVars
               PROVE  CommentInv'
    OBVIOUS
  <2>1. CASE CommentNext
    BY <2>1, CollectKeepsInv, FailKeepsInv, DieKeepsInv, TopPageKeepsInv, SkipRootKeepsInv,
       ReplyPageKeepsInv, FinishKeepsInv DEF CommentNext
  <2>2. CASE UNCHANGED commentVars
    <3>1. /\ limits' = limits /\ stage' = stage /\ got' = got /\ marker' = marker
          /\ checkpoint' = checkpoint /\ attempts' = attempts /\ told' = told
      BY <2>2 DEF commentVars
    <3> QED BY <3>1, InvAfter DEF CommentInv
  <2> QED BY <2>1, <2>2
<1> QED BY <1>1, CommentInitInv, InvSuffices, PTL DEF CommentSpec

=============================================================================
