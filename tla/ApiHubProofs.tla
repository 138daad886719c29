---------------------------- MODULE ApiHubProofs ----------------------------
(***************************************************************************)
(* What ApiHub keeps true for any number of callers, pages, connections    *)
(* and workers and any capacities: its types, that a call gets no answer   *)
(* but its own, that it implements CallService, and that its registry, its *)
(* counters of calls, its table of requests and its channels say what is   *)
(* going on.                                                               *)
(*                                                                         *)
(* The argument for answers: every message that is anywhere, in a buffer,  *)
(* a queue, a worker or a page, and was made for a call of this process    *)
(* carries that call's number less the calls made before the restart; so   *)
(* does the caller; and a response channel holds only messages with its    *)
(* own id.  The argument for room in the channels: there is one copy of    *)
(* each message, and of those with one id at most one from each process.   *)
(***************************************************************************)
EXTENDS ApiHub, FiniteSetTheorems, TLAPS

\* The messages that may exist: made for a call already made, and if that was a
\* call of this process, with the id it was given.
Tagged == {m \in Message : /\ m.no <= calls /\ (m.no <= oldCalls \/ m.no = m.id + oldCalls)
                           /\ m.no = 0 => m.id = 0}
\* Those with id i.
TaggedAs(i) == {m \in Tagged : m.id = i}
TaggedFrame == [type : {"ready", "unready", "ping", "answer"}, msg : Tagged]

HistInv ==
  /\ calls \in 0..MaxCalls /\ oldCalls \in 0..calls
  /\ notices \in 0..MaxNotices /\ restarts \in 0..MaxRestarts
  /\ oldCalls > 0 => restarts > 0
HubInv ==
  /\ clients \subseteq Conns /\ lastClient \in Conns \cup {NoConn}
  /\ hubOp \in [op : {"register", "unregister"}, conn : Conns] \cup {Idle}
TableInv ==
  /\ requests \subseteq Ids
  /\ reqSeq \in Nat /\ reqSeq + oldCalls = calls
  /\ chan \in [Ids -> Channel]
  /\ \A i \in Ids : chan[i].buf \in Seq(TaggedAs(i))
ClientInv ==
  /\ closed \in [Conns -> BOOLEAN] /\ ready \in [Conns -> BOOLEAN]
  /\ active \in [Conns -> Nat]
  /\ outbox \in [Conns -> Seq(Tagged)]
  /\ reader \in [Conns -> {"none", "registering", "reading", "draining", "leaving", "closing",
                           "done"}]
  /\ writer \in [Conns -> {"none", "writing", "done"}]
InboxInv ==
  /\ queue \in [Conns -> Seq(Tagged)]
  /\ task \in [Conns -> [Slots -> Tagged]]
CallInv ==
  /\ callPc \in [Callers -> Pcs] /\ callConn \in [Callers -> Conns \cup {NoConn}]
  /\ callId \in [Callers -> 0..MaxCalls] /\ callNo \in [Callers -> 0..MaxCalls]
  /\ answer \in [Callers -> Tagged]
  /\ \A k \in Callers : callPc[k] \in {"enrolled", "waiting", "ended", "forgotten"} =>
       callId[k] \in Ids /\ callNo[k] = callId[k] + oldCalls /\ callNo[k] <= calls
  /\ \A k \in Callers : answer[k] # NoMessage =>
       answer[k].id = callId[k] /\ callPc[k] \in {"ended", "forgotten"}
PageInv ==
  /\ link \in [Conns -> {"unused", "up", "down"}]
  /\ uplink \in [Conns -> Seq(TaggedFrame)]
  /\ work \in [Pages -> SUBSET Tagged]

Inv == HistInv /\ HubInv /\ TableInv /\ ClientInv /\ InboxInv /\ CallInv /\ PageInv

LEMMA SeqMonotone ==
  ASSUME NEW S, NEW T, S \subseteq T, NEW s \in Seq(S)
  PROVE  s \in Seq(T)
OBVIOUS

LEMMA AppendSeq ==
  ASSUME NEW S, NEW s \in Seq(S), NEW e \in S
  PROVE  Append(s, e) \in Seq(S)
OBVIOUS

LEMMA TailSeq ==
  ASSUME NEW S, NEW s \in Seq(S), s # <<>>
  PROVE  Tail(s) \in Seq(S) /\ Head(s) \in S
OBVIOUS

LEMMA EmptySeq == ASSUME NEW S PROVE <<>> \in Seq(S)
OBVIOUS

\* Nothing is tagged anew unless a call is made or the process restarted.
LEMMA TaggedStays ==
  ASSUME UNCHANGED <<calls, oldCalls>>
  PROVE  Tagged' = Tagged /\ TaggedFrame' = TaggedFrame /\ \A i : TaggedAs(i)' = TaggedAs(i)
BY DEF Tagged, TaggedFrame, TaggedAs

LEMMA NoticeTagged == HistInv => Notice \in Tagged /\ NoMessage \in Tagged
BY ApiHubAssumption DEF HistInv, Tagged, Message, Notice, NoMessage

LEMMA InitInv == Init => Inv
<1> SUFFICES ASSUME Init PROVE Inv
  OBVIOUS
<1>1. HistInv
  BY ApiHubAssumption DEF Init, HistInv
<1>2. NoMessage \in Tagged
  BY <1>1, NoticeTagged
<1>3. HubInv /\ PageInv
  BY EmptySeq DEF Init, HubInv, PageInv
<1>4. TableInv
  <2>1. requests = {} /\ reqSeq = 0 /\ oldCalls = 0 /\ calls = 0
    BY DEF Init
  <2>2. NoChannel \in Channel /\ NoChannel.buf = <<>>
    BY EmptySeq DEF NoChannel, Channel
  <2>3. chan \in [Ids -> Channel] /\ \A i \in Ids : chan[i].buf = <<>>
    BY <2>2 DEF Init
  <2>4. \A i \in Ids : chan[i].buf \in Seq(TaggedAs(i))
    BY <2>3, EmptySeq
  <2> QED BY <2>1, <2>3, <2>4 DEF TableInv
<1>5. ClientInv /\ InboxInv
  BY <1>2, EmptySeq DEF Init, ClientInv, InboxInv
<1>6. CallInv
  BY <1>2, ApiHubAssumption DEF Init, CallInv, Pcs
<1> QED BY <1>1, <1>3, <1>4, <1>5, <1>6 DEF Inv

LEMMA ExceptType ==
  ASSUME NEW S, NEW T, NEW f \in [S -> T], NEW x, NEW v, x \in S => v \in T
  PROVE  [f EXCEPT ![x] = v] \in [S -> T]
OBVIOUS

\* The parts of the invariant an action does not touch.
LEMMA Untouched ==
  ASSUME Inv, UNCHANGED <<calls, oldCalls>>
  PROVE  /\ UNCHANGED <<notices, restarts>> => HistInv'
         /\ UNCHANGED hub => HubInv'
         /\ UNCHANGED table => TableInv'
         /\ UNCHANGED <<closed, ready, active, outbox, reader, writer>> => ClientInv'
         /\ UNCHANGED <<queue, task>> => InboxInv'
         /\ UNCHANGED call => CallInv'
         /\ UNCHANGED page => PageInv'
<1>1. Tagged' = Tagged /\ TaggedFrame' = TaggedFrame /\ \A i : TaggedAs(i)' = TaggedAs(i)
  BY TaggedStays
<1>2. UNCHANGED <<notices, restarts>> => HistInv'
  BY DEF Inv, HistInv
<1>3. UNCHANGED hub => HubInv'
  BY DEF Inv, HubInv, hub
<1>4. UNCHANGED table => TableInv'
  BY <1>1 DEF Inv, TableInv, table
<1>5. UNCHANGED <<closed, ready, active, outbox, reader, writer>> => ClientInv'
  BY <1>1 DEF Inv, ClientInv
<1>6. UNCHANGED <<queue, task>> => InboxInv'
  BY <1>1 DEF Inv, InboxInv
<1>7. UNCHANGED call => CallInv'
  BY <1>1 DEF Inv, CallInv, call
<1>8. UNCHANGED page => PageInv'
  BY <1>1 DEF Inv, PageInv, page
<1> QED BY <1>2, <1>3, <1>4, <1>5, <1>6, <1>7, <1>8

\* A response worker, or ReadPump in its place.
LEMMA WorkerKeepsInv ==
  ASSUME Inv, NEW c \in Conns, NEW s \in Slots, WorkerTake(c, s) \/ Deliver(c, s)
  PROVE  Inv'
<1>1. CASE WorkerTake(c, s)
  <2>1. UNCHANGED <<calls, oldCalls>>
    BY <1>1 DEF WorkerTake, hist
  <2>2. Tagged' = Tagged /\ TaggedFrame' = TaggedFrame /\ \A i : TaggedAs(i)' = TaggedAs(i)
    BY <2>1, TaggedStays
  <2>3. InboxInv'
    <3>1. Head(queue[c]) \in Tagged /\ Tail(queue[c]) \in Seq(Tagged)
      BY <1>1, TailSeq DEF WorkerTake, Inv, InboxInv
    <3>2. LookUp(Head(queue[c])) \in Tagged
      BY <3>1, NoticeTagged DEF LookUp, Inv
    <3> QED BY <1>1, <2>2, <3>1, <3>2 DEF WorkerTake, Inv, InboxInv
  <2> QED BY <1>1, <2>1, <2>3, Untouched DEF WorkerTake, Inv, hub, table, conn, call, page, hist
<1>2. CASE Deliver(c, s)
  <2>1. UNCHANGED <<calls, oldCalls>>
    BY <1>2 DEF Deliver, hist
  <2>2. Tagged' = Tagged /\ TaggedFrame' = TaggedFrame /\ \A i : TaggedAs(i)' = TaggedAs(i)
    BY <2>1, TaggedStays
  <2>3. TableInv'
    <3> DEFINE m == task[c][s]
    <3>1. m \in Tagged
      BY DEF Inv, InboxInv
    <3>2. CASE m.id \notin Ids
      <4>1. UNCHANGED <<requests, reqSeq>> /\ chan' = chan
        BY <1>2, <3>2 DEF Deliver, Inv, TableInv
      <4> QED BY <2>1, <2>2, <4>1 DEF Inv, TableInv
    <3>3. CASE m.id \in Ids
      <4>1. m \in TaggedAs(m.id)
        BY <3>1 DEF TaggedAs
      <4>2. Append(chan[m.id].buf, m) \in Seq(TaggedAs(m.id))
        BY <3>3, <4>1, AppendSeq DEF Inv, TableInv
      <4>3. chan[m.id].buf \in Seq(Message) /\ m \in Message
        BY <3>1, <3>3 DEF Inv, TableInv, Channel, Tagged
      <4>4. Append(chan[m.id].buf, m) \in Seq(Message)
        BY <4>3, AppendSeq
      <4>5. \/ chan' = chan
            \/ chan' = [chan EXCEPT ![m.id].buf = Append(chan[m.id].buf, m)]
        BY <1>2 DEF Deliver
      <4>6. chan' \in [Ids -> Channel]
        BY <3>3, <4>4, <4>5 DEF Inv, TableInv, Channel
      <4>7. \A i \in Ids : chan'[i].buf \in Seq(TaggedAs(i))
        BY <3>3, <4>2, <4>5 DEF Inv, TableInv, Channel
      <4>8. UNCHANGED <<requests, reqSeq>>
        BY <1>2 DEF Deliver
      <4> QED BY <2>1, <2>2, <4>6, <4>7, <4>8 DEF Inv, TableInv
    <3> QED BY <3>2, <3>3
  <2>4. ClientInv'
    BY <1>2, <2>1, <2>2 DEF Deliver, Inv, ClientInv
  <2>5. InboxInv'
    <3>1. NoMessage \in Tagged
      BY NoticeTagged DEF Inv
    <3> QED BY <1>2, <2>2, <3>1 DEF Deliver, Inv, InboxInv
  <2> QED BY <1>2, <2>1, <2>3, <2>4, <2>5, Untouched DEF Deliver, Inv, hub, table, conn, call, page, hist
<1> QED BY <1>1, <1>2

\* ReadPump and its workers.
LEMMA ReaderKeepsInv ==
  ASSUME Inv, NEW c \in Conns, Reader(c)
  PROVE  Inv'
<1>1. CASE ReaderTake(c)
  <2>1. UNCHANGED <<calls, oldCalls>>
    BY <1>1 DEF ReaderTake, hist
  <2>2. Tagged' = Tagged /\ TaggedFrame' = TaggedFrame /\ \A i : TaggedAs(i)' = TaggedAs(i)
    BY <2>1, TaggedStays
  <2>3. ClientInv'
    <3>1. Append(outbox[c], Notice) \in Seq(Tagged)
      BY NoticeTagged, AppendSeq DEF Inv, ClientInv
    <3>2. outbox' \in [Conns -> Seq(Tagged)]
      BY <1>1, <3>1 DEF ReaderTake, Inv, ClientInv
    <3>3. ready' \in [Conns -> BOOLEAN]
      BY <1>1, Zenon DEF ReaderTake, Inv, ClientInv
    <3> QED BY <1>1, <2>2, <3>2, <3>3 DEF ReaderTake, Inv, ClientInv
  <2>4. InboxInv'
    <3>1. Head(uplink[c]) \in TaggedFrame
      BY <1>1, TailSeq DEF ReaderTake, Inv, PageInv
    <3>2. Head(uplink[c]).msg \in Tagged
      BY <3>1 DEF TaggedFrame
    <3>3. LookUp(Head(uplink[c]).msg) \in Tagged
      BY <3>2, NoticeTagged DEF LookUp, Inv
    <3>4. Append(queue[c], Head(uplink[c]).msg) \in Seq(Tagged)
      BY <3>2, AppendSeq DEF Inv, InboxInv
    <3>5. \/ queue' = queue
          \/ queue' = [queue EXCEPT ![c] = Append(queue[c], Head(uplink[c]).msg)]
      BY <1>1 DEF ReaderTake
    <3>6. task' = task \/ task' = [task EXCEPT ![c][0] = LookUp(Head(uplink[c]).msg)]
      BY <1>1 DEF ReaderTake
    <3>7. queue' \in [Conns -> Seq(Tagged)]
      BY <3>4, <3>5 DEF Inv, InboxInv
    <3>8. task' \in [Conns -> [Slots -> Tagged]]
      <4>1. [task[c] EXCEPT ![0] = LookUp(Head(uplink[c]).msg)] \in [Slots -> Tagged]
        BY <3>3 DEF Inv, InboxInv
      <4>2. task' = task \/ task' = [task EXCEPT ![c] =
                                   [task[c] EXCEPT ![0] = LookUp(Head(uplink[c]).msg)]]
        BY <3>6
      <4> QED BY <4>1, <4>2 DEF Inv, InboxInv
    <3> QED BY <2>2, <3>7, <3>8 DEF InboxInv
  <2>5. PageInv'
    BY <1>1, <2>1, <2>2, TailSeq DEF ReaderTake, Inv, PageInv
  <2> QED BY <1>1, <2>1, <2>3, <2>4, <2>5, Untouched DEF ReaderTake, Inv, hub, table, conn, call, page, hist
<1>2. CASE ReaderFail(c)
  <2>1. UNCHANGED <<calls, oldCalls>>
    BY <1>2 DEF ReaderFail, hist
  <2>2. Tagged' = Tagged /\ TaggedFrame' = TaggedFrame /\ \A i : TaggedAs(i)' = TaggedAs(i)
    BY <2>1, TaggedStays
  <2>3. ClientInv'
    BY <1>2, <2>1, <2>2 DEF ReaderFail, Inv, ClientInv
  <2>4. PageInv'
    BY <1>2, <2>1, <2>2, EmptySeq DEF ReaderFail, Inv, PageInv
  <2> QED BY <1>2, <2>1, <2>3, <2>4, Untouched DEF ReaderFail, Inv, hub, table, conn, call, page, hist
<1>3. CASE ReaderLeave(c)
  <2>1. UNCHANGED <<calls, oldCalls>>
    BY <1>3 DEF ReaderLeave, hist
  <2>2. Tagged' = Tagged /\ TaggedFrame' = TaggedFrame /\ \A i : TaggedAs(i)' = TaggedAs(i)
    BY <2>1, TaggedStays
  <2>3. ClientInv'
    BY <1>3, <2>1, <2>2 DEF ReaderLeave, Inv, ClientInv
  <2> QED BY <1>3, <2>1, <2>3, Untouched DEF ReaderLeave, Inv, hub, table, conn, call, page, hist
<1>4. CASE ReaderClose(c)
  <2>1. UNCHANGED <<calls, oldCalls>>
    BY <1>4 DEF ReaderClose, hist
  <2>2. Tagged' = Tagged /\ TaggedFrame' = TaggedFrame /\ \A i : TaggedAs(i)' = TaggedAs(i)
    BY <2>1, TaggedStays
  <2>3. ClientInv'
    BY <1>4, <2>1, <2>2, EmptySeq DEF ReaderClose, Inv, ClientInv, Close
  <2>4. PageInv'
    BY <1>4, <2>1, <2>2 DEF ReaderClose, Inv, PageInv, Close
  <2> QED BY <1>4, <2>1, <2>3, <2>4, Untouched DEF ReaderClose, Inv, hub, table, conn, call, page, hist
<1>5. CASE \E s \in Slots : WorkerTake(c, s) \/ Deliver(c, s)
  BY <1>5, WorkerKeepsInv
<1> QED BY <1>1, <1>2, <1>3, <1>4, <1>5 DEF Reader

\* WritePump.
LEMMA WriterKeepsInv ==
  ASSUME Inv, NEW c \in Conns, Writer(c)
  PROVE  Inv'
<1>1. CASE WriterSend(c)
  <2>1. UNCHANGED <<calls, oldCalls>>
    BY <1>1 DEF WriterSend, hist
  <2>2. Tagged' = Tagged /\ TaggedFrame' = TaggedFrame /\ \A i : TaggedAs(i)' = TaggedAs(i)
    BY <2>1, TaggedStays
  <2>3. ClientInv'
    BY <1>1, <2>1, <2>2, TailSeq DEF WriterSend, Inv, ClientInv
  <2>4. PageInv'
    <3>1. Head(outbox[c]) \in Tagged
      BY <1>1, TailSeq DEF WriterSend, Inv, ClientInv
    <3>2. PageOf[c] \in Pages
      BY ApiHubAssumption
    <3> QED BY <1>1, <2>2, <3>1, <3>2 DEF WriterSend, Inv, PageInv
  <2> QED BY <1>1, <2>1, <2>3, <2>4, Untouched DEF WriterSend, Inv, hub, table, conn, call, page, hist
<1>2. CASE WriterEnd(c)
  <2>1. UNCHANGED <<calls, oldCalls>>
    BY <1>2 DEF WriterEnd, hist
  <2>2. Tagged' = Tagged /\ TaggedFrame' = TaggedFrame /\ \A i : TaggedAs(i)' = TaggedAs(i)
    BY <2>1, TaggedStays
  <2>3. ClientInv'
    BY <1>2, <2>1, <2>2, EmptySeq DEF WriterEnd, Inv, ClientInv, Close
  <2>4. PageInv'
    BY <1>2, <2>1, <2>2 DEF WriterEnd, Inv, PageInv, Close
  <2> QED BY <1>2, <2>1, <2>3, <2>4, Untouched DEF WriterEnd, Inv, hub, table, conn, call, page, hist
<1> QED BY <1>1, <1>2 DEF Writer

\* Hub.Run and the broadcasts.
LEMMA HubKeepsInv ==
  ASSUME Inv, Hub
  PROVE  Inv'
<1>1. CASE HubRegister
  <2>1. UNCHANGED <<calls, oldCalls>>
    BY <1>1 DEF HubRegister, hist
  <2>2. Tagged' = Tagged /\ TaggedFrame' = TaggedFrame /\ \A i : TaggedAs(i)' = TaggedAs(i)
    BY <2>1, TaggedStays
  <2>3. HubInv'
    BY <1>1, <2>1, <2>2 DEF HubRegister, Inv, HubInv, Idle
  <2> QED BY <1>1, <2>1, <2>3, Untouched DEF HubRegister, Inv, hub, table, conn, call, page, hist
<1>2. CASE HubUnregister
  <2>1. UNCHANGED <<calls, oldCalls>>
    BY <1>2 DEF HubUnregister, hist
  <2>2. Tagged' = Tagged /\ TaggedFrame' = TaggedFrame /\ \A i : TaggedAs(i)' = TaggedAs(i)
    BY <2>1, TaggedStays
  <2>3. HubInv'
    BY <1>2, <2>1, <2>2 DEF HubUnregister, Inv, HubInv, Idle
  <2>4. ClientInv'
    <3>1. hubOp.conn \in Conns
      BY <1>2 DEF HubUnregister, Inv, HubInv, Idle
    <3>2. \/ UNCHANGED <<closed, outbox>>
          \/ /\ closed' = [closed EXCEPT ![hubOp.conn] = TRUE]
             /\ outbox' = [outbox EXCEPT ![hubOp.conn] = <<>>]
      BY <1>2 DEF HubUnregister, Close
    <3>3. closed' \in [Conns -> BOOLEAN]
      BY <3>2, Zenon DEF Inv, ClientInv
    <3>5. outbox' \in [Conns -> Seq(Tagged)]
      <4>1. outbox \in [Conns -> Seq(Tagged)] /\ <<>> \in Seq(Tagged)
        BY EmptySeq DEF Inv, ClientInv
      <4>2. [outbox EXCEPT ![hubOp.conn] = <<>>] \in [Conns -> Seq(Tagged)]
        BY <4>1, ExceptType
      <4> QED BY <3>2, <4>1, <4>2
    <3>4. UNCHANGED <<ready, active, reader, writer>>
      BY <1>2 DEF HubUnregister
    <3> QED BY <2>2, <3>3, <3>4, <3>5 DEF Inv, ClientInv
  <2>5. PageInv'
    BY <1>2, <2>1, <2>2 DEF HubUnregister, Inv, PageInv, Close
  <2> QED BY <1>2, <2>1, <2>3, <2>4, <2>5, Untouched DEF HubUnregister, Inv, hub, table, conn, call, page, hist
<1>3. CASE Broadcast
  <2>1. UNCHANGED <<calls, oldCalls>>
    BY <1>3 DEF Broadcast, hist
  <2>2. Tagged' = Tagged /\ TaggedFrame' = TaggedFrame /\ \A i : TaggedAs(i)' = TaggedAs(i)
    BY <2>1, TaggedStays
  <2>3. HistInv'
    BY <1>3, <2>1, <2>2, ApiHubAssumption DEF Broadcast, Inv, HistInv
  <2>4. ClientInv'
    <3>1. \A c \in Conns : Append(outbox[c], Notice) \in Seq(Tagged)
      BY NoticeTagged, AppendSeq DEF Inv, ClientInv
    <3> QED BY <1>3, <2>2, <3>1 DEF Broadcast, Inv, ClientInv
  <2> QED BY <1>3, <2>1, <2>3, <2>4, Untouched DEF Broadcast, Inv, hub, table, conn, call, page, hist
<1>4. CASE \E c \in Conns : HubReceive(c)
  <2>1. PICK c \in Conns : HubReceive(c)
    BY <1>4
  <2>2. UNCHANGED <<calls, oldCalls>>
    BY <2>1 DEF HubReceive, hist
  <2>3. Tagged' = Tagged
    BY <2>2, TaggedStays
  <2>4. HubInv'
    BY <2>1 DEF HubReceive, Inv, HubInv
  <2>5. ClientInv'
    BY <2>1, <2>3 DEF HubReceive, Inv, ClientInv
  <2> QED BY <2>1, <2>2, <2>4, <2>5, Untouched DEF HubReceive, Inv, hub, table, conn, call, page, hist
<1> QED BY <1>1, <1>2, <1>3, <1>4 DEF Hub

\* What a page does with a socket.
LEMMA SocketKeepsInv ==
  ASSUME Inv, NEW c \in Conns, Dial(c) \/ PageState(c) \/ PagePing(c) \/ PageDrop(c)
  PROVE  Inv'
<1>1. CASE Dial(c)
  <2>1. UNCHANGED <<calls, oldCalls>>
    BY <1>1 DEF Dial, hist
  <2>2. Tagged' = Tagged /\ TaggedFrame' = TaggedFrame /\ \A i : TaggedAs(i)' = TaggedAs(i)
    BY <2>1, TaggedStays
  <2>3. ClientInv'
    BY <1>1, <2>1, <2>2 DEF Dial, Inv, ClientInv
  <2>4. PageInv'
    <3>1. \A t \in {"ready", "unready"} : [type |-> t, msg |-> Notice] \in TaggedFrame
      BY NoticeTagged DEF Inv, TaggedFrame
    <3>2. PICK t \in {"ready", "unready"} : Post(c, t, Notice)
      BY <1>1 DEF Dial
    <3>3. Append(uplink[c], [type |-> t, msg |-> Notice]) \in Seq(TaggedFrame)
      BY <3>1, AppendSeq DEF Inv, PageInv
    <3> QED BY <1>1, <2>2, <3>2, <3>3 DEF Dial, Post, Inv, PageInv
  <2> QED BY <1>1, <2>1, <2>3, <2>4, Untouched DEF Dial, Inv, hub, table, conn, call, page, hist
<1>2. CASE PageState(c)
  <2>1. UNCHANGED <<calls, oldCalls>>
    BY <1>2 DEF PageState, hist
  <2>2. Tagged' = Tagged /\ TaggedFrame' = TaggedFrame /\ \A i : TaggedAs(i)' = TaggedAs(i)
    BY <2>1, TaggedStays
  <2>3. HistInv'
    BY <1>2, <2>1, <2>2, ApiHubAssumption DEF PageState, Inv, HistInv
  <2>4. PageInv'
    <3>1. \A t \in {"ready", "unready"} : [type |-> t, msg |-> Notice] \in TaggedFrame
      BY NoticeTagged DEF Inv, TaggedFrame
    <3>2. PICK t \in {"ready", "unready"} : Post(c, t, Notice)
      BY <1>2 DEF PageState
    <3>3. Append(uplink[c], [type |-> t, msg |-> Notice]) \in Seq(TaggedFrame)
      BY <3>1, AppendSeq DEF Inv, PageInv
    <3> QED BY <1>2, <2>2, <3>2, <3>3 DEF PageState, Post, Inv, PageInv
  <2> QED BY <1>2, <2>1, <2>3, <2>4, Untouched DEF PageState, Inv, hub, table, conn, call, page, hist
<1>3. CASE PagePing(c)
  <2>1. UNCHANGED <<calls, oldCalls>>
    BY <1>3 DEF PagePing, hist
  <2>2. Tagged' = Tagged /\ TaggedFrame' = TaggedFrame /\ \A i : TaggedAs(i)' = TaggedAs(i)
    BY <2>1, TaggedStays
  <2>3. HistInv'
    BY <1>3, <2>1, <2>2, ApiHubAssumption DEF PagePing, Inv, HistInv
  <2>4. PageInv'
    <3>1. [type |-> "ping", msg |-> Notice] \in TaggedFrame
      BY NoticeTagged DEF Inv, TaggedFrame
    <3>2. Append(uplink[c], [type |-> "ping", msg |-> Notice]) \in Seq(TaggedFrame)
      BY <3>1, AppendSeq DEF Inv, PageInv
    <3> QED BY <1>3, <2>2, <3>2 DEF PagePing, Post, Inv, PageInv
  <2> QED BY <1>3, <2>1, <2>3, <2>4, Untouched DEF PagePing, Inv, hub, table, conn, call, page, hist
<1>4. CASE PageDrop(c)
  <2>1. UNCHANGED <<calls, oldCalls>>
    BY <1>4 DEF PageDrop, hist
  <2>2. Tagged' = Tagged /\ TaggedFrame' = TaggedFrame /\ \A i : TaggedAs(i)' = TaggedAs(i)
    BY <2>1, TaggedStays
  <2>3. PageInv'
    BY <1>4, <2>1, <2>2, ApiHubAssumption DEF PageDrop, Inv, PageInv
  <2> QED BY <1>4, <2>1, <2>3, Untouched DEF PageDrop, Inv, hub, table, conn, call, page, hist
<1> QED BY <1>1, <1>2, <1>3, <1>4

\* An answer of a page.
LEMMA PageAnswerKeepsInv ==
  ASSUME Inv, NEW p \in Pages, PageAnswer(p)
  PROVE  Inv'
<1>1. CASE PageAnswer(p)
  <2>1. UNCHANGED <<calls, oldCalls>>
    BY <1>1 DEF PageAnswer, hist
  <2>2. Tagged' = Tagged /\ TaggedFrame' = TaggedFrame /\ \A i : TaggedAs(i)' = TaggedAs(i)
    BY <2>1, TaggedStays
  <2>3. PageInv'
    <3>1. PICK m \in work[p] :
            /\ work' = [work EXCEPT ![p] = @ \ {m}]
            /\ (\E c \in Conns : Post(c, "answer", m)) \/ uplink' = uplink
      BY <1>1 DEF PageAnswer
    <3>2. m \in Tagged
      BY DEF Inv, PageInv
    <3>3. [type |-> "answer", msg |-> m] \in TaggedFrame
      BY <3>2 DEF TaggedFrame
    <3>4. \A c \in Conns : Append(uplink[c], [type |-> "answer", msg |-> m]) \in Seq(TaggedFrame)
      BY <3>3, AppendSeq DEF Inv, PageInv
    <3>5. uplink' \in [Conns -> Seq(TaggedFrame)]
      BY <3>1, <3>4 DEF Post, Inv, PageInv
    <3>6. link' = link
      BY <1>1 DEF PageAnswer
    <3> QED BY <2>2, <3>1, <3>5, <3>6 DEF Inv, PageInv
  <2> QED BY <1>1, <2>1, <2>3, Untouched DEF PageAnswer, Inv, hub, table, conn, call, page, hist
<1> QED BY <1>1

\* CallAPI.
LEMMA CallerKeepsInv ==
  ASSUME Inv, NEW k \in Callers, Caller(k)
  PROVE  Inv'
<1>1. CASE CallSelect(k)
  <2>1. UNCHANGED <<calls, oldCalls>>
    BY <1>1 DEF CallSelect, hist
  <2>2. Tagged' = Tagged /\ TaggedFrame' = TaggedFrame /\ \A i : TaggedAs(i)' = TaggedAs(i)
    BY <2>1, TaggedStays
  <2>3. CallInv'
    <3>1. PICK c \in clients : callConn' = [callConn EXCEPT ![k] = c]
      BY <1>1 DEF CallSelect
    <3>2. /\ callPc[k] = "idle" /\ callPc' = [callPc EXCEPT ![k] = "selected"]
          /\ UNCHANGED <<callId, callNo, answer>>
      BY <1>1 DEF CallSelect
    <3>3. callConn' \in [Callers -> Conns \cup {NoConn}]
      BY <3>1 DEF Inv, CallInv, HubInv
    <3>4. callPc' \in [Callers -> Pcs]
      BY <3>2 DEF Inv, CallInv, Pcs
    <3> QED BY <2>1, <2>2, <3>2, <3>3, <3>4 DEF Inv, CallInv
  <2> QED BY <1>1, <2>1, <2>3, Untouched DEF CallSelect, Inv, hub, table, conn, call, page, hist
<1>2. CASE CallEnrol(k)
  <2>1. calls' = calls + 1 /\ oldCalls' = oldCalls /\ calls < MaxCalls /\ MaxCalls \in Nat
    BY <1>2, ApiHubAssumption DEF CallEnrol
  <2>2. Tagged \subseteq Tagged' /\ TaggedFrame \subseteq TaggedFrame'
    BY <2>1 DEF Tagged, TaggedFrame, Inv, HistInv, Message
  <2>3. \A i : TaggedAs(i) \subseteq TaggedAs(i)'
    BY <2>2 DEF TaggedAs
  <2>4. HistInv'
    BY <1>2, <2>1 DEF CallEnrol, Inv, HistInv
  <2>5. HubInv'
    BY <1>2 DEF CallEnrol, hub, Inv, HubInv
  <2>6. reqSeq' = reqSeq + 1 /\ reqSeq' \in Ids /\ reqSeq' + oldCalls' = calls'
    BY <1>2, <2>1 DEF CallEnrol, NextId, Inv, TableInv, HistInv, Ids
  <2>7. TableInv'
    <3>1. chan' = [chan EXCEPT ![reqSeq'] = [open |-> TRUE, buf |-> <<>>]]
      BY <1>2 DEF CallEnrol
    <3>2. [open |-> TRUE, buf |-> <<>>] \in Channel
      BY EmptySeq DEF Channel
    <3>3. chan' \in [Ids -> Channel]
      BY <3>1, <3>2 DEF Inv, TableInv
    <3>4. ASSUME NEW i \in Ids
          PROVE  chan'[i].buf \in Seq(TaggedAs(i)')
      <4>1. CASE i = reqSeq'
        BY <3>1, <4>1, EmptySeq DEF Inv, TableInv
      <4>2. CASE i # reqSeq'
        <5>1. chan'[i].buf \in Seq(TaggedAs(i))
          BY <3>1, <4>2 DEF Inv, TableInv
        <5> QED BY <2>3, <5>1, SeqMonotone
      <4> QED BY <4>1, <4>2
    <3>5. requests' \subseteq Ids
      BY <1>2, <2>6 DEF CallEnrol, Inv, TableInv
    <3> QED BY <2>6, <3>3, <3>4, <3>5 DEF TableInv, Ids
  <2>8. ClientInv'
    <3>1. \A c \in Conns : outbox'[c] \in Seq(Tagged')
      BY <1>2, <2>2, SeqMonotone DEF CallEnrol, Inv, ClientInv
    <3>2. outbox' \in [Conns -> Seq(Tagged')]
      BY <1>2, <3>1 DEF CallEnrol, Inv, ClientInv
    <3>3. active' \in [Conns -> Nat]
      <4>1. active' = [active EXCEPT ![callConn[k]] = active[callConn[k]] + 1]
        BY <1>2 DEF CallEnrol
      <4>2. \A c \in Conns : active[c] \in Nat /\ active[c] + 1 \in Nat
        BY DEF Inv, ClientInv
      <4> QED BY <4>1, <4>2 DEF Inv, ClientInv
    <3>4. UNCHANGED <<closed, ready, reader, writer>>
      BY <1>2 DEF CallEnrol
    <3> QED BY <3>2, <3>3, <3>4 DEF Inv, ClientInv
  <2>9. InboxInv'
    <3>1. UNCHANGED <<queue, task>>
      BY <1>2 DEF CallEnrol
    <3>2. \A c \in Conns : queue'[c] \in Seq(Tagged')
      BY <2>2, <3>1, SeqMonotone DEF Inv, InboxInv
    <3> QED BY <2>2, <3>1, <3>2 DEF Inv, InboxInv
  <2>10. CallInv'
    <3>1. callNo' = [callNo EXCEPT ![k] = calls'] /\ callId' = [callId EXCEPT ![k] = reqSeq']
      BY <1>2 DEF CallEnrol
    <3>2. callPc' = [callPc EXCEPT ![k] = "enrolled"] /\ UNCHANGED <<callConn, answer>>
      BY <1>2 DEF CallEnrol
    <3>3. callPc[k] = "selected"
      BY <1>2 DEF CallEnrol
    <3>4. answer[k] = NoMessage
      BY <3>3 DEF Inv, CallInv
    <3>5. calls \in Nat /\ oldCalls \in Nat /\ calls' \in 0..MaxCalls /\ reqSeq' \in 0..MaxCalls
      BY <2>1, <2>6 DEF Inv, HistInv, Ids
    <3>6. answer' \in [Callers -> Tagged']
      BY <2>2, <3>2 DEF Inv, CallInv
    <3>7. ASSUME NEW j \in Callers,
                 callPc'[j] \in {"enrolled", "waiting", "ended", "forgotten"}
          PROVE  callId'[j] \in Ids /\ callNo'[j] = callId'[j] + oldCalls' /\ callNo'[j] <= calls'
      <4>1. CASE j = k
        BY <2>1, <2>6, <3>1, <3>5, <4>1 DEF Inv, CallInv
      <4>2. CASE j # k
        BY <2>1, <3>1, <3>2, <3>5, <3>7, <4>2 DEF Inv, CallInv
      <4> QED BY <4>1, <4>2
    <3>8. \A j \in Callers : answer'[j] # NoMessage =>
            answer'[j].id = callId'[j] /\ callPc'[j] \in {"ended", "forgotten"}
      BY <3>1, <3>2, <3>4 DEF Inv, CallInv
    <3>9. /\ callPc' \in [Callers -> Pcs] /\ callConn' \in [Callers -> Conns \cup {NoConn}]
          /\ callId' \in [Callers -> 0..MaxCalls] /\ callNo' \in [Callers -> 0..MaxCalls]
      BY <3>1, <3>2, <3>5 DEF Inv, CallInv, Pcs
    <3> QED BY <3>6, <3>7, <3>8, <3>9 DEF CallInv
  <2>11. PageInv'
    <3>1. UNCHANGED page
      BY <1>2 DEF CallEnrol
    <3>2. \A c \in Conns : uplink'[c] \in Seq(TaggedFrame')
      BY <2>2, <3>1, SeqMonotone DEF Inv, PageInv, page
    <3> QED BY <2>2, <3>1, <3>2 DEF Inv, PageInv, page
  <2> QED BY <2>4, <2>5, <2>7, <2>8, <2>9, <2>10, <2>11 DEF Inv
<1>3. CASE CallSend(k)
  <2>1. UNCHANGED <<calls, oldCalls>>
    BY <1>3 DEF CallSend, hist
  <2>2. Tagged' = Tagged /\ TaggedFrame' = TaggedFrame /\ \A i : TaggedAs(i)' = TaggedAs(i)
    BY <2>1, TaggedStays
  <2>3. ClientInv'
    <3>1. callPc[k] = "enrolled"
      BY <1>3 DEF CallSend
    <3>2. [id |-> callId[k], no |-> callNo[k]] \in Tagged
      BY <3>1 DEF Inv, CallInv, HistInv, Tagged, Message
    <3>3. \A c \in Conns : Append(outbox[c], [id |-> callId[k], no |-> callNo[k]]) \in Seq(Tagged)
      BY <3>2, AppendSeq DEF Inv, ClientInv
    <3>4. outbox' \in [Conns -> Seq(Tagged)]
      <4>1. \/ outbox' = outbox
            \/ outbox' = [outbox EXCEPT ![callConn[k]] =
                          Append(outbox[callConn[k]], [id |-> callId[k], no |-> callNo[k]])]
        BY <1>3 DEF CallSend
      <4>2. outbox \in [Conns -> Seq(Tagged)]
        BY DEF Inv, ClientInv
      <4>3. CASE outbox' = outbox
        BY <4>2, <4>3
      <4>4. CASE outbox' = [outbox EXCEPT ![callConn[k]] =
                    Append(outbox[callConn[k]], [id |-> callId[k], no |-> callNo[k]])]
        BY <3>3, <4>2, <4>4, ExceptType
      <4> QED BY <4>1, <4>3, <4>4
    <3>5. UNCHANGED <<closed, ready, active, reader, writer>>
      BY <1>3 DEF CallSend
    <3> QED BY <2>2, <3>4, <3>5 DEF Inv, ClientInv
  <2>4. CallInv'
    BY <1>3, <2>1, <2>2 DEF CallSend, Inv, CallInv, Pcs
  <2> QED BY <1>3, <2>1, <2>3, <2>4, Untouched DEF CallSend, Inv, hub, table, conn, call, page, hist
<1>4. CASE CallReceive(k)
  <2>1. UNCHANGED <<calls, oldCalls>>
    BY <1>4 DEF CallReceive, hist
  <2>2. Tagged' = Tagged /\ TaggedFrame' = TaggedFrame /\ \A i : TaggedAs(i)' = TaggedAs(i)
    BY <2>1, TaggedStays
  <2>3. TableInv'
    <3> DEFINE i == callId[k]
    <3>1. i \in Ids /\ chan[i].buf # <<>>
      BY <1>4 DEF CallReceive, Inv, CallInv
    <3>2. Tail(chan[i].buf) \in Seq(TaggedAs(i)) /\ Tail(chan[i].buf) \in Seq(Message)
      BY <3>1, TailSeq DEF Inv, TableInv, Channel
    <3>3. chan' = [chan EXCEPT ![i].buf = Tail(chan[i].buf)] /\ UNCHANGED <<requests, reqSeq>>
      BY <1>4 DEF CallReceive
    <3>4. chan' \in [Ids -> Channel]
      BY <3>1, <3>2, <3>3 DEF Inv, TableInv, Channel
    <3>5. \A j \in Ids : chan'[j].buf \in Seq(TaggedAs(j))
      BY <3>1, <3>2, <3>3 DEF Inv, TableInv, Channel
    <3> QED BY <2>1, <2>2, <3>3, <3>4, <3>5 DEF Inv, TableInv
  <2>4. CallInv'
    <3>1. callId[k] \in Ids /\ chan[callId[k]].buf # <<>>
      BY <1>4 DEF CallReceive, Inv, CallInv
    <3>2. Head(chan[callId[k]].buf) \in TaggedAs(callId[k])
      BY <3>1, TailSeq DEF Inv, TableInv
    <3>3. Head(chan[callId[k]].buf) \in Tagged /\ Head(chan[callId[k]].buf).id = callId[k]
      BY <3>2 DEF TaggedAs
    <3> QED BY <1>4, <2>1, <2>2, <3>3 DEF CallReceive, Inv, CallInv, Pcs
  <2> QED BY <1>4, <2>1, <2>3, <2>4, Untouched DEF CallReceive, Inv, hub, table, conn, call, page, hist
<1>5. CASE CallTimeout(k)
  <2>1. UNCHANGED <<calls, oldCalls>>
    BY <1>5 DEF CallTimeout, hist
  <2>2. Tagged' = Tagged /\ TaggedFrame' = TaggedFrame /\ \A i : TaggedAs(i)' = TaggedAs(i)
    BY <2>1, TaggedStays
  <2>3. CallInv'
    BY <1>5, <2>1, <2>2 DEF CallTimeout, Inv, CallInv, Pcs
  <2> QED BY <1>5, <2>1, <2>3, Untouched DEF CallTimeout, Inv, hub, table, conn, call, page, hist
<1>6. CASE CallForget(k)
  <2>1. UNCHANGED <<calls, oldCalls>>
    BY <1>6 DEF CallForget, hist
  <2>2. Tagged' = Tagged /\ TaggedFrame' = TaggedFrame /\ \A i : TaggedAs(i)' = TaggedAs(i)
    BY <2>1, TaggedStays
  <2>3. TableInv'
    BY <1>6, <2>1, <2>2 DEF CallForget, Inv, TableInv
  <2>4. CallInv'
    BY <1>6, <2>1, <2>2 DEF CallForget, Inv, CallInv, Pcs
  <2> QED BY <1>6, <2>1, <2>3, <2>4, Untouched DEF CallForget, Inv, hub, table, conn, call, page, hist
<1>7. CASE CallReturn(k)
  <2>1. UNCHANGED <<calls, oldCalls>>
    BY <1>7 DEF CallReturn, hist
  <2>2. Tagged' = Tagged /\ TaggedFrame' = TaggedFrame /\ \A i : TaggedAs(i)' = TaggedAs(i)
    BY <2>1, TaggedStays
  <2>3. TableInv'
    <3>1. NoChannel \in Channel /\ NoChannel.buf = <<>>
      BY EmptySeq DEF NoChannel, Channel
    <3>2. chan' = [chan EXCEPT ![callId[k]] = NoChannel] /\ UNCHANGED <<requests, reqSeq>>
      BY <1>7 DEF CallReturn
    <3>3. chan' \in [Ids -> Channel] /\ \A i \in Ids : chan'[i].buf \in Seq(TaggedAs(i))
      BY <3>1, <3>2, EmptySeq DEF Inv, TableInv
    <3> QED BY <2>1, <2>2, <3>2, <3>3 DEF Inv, TableInv
  <2>4. ClientInv'
    <3>1. \/ active' = active
          \/ /\ active[callConn[k]] > 0
             /\ active' = [active EXCEPT ![callConn[k]] = active[callConn[k]] - 1]
      BY <1>7 DEF CallReturn
    <3>2. \A c \in Conns : active[c] \in Nat /\ (active[c] > 0 => active[c] - 1 \in Nat)
      BY DEF Inv, ClientInv
    <3>3. active' \in [Conns -> Nat]
      BY <3>1, <3>2, ExceptType DEF Inv, ClientInv
    <3>4. UNCHANGED <<closed, ready, outbox, reader, writer>>
      BY <1>7 DEF CallReturn
    <3> QED BY <2>2, <3>3, <3>4 DEF Inv, ClientInv
  <2>5. CallInv'
    <3>1. NoMessage \in Tagged /\ 0 \in 0..MaxCalls
      BY NoticeTagged, ApiHubAssumption DEF Inv
    <3> QED BY <1>7, <2>1, <2>2, <3>1 DEF CallReturn, Inv, CallInv, Pcs
  <2> QED BY <1>7, <2>1, <2>3, <2>4, <2>5, Untouched DEF CallReturn, Inv, hub, table, conn, call, page, hist
<1> QED BY <1>1, <1>2, <1>3, <1>4, <1>5, <1>6, <1>7 DEF Caller

LEMMA RestartKeepsInv ==
  ASSUME Inv, Restart
  PROVE  Inv'
<1>1. calls' = calls /\ oldCalls' = calls /\ calls \in 0..MaxCalls
  BY DEF Restart, Inv, HistInv
<1>2. Tagged \subseteq Tagged'
  BY <1>1 DEF Tagged
<1>3. HistInv'
  BY <1>1, ApiHubAssumption DEF Restart, Inv, HistInv
<1>4. NoMessage \in Tagged'
  BY <1>2, NoticeTagged DEF Inv
<1>5. HubInv'
  BY DEF Restart, HubInv
<1>6. TableInv'
  <2>1. NoChannel \in Channel /\ NoChannel.buf = <<>>
    BY EmptySeq DEF NoChannel, Channel
  <2>2. chan' \in [Ids -> Channel] /\ \A i \in Ids : chan'[i].buf = <<>>
    BY <2>1 DEF Restart
  <2>3. \A i \in Ids : chan'[i].buf \in Seq(TaggedAs(i)')
    BY <2>2, EmptySeq
  <2>4. requests' = {} /\ reqSeq' = 0 /\ reqSeq' + oldCalls' = calls'
    BY <1>1 DEF Restart
  <2> QED BY <2>2, <2>3, <2>4 DEF TableInv
<1>7. ClientInv' /\ InboxInv'
  BY <1>4, EmptySeq DEF Restart, ClientInv, InboxInv
<1>8. CallInv'
  BY <1>4, ApiHubAssumption DEF Restart, CallInv, Pcs
<1>9. PageInv'
  BY <1>2, EmptySeq DEF Restart, Inv, PageInv
<1> QED BY <1>3, <1>5, <1>6, <1>7, <1>8, <1>9 DEF Inv

\* The invariant is inductive.
LEMMA StepInv == Inv /\ [Next]_vars => Inv'
<1> SUFFICES ASSUME Inv, [Next]_vars PROVE Inv'
  OBVIOUS
<1>1. CASE \E k \in Callers : Caller(k)
  BY <1>1, CallerKeepsInv
<1>2. CASE \E c \in Conns : Reader(c) \/ Writer(c)
  BY <1>2, ReaderKeepsInv, WriterKeepsInv
<1>3. CASE Hub
  BY <1>3, HubKeepsInv
<1>4. CASE PageStep
  BY <1>4, SocketKeepsInv, PageAnswerKeepsInv DEF PageStep
<1>5. CASE Restart
  BY <1>5, RestartKeepsInv
<1>6. CASE UNCHANGED vars
  BY <1>6, Untouched DEF vars, hub, table, conn, call, page, hist, Inv
<1> QED BY <1>1, <1>2, <1>3, <1>4, <1>5, <1>6 DEF Next

LEMMA InvTypes == Inv => TypeOK
<1> SUFFICES ASSUME Inv PROVE TypeOK
  OBVIOUS
<1>1. Tagged \subseteq Message /\ TaggedFrame \subseteq Frame
  BY DEF Tagged, TaggedFrame, Frame
<1>2. \A c \in Conns : /\ outbox[c] \in Seq(Message) /\ queue[c] \in Seq(Message)
                      /\ uplink[c] \in Seq(Frame)
  BY <1>1, SeqMonotone DEF Inv, ClientInv, InboxInv, PageInv
<1>3. /\ outbox \in [Conns -> Seq(Message)] /\ queue \in [Conns -> Seq(Message)]
      /\ uplink \in [Conns -> Seq(Frame)]
  BY <1>2 DEF Inv, ClientInv, InboxInv, PageInv
<1>4. task \in [Conns -> [Slots -> Message]] /\ answer \in [Callers -> Message]
  BY <1>1 DEF Inv, InboxInv, CallInv
<1>5. work \in [Pages -> SUBSET Message]
  BY <1>1 DEF Inv, PageInv
<1>6. reqSeq \in 0..MaxCalls /\ oldCalls \in 0..MaxCalls
  BY ApiHubAssumption DEF Inv, TableInv, HistInv
<1> QED BY <1>3, <1>4, <1>5, <1>6 DEF Inv, HistInv, HubInv, TableInv, ClientInv, CallInv, PageInv, TypeOK

LEMMA InvOwnAnswer == Inv => OwnAnswer
<1> SUFFICES ASSUME Inv, NEW k \in Callers, answer[k] # NoMessage, answer[k].no > oldCalls
             PROVE  answer[k].no = callNo[k]
  BY DEF OwnAnswer, Inv, CallInv, HistInv, Tagged, Message
<1>1. answer[k].no = answer[k].id + oldCalls
  BY DEF Inv, CallInv, Tagged, HistInv, Message
<1>2. answer[k].id = callId[k] /\ callNo[k] = callId[k] + oldCalls
  BY DEF Inv, CallInv
<1> QED BY <1>1, <1>2

\* In every behaviour the state keeps its shape: no id, queue or channel
\* of the hub and its connections leaves its type.
THEOREM TypeCorrect == Spec => []TypeOK
<1> QED BY InitInv, StepInv, InvTypes, PTL DEF Spec

\* In every behaviour CallAPI (hub.go:160) hands its caller the answer to its
\* own request, or one a page held over from before a restart of the program.
THEOREM AnswersAreOwn == Spec => []OwnAnswer
<1> QED BY InitInv, StepInv, InvOwnAnswer, PTL DEF Spec

-----------------------------------------------------------------------------
(* ApiHub implements CallService.                                          *)

LEMMA InitRefines == Init => Calls!ServiceInit
BY DEF Init, Calls!ServiceInit, Inside, Outcome, Restarted

\* Whoever does not touch a caller's variables does not touch the service.
LEMMA QuietRefines ==
  ASSUME UNCHANGED call, UNCHANGED restarts
  PROVE  UNCHANGED Calls!serviceVars
BY DEF call, Calls!serviceVars, Inside, Outcome, Restarted

\* A step of CallAPI enters, answers, leaves, or is none of the abstract service's.
LEMMA CallerRefines ==
  ASSUME Inv, NEW k \in Callers, Caller(k)
  PROVE  (\E u \in Callers : Calls!Begin(u) \/ Calls!Answer(u) \/ Calls!Return(u))
         \/ UNCHANGED Calls!serviceVars
<1> USE DEF Calls!serviceVars, Inside, Outcome
<1>1. /\ restarts' = restarts /\ Restarted' = Restarted
      /\ callPc \in [Callers -> Pcs] /\ callNo \in [Callers -> 0..MaxCalls]
      /\ callConn \in [Callers -> Conns \cup {NoConn}] /\ callId \in [Callers -> 0..MaxCalls]
      /\ answer \in [Callers -> Tagged]
  BY DEF Caller, CallSelect, CallEnrol, CallSend, CallReceive, CallTimeout, CallForget, CallReturn,
         hist, Restarted, Inv, CallInv
<1>2. \A j \in Callers : callPc[j] \notin {"ended", "forgotten"} => answer[j] = NoMessage
  BY DEF Inv, CallInv
<1>3. CASE CallSelect(k)
  <2>1. /\ callPc[k] = "idle" /\ callPc' = [callPc EXCEPT ![k] = "selected"]
        /\ UNCHANGED <<answer, callNo>>
    BY <1>3 DEF CallSelect
  <2>2. Calls!Begin(k)
    BY <1>1, <2>1 DEF Calls!Begin
  <2> QED BY <2>2
<1>4. CASE CallEnrol(k)
  <2>1. /\ callPc[k] = "selected" /\ callPc' = [callPc EXCEPT ![k] = "enrolled"]
        /\ answer' = answer /\ callNo' = [callNo EXCEPT ![k] = calls']
    BY <1>4 DEF CallEnrol
  <2>2. Inside' = Inside /\ Outcome' = Outcome
    BY <1>1, <1>2, <2>1
  <2> QED BY <1>1, <2>2
<1>5. CASE CallSend(k) \/ CallTimeout(k) \/ CallForget(k)
  <2>1. /\ callPc[k] # "idle" /\ UNCHANGED <<answer, callNo>>
        /\ \E pc \in {"waiting", "ended", "forgotten"} : callPc' = [callPc EXCEPT ![k] = pc]
    BY <1>5 DEF CallSend, CallTimeout, CallForget
  <2>2. Inside' = Inside /\ Outcome' = Outcome
    BY <1>1, <2>1
  <2> QED BY <1>1, <2>2
<1>6. CASE CallReceive(k)
  <2> DEFINE m == Head(chan[callId[k]].buf)
  <2>1. /\ callPc[k] = "waiting" /\ callPc' = [callPc EXCEPT ![k] = "ended"]
        /\ answer' = [answer EXCEPT ![k] = m] /\ callNo' = callNo /\ chan[callId[k]].buf # <<>>
    BY <1>6 DEF CallReceive
  <2>2. callId[k] \in Ids /\ callNo[k] = callId[k] + oldCalls
    BY <2>1 DEF Inv, CallInv
  <2>3. m \in Tagged /\ m.id = callId[k]
    <3>1. chan[callId[k]].buf \in Seq(TaggedAs(callId[k])) /\ chan[callId[k]].buf # <<>>
      BY <2>1, <2>2 DEF Inv, TableInv
    <3>2. m \in TaggedAs(callId[k])
      BY <3>1, TailSeq
    <3> QED BY <3>2 DEF TaggedAs
  <2>4. m # NoMessage /\ (m.no = callNo[k] \/ Restarted)
    BY <2>2, <2>3 DEF Tagged, Message, Ids, NoMessage, Notice, Restarted, Inv, HistInv
  <2>5. Inside' = Inside
    BY <1>1, <2>1
  <2>6. Inside[k] = "busy" /\ Outcome[k] = "none"
    BY <1>2, <2>1
  <2>7. Outcome' = [Outcome EXCEPT ![k] = IF m.no = callNo[k] THEN "own" ELSE "old"]
    BY <1>1, <2>1, <2>4
  <2>8. Calls!Answer(k)
    BY <1>1, <2>4, <2>5, <2>6, <2>7 DEF Calls!Answer
  <2> QED BY <2>8
<1>7. CASE CallReturn(k)
  <2>1. /\ callPc[k] = "forgotten" /\ callPc' = [callPc EXCEPT ![k] = "idle"]
        /\ answer' = [answer EXCEPT ![k] = NoMessage] /\ callNo' = [callNo EXCEPT ![k] = 0]
    BY <1>7 DEF CallReturn
  <2>2. Inside[k] = "busy" /\ Inside' = [Inside EXCEPT ![k] = "idle"]
    BY <1>1, <2>1
  <2>3. Outcome' = [Outcome EXCEPT ![k] = "none"]
    BY <1>1, <2>1
  <2>4. Calls!Return(k)
    BY <1>1, <2>2, <2>3 DEF Calls!Return
  <2> QED BY <2>4
<1> QED BY <1>3, <1>4, <1>5, <1>6, <1>7 DEF Caller

LEMMA RestartRefines ==
  ASSUME Inv, Restart
  PROVE  Calls!ServiceRestart
<1>1. restarts' > 0
  BY DEF Restart, Inv, HistInv
<1>2. Inside' = [k \in Callers |-> "idle"] /\ Outcome' = [k \in Callers |-> "none"]
  BY DEF Restart, Inside, Outcome
<1> QED BY <1>1, <1>2 DEF Calls!ServiceRestart, Restarted

\* Every step is a step of the abstract service, or none of its business.
LEMMA StepRefines == Inv /\ [Next]_vars => [Calls!ServiceNext]_(Calls!serviceVars)
<1> SUFFICES ASSUME Inv, [Next]_vars
             PROVE  Calls!ServiceNext \/ UNCHANGED Calls!serviceVars
  OBVIOUS
<1>1. CASE \E k \in Callers : Caller(k)
  BY <1>1, CallerRefines DEF Calls!ServiceNext
<1>2. CASE \E c \in Conns : Reader(c) \/ Writer(c)
  <2>1. UNCHANGED call /\ UNCHANGED restarts
    <3>1. ASSUME NEW c \in Conns, Reader(c) PROVE UNCHANGED call /\ UNCHANGED restarts
      BY <3>1, Zenon DEF Reader, ReaderTake, WorkerTake, Deliver, ReaderFail, ReaderLeave, ReaderClose, hist
    <3>2. ASSUME NEW c \in Conns, Writer(c) PROVE UNCHANGED call /\ UNCHANGED restarts
      BY <3>2 DEF Writer, WriterSend, WriterEnd, hist
    <3> QED BY <1>2, <3>1, <3>2
  <2> QED BY <2>1, QuietRefines
<1>3. CASE Hub \/ PageStep
  <2>1. UNCHANGED call /\ UNCHANGED restarts
    BY <1>3 DEF Hub, PageStep, HubRegister, HubUnregister, Broadcast, HubReceive, Dial, PageState,
                PagePing, PageDrop, PageAnswer, hist
  <2> QED BY <2>1, QuietRefines
<1>4. CASE Restart
  BY <1>4, RestartRefines DEF Calls!ServiceNext
<1>5. CASE UNCHANGED vars
  BY <1>5, QuietRefines DEF vars, hist
<1> QED BY <1>1, <1>2, <1>3, <1>4, <1>5 DEF Next

\* The bridge implements CallService: in every behaviour a goroutine inside
\* CallAPI (hub.go:160) gets at most one answer, its own or, after a restart of
\* the program, an old one, and is let go with it or without.
THEOREM ImplementsCalls == Spec => CallsImplemented
<1>1. Init => Inv /\ Calls!ServiceInit
  BY InitInv, InitRefines
<1>2. Inv /\ [Next]_vars => Inv' /\ [Calls!ServiceNext]_(Calls!serviceVars)
  BY StepInv, StepRefines
<1> QED BY <1>1, <1>2, PTL DEF Spec, CallsImplemented, Calls!ServiceSpec

-----------------------------------------------------------------------------
(* The registry.                                                           *)

\* What the hub has registered, and what it is about to do, says where the
\* reader of a connection is.
PumpOf(c) ==
  /\ link[c] = "unused" => reader[c] = "none"
  /\ task[c][0] # NoMessage => reader[c] = "reading"
  /\ reader[c] \in {"none", "registering"} => c \notin clients /\ hubOp.conn # c
  /\ reader[c] \in {"reading", "draining", "leaving"} =>
       (c \in clients /\ hubOp.conn # c) \/ hubOp = [op |-> "register", conn |-> c]
  /\ reader[c] \in {"closing", "done"} =>
       (c \notin clients /\ hubOp.conn # c) \/ hubOp = [op |-> "unregister", conn |-> c]
LastRegistered == IF clients = {} THEN lastClient = NoConn ELSE lastClient \in clients
PumpInv == LastRegistered /\ \A c \in Conns : PumpOf(c)

\* Steps that leave the hub and the readers where they are.
LEMMA PumpKept ==
  ASSUME PumpInv, UNCHANGED <<hub, reader>>,
         \A c \in Conns : /\ link'[c] = "unused" => link[c] = "unused"
                          /\ task'[c][0] # NoMessage => task[c][0] # NoMessage
  PROVE  PumpInv'
<1>1. UNCHANGED <<clients, lastClient, hubOp, reader>>
  BY DEF hub
<1>2. LastRegistered'
  BY <1>1 DEF PumpInv, LastRegistered
<1>3. ASSUME NEW c \in Conns PROVE PumpOf(c)'
  BY <1>1 DEF PumpInv, PumpOf
<1> QED BY <1>2, <1>3 DEF PumpInv

\* Steps that move the reader of one connection.
LEMMA PumpMoved ==
  ASSUME PumpInv, UNCHANGED hub, NEW c \in Conns, PumpOf(c)',
         \A d \in Conns \ {c} : /\ reader'[d] = reader[d] /\ link'[d] = link[d]
                                /\ task'[d][0] = task[d][0]
  PROVE  PumpInv'
<1>1. UNCHANGED <<clients, lastClient, hubOp>>
  BY DEF hub
<1>2. LastRegistered'
  BY <1>1 DEF PumpInv, LastRegistered
<1>3. ASSUME NEW d \in Conns \ {c} PROVE PumpOf(d)'
  BY <1>1, <1>3 DEF PumpInv, PumpOf
<1> QED BY <1>2, <1>3 DEF PumpInv

LEMMA InitPumps == Init => PumpInv
<1> SUFFICES ASSUME Init PROVE PumpInv
  OBVIOUS
<1>1. 0 \in Slots
  BY ApiHubAssumption DEF Slots
<1>2. LastRegistered
  BY DEF Init, LastRegistered
<1>3. ASSUME NEW c \in Conns PROVE PumpOf(c)
  BY <1>1, ApiHubAssumption DEF Init, PumpOf, Idle
<1> QED BY <1>2, <1>3 DEF PumpInv

\* ReadPump, with its workers.
LEMMA ReaderPumps ==
  ASSUME Inv, PumpInv, NEW c \in Conns, Reader(c)
  PROVE  PumpInv'
<1>0. 0 \in Slots
  BY ApiHubAssumption DEF Slots
<1>1. CASE ReaderTake(c)
  <2>1. UNCHANGED <<hub, reader, link>> /\ reader[c] = "reading"
    BY <1>1 DEF ReaderTake
  <2>2. \A d \in Conns \ {c} : task'[d][0] = task[d][0]
    <3>1. task' = task \/ task' = [task EXCEPT ![c][0] = LookUp(Head(uplink[c]).msg)]
      BY <1>1 DEF ReaderTake
    <3> QED BY <3>1 DEF Inv, InboxInv
  <2>3. PumpOf(c)'
    BY <2>1 DEF PumpInv, PumpOf, hub
  <2> QED BY <2>1, <2>2, <2>3, PumpMoved
<1>2. CASE ReaderFail(c)
  <2>1. UNCHANGED <<hub, task, link>> /\ reader' = [reader EXCEPT ![c] = "draining"]
        /\ reader[c] = "reading" /\ task[c][0] = NoMessage
    BY <1>2 DEF ReaderFail
  <2>2. reader'[c] = "draining"
    BY <2>1 DEF Inv, ClientInv
  <2>3. PumpOf(c)'
    BY <2>1, <2>2 DEF PumpInv, PumpOf, hub
  <2> QED BY <2>1, <2>3, PumpMoved
<1>3. CASE ReaderLeave(c)
  <2>1. UNCHANGED <<hub, task, link>> /\ reader' = [reader EXCEPT ![c] = "leaving"]
        /\ reader[c] = "draining" /\ task[c][0] = NoMessage
    BY <1>0, <1>3 DEF ReaderLeave, page
  <2>2. reader'[c] = "leaving"
    BY <2>1 DEF Inv, ClientInv
  <2>3. PumpOf(c)'
    BY <2>1, <2>2 DEF PumpInv, PumpOf, hub
  <2> QED BY <2>1, <2>3, PumpMoved
<1>4. CASE ReaderClose(c)
  <2>1. UNCHANGED <<hub, task>> /\ reader' = [reader EXCEPT ![c] = "done"]
        /\ reader[c] = "closing" /\ link' = [link EXCEPT ![c] = "down"]
    BY <1>4 DEF ReaderClose, Close
  <2>2. reader'[c] = "done" /\ link'[c] = "down"
    BY <2>1 DEF Inv, ClientInv, PageInv
  <2>3. PumpOf(c)'
    BY <2>1, <2>2 DEF PumpInv, PumpOf, hub
  <2> QED BY <2>1, <2>3, PumpMoved
<1>5. ASSUME NEW s \in Slots, WorkerTake(c, s) PROVE PumpInv'
  <2>1. UNCHANGED <<hub, reader, link>> /\ s # 0
    BY <1>5 DEF WorkerTake, page
  <2>2. \A d \in Conns : task'[d][0] = task[d][0]
    BY <1>0, <1>5, <2>1 DEF WorkerTake, Inv, InboxInv
  <2> QED BY <2>1, <2>2, PumpKept
<1>6. ASSUME NEW s \in Slots, Deliver(c, s) PROVE PumpInv'
  <2>1. /\ UNCHANGED <<hub, link>> /\ task[c][s] # NoMessage
        /\ task' = [task EXCEPT ![c][s] = NoMessage]
        /\ reader' = reader \/ (s = 0 /\ reader' = [reader EXCEPT ![c] = "draining"])
    BY <1>6 DEF Deliver, page
  <2>2. \A d \in Conns : task'[d][0] = IF d = c /\ s = 0 THEN NoMessage ELSE task[d][0]
    BY <1>0, <2>1 DEF Inv, InboxInv
  <2>3. CASE reader' = reader
    BY <2>1, <2>2, <2>3, PumpKept
  <2>4. CASE s = 0 /\ reader' = [reader EXCEPT ![c] = "draining"]
    <3>1. reader'[c] = "draining" /\ reader[c] = "reading"
      BY <2>1, <2>4 DEF Inv, ClientInv, PumpInv, PumpOf
    <3>2. PumpOf(c)'
      BY <2>1, <2>2, <2>4, <3>1 DEF PumpInv, PumpOf, hub
    <3> QED BY <2>1, <2>2, <2>4, <3>2, PumpMoved
  <2> QED BY <2>1, <2>3, <2>4
<1> QED BY <1>1, <1>2, <1>3, <1>4, <1>5, <1>6 DEF Reader

LEMMA HubPumps ==
  ASSUME Inv, PumpInv, Hub
  PROVE  PumpInv'
<1>0. hubOp \in [op : {"register", "unregister"}, conn : Conns] \cup {Idle} /\ Idle.conn \notin Conns
      /\ Idle.op = "idle"
  BY ApiHubAssumption DEF Inv, HubInv, Idle
<1>1. CASE Broadcast
  BY <1>1, PumpKept DEF Broadcast, page
<1>2. ASSUME NEW c \in Conns, HubReceive(c) PROVE PumpInv'
  <2>1. /\ hubOp = Idle /\ UNCHANGED <<clients, lastClient, link, task>>
        /\ \/ /\ reader[c] = "registering" /\ hubOp' = [op |-> "register", conn |-> c]
              /\ reader' = [reader EXCEPT ![c] = "reading"]
           \/ /\ reader[c] = "leaving" /\ hubOp' = [op |-> "unregister", conn |-> c]
              /\ reader' = [reader EXCEPT ![c] = "closing"]
    BY <1>2 DEF HubReceive, page
  <2>2. \A d \in Conns : d # c => reader'[d] = reader[d]
    BY <2>1 DEF Inv, ClientInv
  <2>3. \/ reader[c] = "registering" /\ hubOp' = [op |-> "register", conn |-> c] /\ reader'[c] = "reading"
        \/ reader[c] = "leaving" /\ hubOp' = [op |-> "unregister", conn |-> c] /\ reader'[c] = "closing"
    BY <2>1 DEF Inv, ClientInv
  <2>4. hubOp'.conn = c
    BY <2>1
  <2>5. PumpOf(c)'
    <3>1. PumpOf(c) /\ UNCHANGED <<clients, task, link>>
      BY <2>1 DEF PumpInv
    <3>2. CASE reader[c] = "registering"
      BY <2>1, <2>3, <3>1, <3>2 DEF PumpOf
    <3>3. CASE reader[c] = "leaving"
      BY <2>1, <2>3, <3>1, <3>3 DEF PumpOf
    <3> QED BY <2>1, <3>2, <3>3
  <2>6. ASSUME NEW d \in Conns, d # c PROVE PumpOf(d)'
    <3>1. hubOp # [op |-> "register", conn |-> d] /\ hubOp # [op |-> "unregister", conn |-> d]
      BY <1>0, <2>1
    <3>2. PumpOf(d)
      BY DEF PumpInv
    <3> QED BY <2>1, <2>2, <2>4, <2>6, <3>1, <3>2 DEF PumpOf
  <2>7. LastRegistered'
    BY <2>1 DEF PumpInv, LastRegistered
  <2> QED BY <2>5, <2>6, <2>7 DEF PumpInv
<1>3. CASE HubRegister
  <2>1. PICK c \in Conns : hubOp = [op |-> "register", conn |-> c]
    BY <1>0, <1>3 DEF HubRegister
  <2>2. /\ clients' = clients \cup {c} /\ lastClient' = c /\ hubOp' = Idle
        /\ UNCHANGED <<reader, task, link>>
    BY <1>3, <2>1 DEF HubRegister, conn, page
  <2>3. reader[c] \in {"reading", "draining", "leaving"}
    <3>1. reader[c] \in {"none", "registering", "reading", "draining", "leaving", "closing", "done"}
      BY DEF Inv, ClientInv
    <3>2. hubOp.conn = c /\ hubOp # [op |-> "unregister", conn |-> c]
      BY <2>1
    <3> QED BY <3>1, <3>2 DEF PumpInv, PumpOf
  <2>4. PumpOf(c)'
    BY <1>0, <2>2, <2>3 DEF PumpInv, PumpOf
  <2>5. ASSUME NEW d \in Conns, d # c PROVE PumpOf(d)'
    <3>1. hubOp # [op |-> "register", conn |-> d] /\ hubOp # [op |-> "unregister", conn |-> d]
      BY <2>1, <2>5
    <3>2. PumpOf(d)
      BY DEF PumpInv
    <3> QED BY <1>0, <2>2, <2>5, <3>1, <3>2 DEF PumpOf
  <2>6. LastRegistered'
    BY <2>2 DEF LastRegistered
  <2> QED BY <2>4, <2>5, <2>6 DEF PumpInv
<1>4. CASE HubUnregister
  <2>1. PICK c \in Conns : hubOp = [op |-> "unregister", conn |-> c]
    BY <1>0, <1>4 DEF HubUnregister
  <2>2. /\ clients' = clients \ {c} /\ hubOp' = Idle /\ UNCHANGED <<reader, task>>
        /\ link' = link \/ link' = [link EXCEPT ![c] = "down"]
    BY <1>4, <2>1 DEF HubUnregister, Close
  <2>3. reader[c] \in {"closing", "done"}
    <3>1. reader[c] \in {"none", "registering", "reading", "draining", "leaving", "closing", "done"}
      BY DEF Inv, ClientInv
    <3>2. hubOp.conn = c /\ hubOp # [op |-> "register", conn |-> c]
      BY <2>1
    <3> QED BY <3>1, <3>2 DEF PumpInv, PumpOf
  <2>4. link'[c] = "unused" => link[c] = "unused"
    BY <2>2 DEF Inv, PageInv
  <2>5. PumpOf(c)'
    BY <1>0, <2>2, <2>3, <2>4 DEF PumpInv, PumpOf
  <2>6. ASSUME NEW d \in Conns, d # c PROVE PumpOf(d)'
    <3>1. hubOp # [op |-> "register", conn |-> d] /\ hubOp # [op |-> "unregister", conn |-> d]
      BY <2>1, <2>6
    <3>2. PumpOf(d) /\ link'[d] = link[d]
      BY <2>2, <2>6 DEF PumpInv, Inv, PageInv
    <3> QED BY <1>0, <2>2, <2>6, <3>1, <3>2 DEF PumpOf
  <2>7. LastRegistered'
    <3>1. CASE c \notin clients
      <4>1. clients' = clients /\ lastClient' = lastClient
        BY <1>4, <2>1, <2>2, <3>1 DEF HubUnregister
      <4> QED BY <4>1 DEF PumpInv, LastRegistered
    <3>2. CASE c \in clients /\ lastClient = c
      BY <1>4, <2>1, <2>2, <3>2 DEF HubUnregister, LastRegistered
    <3>3. CASE c \in clients /\ lastClient # c
      BY <1>4, <2>1, <2>2, <3>3 DEF HubUnregister, PumpInv, LastRegistered
    <3> QED BY <3>1, <3>2, <3>3
  <2> QED BY <2>5, <2>6, <2>7 DEF PumpInv
<1> QED BY <1>1, <1>2, <1>3, <1>4 DEF Hub

LEMMA StepPumps == Inv /\ PumpInv /\ [Next]_vars => PumpInv'
<1> SUFFICES ASSUME Inv, PumpInv, [Next]_vars PROVE PumpInv'
  OBVIOUS
<1>1. CASE \E k \in Callers : Caller(k)
  <2>1. UNCHANGED <<hub, reader, link, task>>
    BY <1>1 DEF Caller, CallSelect, CallEnrol, CallSend, CallReceive, CallTimeout, CallForget,
       CallReturn, conn, page
  <2> QED BY <2>1, PumpKept
<1>2. CASE \E c \in Conns : Reader(c)
  BY <1>2, ReaderPumps
<1>3. ASSUME NEW c \in Conns, Writer(c) PROVE PumpInv'
  <2>1. UNCHANGED <<hub, reader, task>> /\ (link' = link \/ link' = [link EXCEPT ![c] = "down"])
    BY <1>3 DEF Writer, WriterSend, WriterEnd, Close
  <2>2. \A d \in Conns : link'[d] = "unused" => link[d] = "unused"
    BY <2>1 DEF Inv, PageInv
  <2> QED BY <2>1, <2>2, PumpKept
<1>4. CASE Hub
  BY <1>4, HubPumps
<1>5. ASSUME NEW c \in Conns, Dial(c) PROVE PumpInv'
  <2>1. /\ UNCHANGED <<hub, task>> /\ link[c] = "unused"
        /\ link' = [link EXCEPT ![c] = "up"] /\ reader' = [reader EXCEPT ![c] = "registering"]
    BY <1>5 DEF Dial
  <2>2. link'[c] = "up" /\ reader'[c] = "registering" /\ reader[c] = "none"
    BY <2>1 DEF Inv, PageInv, ClientInv, PumpInv, PumpOf
  <2>3. PumpOf(c)'
    BY <2>1, <2>2 DEF PumpInv, PumpOf, hub
  <2> QED BY <2>1, <2>3, PumpMoved
<1>6. ASSUME NEW c \in Conns, PageState(c) \/ PagePing(c) \/ PageDrop(c) PROVE PumpInv'
  <2>1. UNCHANGED <<hub, reader, task>> /\ (link' = link \/ link' = [link EXCEPT ![c] = "down"])
    BY <1>6 DEF PageState, PagePing, PageDrop, conn
  <2>2. \A d \in Conns : link'[d] = "unused" => link[d] = "unused"
    BY <2>1 DEF Inv, PageInv
  <2> QED BY <2>1, <2>2, PumpKept
<1>7. ASSUME NEW p \in Pages, PageAnswer(p) PROVE PumpInv'
  <2>1. UNCHANGED <<hub, reader, task, link>>
    BY <1>7 DEF PageAnswer, conn
  <2> QED BY <2>1, PumpKept
<1>8. CASE Restart
  <2>1. 0 \in Slots
    BY ApiHubAssumption DEF Slots
  <2>2. LastRegistered'
    BY <1>8 DEF Restart, LastRegistered
  <2>3. ASSUME NEW c \in Conns PROVE PumpOf(c)'
    BY <1>8, <2>1, ApiHubAssumption DEF Restart, PumpOf, Idle
  <2> QED BY <2>2, <2>3 DEF PumpInv
<1>9. CASE UNCHANGED vars
  BY <1>9, PumpKept DEF vars, conn, page
<1> QED BY <1>1, <1>2, <1>3, <1>4, <1>5, <1>6, <1>7, <1>8, <1>9 DEF Next, PageStep

\* In every behaviour the registry of the hub follows the pumps: whoever's
\* ReadPump has ended is out of h.clients, or about to be, whoever's runs is in
\* it, or about to be, and lastClient is somebody registered.
THEOREM RegistryFollows == Spec => []RegistryFollowsPumps
<1>1. PumpInv => RegistryFollowsPumps
  BY DEF PumpInv, PumpOf, LastRegistered, RegistryFollowsPumps
<1> QED BY InitInv, StepInv, InitPumps, StepPumps, <1>1, PTL DEF Spec

-----------------------------------------------------------------------------
(* The load of a connection.                                               *)

Counted == {"enrolled", "waiting", "ended", "forgotten"}
CallsOn(c) == {k \in Callers : callConn[k] = c /\ callPc[k] \in Counted}
LoadInv ==
  /\ \A k \in Callers : callPc[k] # "idle" => callConn[k] \in Conns
  /\ \A c \in Conns : IsFiniteSet(CallsOn(c)) /\ active[c] = Cardinality(CallsOn(c))

LEMMA LoadKept ==
  ASSUME LoadInv, active' = active,
         \A k \in Callers : /\ callPc'[k] # "idle" => callConn'[k] \in Conns
                            /\ callPc'[k] \in Counted <=> callPc[k] \in Counted
                            /\ callPc[k] \in Counted => callConn'[k] = callConn[k]
  PROVE  LoadInv'
<1>1. ASSUME NEW c PROVE CallsOn(c)' = CallsOn(c)
  BY DEF CallsOn
<1> QED BY <1>1 DEF LoadInv

LEMMA InitLoad == Init => LoadInv
<1> SUFFICES ASSUME Init PROVE LoadInv
  OBVIOUS
<1>1. ASSUME NEW c \in Conns PROVE CallsOn(c) = {} /\ active[c] = 0
  BY DEF Init, CallsOn, Counted
<1> QED BY <1>1, FS_EmptySet DEF Init, LoadInv

LEMMA CallerLoad ==
  ASSUME Inv, LoadInv, NEW k \in Callers, Caller(k)
  PROVE  LoadInv'
<1>0. /\ callPc \in [Callers -> Pcs] /\ callConn \in [Callers -> Conns \cup {NoConn}]
      /\ active \in [Conns -> Nat] /\ clients \subseteq Conns
  BY DEF Inv, CallInv, ClientInv, HubInv
<1>1. CASE CallSelect(k)
  <2>1. PICK c \in Conns : callConn' = [callConn EXCEPT ![k] = c]
    BY <1>0, <1>1 DEF CallSelect
  <2>2. /\ callPc[k] = "idle" /\ callPc' = [callPc EXCEPT ![k] = "selected"] /\ active' = active
    BY <1>1 DEF CallSelect, conn
  <2> QED BY <1>0, <2>1, <2>2, LoadKept DEF LoadInv, Counted
<1>2. CASE CallEnrol(k)
  <2> DEFINE c == callConn[k]
  <2>1. /\ callPc[k] = "selected" /\ callPc' = [callPc EXCEPT ![k] = "enrolled"]
        /\ active' = [active EXCEPT ![c] = @ + 1] /\ callConn' = callConn
    BY <1>2 DEF CallEnrol
  <2>2. c \in Conns /\ k \notin CallsOn(c)
    BY <2>1 DEF LoadInv, CallsOn, Counted
  <2>3. \A d \in Conns : CallsOn(d)' = IF d = c THEN CallsOn(d) \cup {k} ELSE CallsOn(d)
    BY <1>0, <2>1, <2>2 DEF CallsOn, Counted
  <2>4. \A d \in Conns : active'[d] = IF d = c THEN active[d] + 1 ELSE active[d]
    BY <1>0, <2>1, <2>2
  <2>5. IsFiniteSet(CallsOn(c)) /\ active[c] = Cardinality(CallsOn(c))
    BY <2>2 DEF LoadInv
  <2>6. /\ IsFiniteSet(CallsOn(c) \cup {k})
        /\ Cardinality(CallsOn(c) \cup {k}) = Cardinality(CallsOn(c)) + 1
    BY <2>2, <2>5, FS_AddElement
  <2>7. ASSUME NEW d \in Conns
        PROVE  IsFiniteSet(CallsOn(d)') /\ active'[d] = Cardinality(CallsOn(d)')
    <3>1. CASE d = c
      BY <2>3, <2>4, <2>5, <2>6, <3>1
    <3>2. CASE d # c
      BY <2>3, <2>4, <3>2 DEF LoadInv
    <3> QED BY <3>1, <3>2
  <2>8. \A j \in Callers : callPc'[j] # "idle" => callConn'[j] \in Conns
    BY <1>0, <2>1 DEF LoadInv
  <2> QED BY <2>7, <2>8 DEF LoadInv
<1>3. CASE CallSend(k) \/ CallReceive(k) \/ CallTimeout(k) \/ CallForget(k)
  <2>1. /\ callPc[k] \in Counted /\ active' = active /\ callConn' = callConn
        /\ \E pc \in Counted : callPc' = [callPc EXCEPT ![k] = pc]
    BY <1>3 DEF CallSend, CallReceive, CallTimeout, CallForget, conn, Counted
  <2> QED BY <1>0, <2>1, LoadKept DEF LoadInv, Counted
<1>4. CASE CallReturn(k)
  <2> DEFINE c == callConn[k]
  <2>1. /\ callPc[k] = "forgotten" /\ callPc' = [callPc EXCEPT ![k] = "idle"]
        /\ active' = IF active[c] > 0 THEN [active EXCEPT ![c] = @ - 1] ELSE active
        /\ callConn' = [callConn EXCEPT ![k] = NoConn]
    BY <1>4 DEF CallReturn
  <2>2. c \in Conns /\ k \in CallsOn(c)
    BY <2>1 DEF LoadInv, CallsOn, Counted
  <2>3. \A d \in Conns : CallsOn(d)' = IF d = c THEN CallsOn(d) \ {k} ELSE CallsOn(d)
    BY <1>0, <2>1, <2>2 DEF CallsOn, Counted
  <2>4. IsFiniteSet(CallsOn(c)) /\ active[c] = Cardinality(CallsOn(c))
    BY <2>2 DEF LoadInv
  <2>5. /\ IsFiniteSet(CallsOn(c) \ {k})
        /\ Cardinality(CallsOn(c) \ {k}) = Cardinality(CallsOn(c)) - 1
    BY <2>2, <2>4, FS_RemoveElement
  <2>6. active[c] > 0
    <3>1. Cardinality(CallsOn(c) \ {k}) \in Nat
      BY <2>5, FS_CardinalityType
    <3> QED BY <1>0, <2>2, <2>4, <2>5, <3>1
  <2>7. \A d \in Conns : active'[d] = IF d = c THEN active[d] - 1 ELSE active[d]
    BY <1>0, <2>1, <2>2, <2>6
  <2>8. ASSUME NEW d \in Conns
        PROVE  IsFiniteSet(CallsOn(d)') /\ active'[d] = Cardinality(CallsOn(d)')
    <3>1. CASE d = c
      BY <2>3, <2>4, <2>5, <2>7, <3>1
    <3>2. CASE d # c
      BY <2>3, <2>7, <3>2 DEF LoadInv
    <3> QED BY <3>1, <3>2
  <2>9. \A j \in Callers : callPc'[j] # "idle" => callConn'[j] \in Conns
    BY <1>0, <2>1 DEF LoadInv
  <2> QED BY <2>8, <2>9 DEF LoadInv
<1> QED BY <1>1, <1>2, <1>3, <1>4 DEF Caller

LEMMA StepLoad == Inv /\ LoadInv /\ [Next]_vars => LoadInv'
<1> SUFFICES ASSUME Inv, LoadInv, [Next]_vars PROVE LoadInv'
  OBVIOUS
<1>1. CASE \E k \in Callers : Caller(k)
  BY <1>1, CallerLoad
<1>2. CASE UNCHANGED <<active, callPc, callConn>>
  BY <1>2, LoadKept DEF LoadInv
<1>3. ASSUME NEW c \in Conns, Reader(c) \/ Writer(c) PROVE LoadInv'
  <2>1. ASSUME Reader(c) PROVE UNCHANGED <<active, callPc, callConn>>
    BY <2>1 DEF Reader, ReaderTake, ReaderFail, ReaderLeave, ReaderClose, WorkerTake, Deliver, call
  <2>2. ASSUME Writer(c) PROVE UNCHANGED <<active, callPc, callConn>>
    BY <2>2 DEF Writer, WriterSend, WriterEnd, call
  <2> QED BY <1>2, <1>3, <2>1, <2>2
<1>4. CASE Hub
  BY <1>2, <1>4 DEF Hub, HubRegister, HubUnregister, Broadcast, HubReceive, conn, call
<1>5. CASE PageStep
  BY <1>2, <1>5 DEF PageStep, Dial, PageState, PagePing, PageDrop, PageAnswer, conn, call
<1>6. CASE Restart
  <2>1. ASSUME NEW c \in Conns PROVE CallsOn(c)' = {} /\ active'[c] = 0
    BY <1>6 DEF Restart, CallsOn, Counted
  <2>2. \A k \in Callers : callPc'[k] = "idle"
    BY <1>6 DEF Restart
  <2> QED BY <2>1, <2>2, FS_EmptySet DEF LoadInv
<1>7. CASE UNCHANGED vars
  BY <1>2, <1>7 DEF vars, conn, call
<1> QED BY <1>1, <1>3, <1>4, <1>5, <1>6, <1>7 DEF Next

\* In every behaviour the active requests the selector compares are the calls
\* in progress on each connection: the counter never drifts, on no path out of
\* CallAPI, and is never lowered below zero.
THEOREM LoadCounts == Spec => []LoadIsCalls
<1>1. LoadInv => LoadIsCalls
  BY DEF LoadInv, LoadIsCalls, CallsOn, Counted
<1> QED BY InitInv, StepInv, InitLoad, StepLoad, <1>1, PTL DEF Spec

-----------------------------------------------------------------------------
(* The table of requests and the response channels.                        *)

Entered == {"enrolled", "waiting", "ended"}
EntryOf(i) == \E k \in Callers : callPc[k] \in Entered /\ callId[k] = i
ChannelOf(i) == \E k \in Callers : callPc[k] \in Counted /\ callId[k] = i
OwnIds == \A j, k \in Callers :
  callPc[j] \in Counted /\ callPc[k] \in Counted /\ callId[j] = callId[k] => j = k
TableOfCalls ==
  /\ \A i \in Ids : /\ i \in requests <=> EntryOf(i)
                    /\ chan[i].open <=> ChannelOf(i)
  /\ OwnIds

LEMMA TableKept ==
  ASSUME TableOfCalls, requests' = requests, callId' = callId,
         \A i \in Ids : chan'[i].open <=> chan[i].open,
         \A k \in Callers : /\ callPc'[k] \in Entered <=> callPc[k] \in Entered
                            /\ callPc'[k] \in Counted <=> callPc[k] \in Counted
  PROVE  TableOfCalls'
<1>1. \A i : EntryOf(i)' = EntryOf(i) /\ ChannelOf(i)' = ChannelOf(i)
  BY DEF EntryOf, ChannelOf
<1>2. OwnIds'
  BY DEF TableOfCalls, OwnIds
<1> QED BY <1>1, <1>2 DEF TableOfCalls

LEMMA InitTable == Init => TableOfCalls
BY DEF Init, TableOfCalls, EntryOf, ChannelOf, OwnIds, Entered, Counted, NoChannel

LEMMA CallerTable ==
  ASSUME Inv, TableOfCalls, NEW k \in Callers, Caller(k)
  PROVE  TableOfCalls'
<1>0. /\ callPc \in [Callers -> Pcs] /\ callId \in [Callers -> 0..MaxCalls]
      /\ requests \subseteq Ids /\ chan \in [Ids -> Channel]
  BY DEF Inv, CallInv, TableInv
<1>1. CASE CallSelect(k)
  <2>1. /\ callPc[k] = "idle" /\ callPc' = [callPc EXCEPT ![k] = "selected"]
        /\ UNCHANGED <<requests, callId, chan>>
    BY <1>1 DEF CallSelect, table
  <2> QED BY <1>0, <2>1, TableKept DEF Counted, Entered
<1>2. CASE CallEnrol(k)
  <2> DEFINE i == reqSeq + 1
  <2>1. /\ callPc[k] = "selected" /\ callPc' = [callPc EXCEPT ![k] = "enrolled"]
        /\ requests' = requests \cup {i} /\ callId' = [callId EXCEPT ![k] = i]
        /\ chan' = [chan EXCEPT ![i] = [open |-> TRUE, buf |-> <<>>]] /\ calls < MaxCalls
    BY <1>2 DEF CallEnrol, NextId
  <2>2. i \in Ids
    BY <2>1, ApiHubAssumption DEF Inv, TableInv, HistInv, Ids
  <2>3. \A j \in Callers : callPc[j] \in Counted => j # k /\ callId[j] # i
    <3> SUFFICES ASSUME NEW j \in Callers, callPc[j] \in Counted PROVE j # k /\ callId[j] # i
      OBVIOUS
    <3>1. callId[j] \in Ids /\ callNo[j] = callId[j] + oldCalls /\ callNo[j] <= calls
      BY DEF Inv, CallInv, Counted
    <3>2. reqSeq \in Nat /\ oldCalls \in Nat /\ reqSeq + oldCalls = calls
      BY DEF Inv, TableInv, HistInv
    <3>3. callId[j] # i
      BY <3>1, <3>2, ApiHubAssumption DEF Ids
    <3> QED BY <2>1, <3>3 DEF Counted
  <2>4. callPc'[k] = "enrolled" /\ callId'[k] = i
    BY <1>0, <2>1
  <2>5. \A j \in Callers : j # k => callPc'[j] = callPc[j] /\ callId'[j] = callId[j]
    BY <1>0, <2>1
  <2>6. \A h \in Ids : /\ EntryOf(h)' <=> EntryOf(h) \/ h = i
                       /\ ChannelOf(h)' <=> ChannelOf(h) \/ h = i
    BY <2>3, <2>4, <2>5 DEF EntryOf, ChannelOf, Entered, Counted
  <2>7. \A h \in Ids : chan'[h].open <=> chan[h].open \/ h = i
    BY <1>0, <2>1, <2>2 DEF Channel
  <2>8. OwnIds'
    BY <2>3, <2>4, <2>5 DEF TableOfCalls, OwnIds, Counted
  <2> QED BY <2>1, <2>6, <2>7, <2>8 DEF TableOfCalls
<1>3. CASE CallSend(k) \/ CallReceive(k) \/ CallTimeout(k)
  <2>1. /\ callPc[k] \in Entered /\ UNCHANGED <<requests, callId>>
        /\ \E pc \in Entered : callPc' = [callPc EXCEPT ![k] = pc]
    BY <1>3 DEF CallSend, CallReceive, CallTimeout, table, Entered
  <2>2. chan' = chan \/ chan' = [chan EXCEPT ![callId[k]].buf = Tail(@)]
    BY <1>3 DEF CallSend, CallReceive, CallTimeout, table
  <2>3. \A i \in Ids : chan'[i].open <=> chan[i].open
    BY <1>0, <2>2 DEF Channel
  <2> QED BY <1>0, <2>1, <2>3, TableKept DEF Counted, Entered
<1>4. CASE CallForget(k)
  <2>1. /\ callPc[k] = "ended" /\ callPc' = [callPc EXCEPT ![k] = "forgotten"]
        /\ requests' = requests \ {callId[k]} /\ UNCHANGED <<callId, chan>>
    BY <1>4 DEF CallForget
  <2>2. \A j \in Callers : callPc'[j] = IF j = k THEN "forgotten" ELSE callPc[j]
    BY <1>0, <2>1
  <2>3. OwnIds' /\ \A i \in Ids : ChannelOf(i)' <=> ChannelOf(i)
    BY <2>1, <2>2 DEF TableOfCalls, OwnIds, ChannelOf, Counted
  <2>4. \A i \in Ids : EntryOf(i)' <=> EntryOf(i) /\ i # callId[k]
    BY <2>1, <2>2 DEF TableOfCalls, OwnIds, EntryOf, Counted, Entered
  <2> QED BY <2>1, <2>3, <2>4 DEF TableOfCalls
<1>5. CASE CallReturn(k)
  <2>1. /\ callPc[k] = "forgotten" /\ callPc' = [callPc EXCEPT ![k] = "idle"]
        /\ chan' = [chan EXCEPT ![callId[k]] = NoChannel] /\ callId' = [callId EXCEPT ![k] = 0]
        /\ requests' = requests
    BY <1>5 DEF CallReturn
  <2>2. \A j \in Callers : /\ j # k => callPc'[j] = callPc[j] /\ callId'[j] = callId[j]
                           /\ j = k => callPc'[j] = "idle"
    BY <1>0, <2>1
  <2>3. OwnIds'
    BY <2>1, <2>2 DEF TableOfCalls, OwnIds, Counted
  <2>4. \A i \in Ids : EntryOf(i)' <=> EntryOf(i)
    BY <2>1, <2>2 DEF EntryOf, Entered
  <2>5. \A i \in Ids : ChannelOf(i)' <=> ChannelOf(i) /\ i # callId[k]
    BY <2>1, <2>2 DEF TableOfCalls, OwnIds, ChannelOf, Counted
  <2>6. \A i \in Ids : chan'[i].open <=> chan[i].open /\ i # callId[k]
    BY <1>0, <2>1 DEF Channel, NoChannel
  <2> QED BY <2>1, <2>3, <2>4, <2>5, <2>6 DEF TableOfCalls
<1> QED BY <1>1, <1>2, <1>3, <1>4, <1>5 DEF Caller

LEMMA StepTable == Inv /\ TableOfCalls /\ [Next]_vars => TableOfCalls'
<1> SUFFICES ASSUME Inv, TableOfCalls, [Next]_vars PROVE TableOfCalls'
  OBVIOUS
<1>1. CASE \E k \in Callers : Caller(k)
  BY <1>1, CallerTable
<1>2. CASE UNCHANGED <<requests, chan, callPc, callId>>
  BY <1>2, TableKept
<1>3. ASSUME NEW c \in Conns, NEW s \in Slots, Deliver(c, s) PROVE TableOfCalls'
  <2>1. UNCHANGED <<requests, callPc, callId>>
    BY <1>3 DEF Deliver, call
  <2>2. \/ chan' = chan
        \/ chan' = [chan EXCEPT ![task[c][s].id].buf = Append(chan[task[c][s].id].buf, task[c][s])]
    BY <1>3 DEF Deliver
  <2>3. \A i \in Ids : chan'[i].open <=> chan[i].open
    BY <2>2 DEF Inv, TableInv, Channel
  <2> QED BY <2>1, <2>3, TableKept
<1>4. ASSUME NEW c \in Conns, Reader(c) \/ Writer(c) PROVE TableOfCalls'
  BY <1>2, <1>3, <1>4 DEF Reader, ReaderTake, ReaderFail, ReaderLeave, ReaderClose, WorkerTake,
     Writer, WriterSend, WriterEnd, call, table
<1>5. CASE Hub
  BY <1>2, <1>5 DEF Hub, HubRegister, HubUnregister, Broadcast, HubReceive, table, call
<1>6. CASE PageStep
  BY <1>2, <1>6 DEF PageStep, Dial, PageState, PagePing, PageDrop, PageAnswer, table, call
<1>7. CASE Restart
  BY <1>7 DEF Restart, TableOfCalls, EntryOf, ChannelOf, OwnIds, Entered, Counted, NoChannel
<1>8. CASE UNCHANGED vars
  BY <1>2, <1>8 DEF vars, table, call
<1> QED BY <1>1, <1>4, <1>5, <1>6, <1>7, <1>8 DEF Next

-----------------------------------------------------------------------------
(* One copy of every message.                                              *)

\* The messages of calls in a sequence of messages, of frames, in a set.
Items(s)   == {m \in Message : m.no # 0 /\ \E j \in DOMAIN s : s[j] = m}
Answers(s) == {m \in Message : m.no # 0 /\ \E j \in DOMAIN s : s[j].msg = m}
Real(S)    == {m \in Message : m.no # 0 /\ m \in S}
Distinct(s) == \A j, k \in DOMAIN s : s[j] = s[k] /\ s[j].no # 0 => j = k
DistinctAnswers(s) == \A j, k \in DOMAIN s : s[j].msg = s[k].msg /\ s[j].msg.no # 0 => j = k

\* Where messages are, and which are where.
Places == ({"outbox", "uplink", "queue"} \X Conns) \cup ({"work"} \X Pages)
          \cup ({"task"} \X (Conns \X Slots)) \cup ({"chan"} \X Ids)
Stock == [x \in Places |->
  IF x[1] = "outbox" THEN Items(outbox[x[2]])
  ELSE IF x[1] = "uplink" THEN Answers(uplink[x[2]])
  ELSE IF x[1] = "queue" THEN Items(queue[x[2]])
  ELSE IF x[1] = "work" THEN Real(work[x[2]])
  ELSE IF x[1] = "task" THEN Real({task[x[2][1]][x[2][2]]})
  ELSE Items(chan[x[2]].buf)]
Everything == {m \in Message : \E z \in Places : m \in Stock[z]}

Apart == \A x, y \in Places : x # y => Stock[x] \cap Stock[y] = {}
Singles == /\ \A c \in Conns : Distinct(outbox[c]) /\ DistinctAnswers(uplink[c]) /\ Distinct(queue[c])
           /\ \A i \in Ids : Distinct(chan[i].buf)

LEMMA NoItems == /\ Items(<<>>) = {} /\ Answers(<<>>) = {}
                 /\ Distinct(<<>>) /\ DistinctAnswers(<<>>)
BY DEF Items, Answers, Distinct, DistinctAnswers

LEMMA TailItems ==
  ASSUME NEW s \in Seq(Message), s # <<>>, Distinct(s)
  PROVE  /\ Distinct(Tail(s)) /\ Items(Tail(s)) \subseteq Items(s) /\ Head(s) \notin Items(Tail(s))
         /\ Real({Head(s)}) \subseteq Items(s)
<1>1. \A j \in DOMAIN Tail(s) : j + 1 \in DOMAIN s /\ Tail(s)[j] = s[j + 1] /\ j \in Nat \ {0}
  OBVIOUS
<1>2. 1 \in DOMAIN s /\ Head(s) = s[1]
  OBVIOUS
<1>3. Distinct(Tail(s))
  BY <1>1 DEF Distinct
<1>4. Items(Tail(s)) \subseteq Items(s)
  BY <1>1 DEF Items
<1>5. Head(s) \notin Items(Tail(s))
  BY <1>1, <1>2 DEF Items, Distinct
<1>6. Real({Head(s)}) \subseteq Items(s)
  BY <1>2 DEF Items, Real
<1> QED BY <1>3, <1>4, <1>5, <1>6

LEMMA TailAnswers ==
  ASSUME NEW s \in Seq(Frame), s # <<>>, DistinctAnswers(s)
  PROVE  /\ DistinctAnswers(Tail(s)) /\ Answers(Tail(s)) \subseteq Answers(s)
         /\ Head(s).msg \notin Answers(Tail(s)) /\ Real({Head(s).msg}) \subseteq Answers(s)
<1>1. \A j \in DOMAIN Tail(s) : j + 1 \in DOMAIN s /\ Tail(s)[j] = s[j + 1] /\ j \in Nat \ {0}
  OBVIOUS
<1>2. 1 \in DOMAIN s /\ Head(s) = s[1]
  OBVIOUS
<1>3. DistinctAnswers(Tail(s))
  BY <1>1 DEF DistinctAnswers
<1>4. Answers(Tail(s)) \subseteq Answers(s)
  BY <1>1 DEF Answers
<1>5. Head(s).msg \notin Answers(Tail(s))
  BY <1>1, <1>2 DEF Answers, DistinctAnswers
<1>6. Real({Head(s).msg}) \subseteq Answers(s)
  BY <1>2 DEF Answers, Real
<1> QED BY <1>3, <1>4, <1>5, <1>6

LEMMA AppendItems ==
  ASSUME NEW s \in Seq(Message), NEW e \in Message, Distinct(s), e \notin Items(s)
  PROVE  Distinct(Append(s, e)) /\ Items(Append(s, e)) \subseteq Items(s) \cup Real({e})
<1>1. \A j \in DOMAIN Append(s, e) : \/ j \in DOMAIN s /\ Append(s, e)[j] = s[j]
                                     \/ j = Len(s) + 1 /\ Append(s, e)[j] = e
  OBVIOUS
<1>2. \A j \in DOMAIN s : s[j] \in Message
  OBVIOUS
<1>3. Distinct(Append(s, e))
  BY <1>1, <1>2 DEF Distinct, Items
<1>4. Items(Append(s, e)) \subseteq Items(s) \cup Real({e})
  BY <1>1 DEF Items, Real
<1> QED BY <1>3, <1>4

LEMMA AppendAnswers ==
  ASSUME NEW s \in Seq(Frame), NEW f \in Frame, DistinctAnswers(s), f.msg \notin Answers(s)
  PROVE  /\ DistinctAnswers(Append(s, f))
         /\ Answers(Append(s, f)) \subseteq Answers(s) \cup Real({f.msg})
<1>1. \A j \in DOMAIN Append(s, f) : \/ j \in DOMAIN s /\ Append(s, f)[j] = s[j]
                                     \/ j = Len(s) + 1 /\ Append(s, f)[j] = f
  OBVIOUS
<1>2. \A j \in DOMAIN s : s[j].msg \in Message
  <2>1. \A j \in DOMAIN s : s[j] \in Frame
    OBVIOUS
  <2> QED BY <2>1 DEF Frame
<1>3. DistinctAnswers(Append(s, f))
  BY <1>1, <1>2 DEF DistinctAnswers, Answers
<1>4. Answers(Append(s, f)) \subseteq Answers(s) \cup Real({f.msg})
  BY <1>1, <1>2 DEF Answers, Real
<1> QED BY <1>3, <1>4

\* A notice is the message of no call.
LEMMA NoticeItem == Real({Notice}) = {} /\ (\A s : Notice \notin Items(s) /\ Notice \notin Answers(s))
BY DEF Real, Items, Answers, Notice

-----------------------------------------------------------------------------
(* What a step moves.                                                      *)

To(z, y, M) == IF z = y THEN M ELSE {}

\* Where messages go, told variable by variable.
LEMMA Flow ==
  ASSUME NEW y, NEW M,
         \A c \in Conns :
           /\ Items(outbox'[c]) \subseteq Items(outbox[c]) \cup To(<<"outbox", c>>, y, M)
           /\ Answers(uplink'[c]) \subseteq Answers(uplink[c]) \cup To(<<"uplink", c>>, y, M)
           /\ Items(queue'[c]) \subseteq Items(queue[c]) \cup To(<<"queue", c>>, y, M)
           /\ \A s \in Slots :
                Real({task'[c][s]}) \subseteq Real({task[c][s]}) \cup To(<<"task", <<c, s>>>>, y, M),
         \A p \in Pages : Real(work'[p]) \subseteq Real(work[p]) \cup To(<<"work", p>>, y, M),
         \A i \in Ids : Items(chan'[i].buf) \subseteq Items(chan[i].buf) \cup To(<<"chan", i>>, y, M)
  PROVE  \A z \in Places : Stock'[z] \subseteq Stock[z] \cup To(z, y, M)
<1> SUFFICES ASSUME NEW z \in Places PROVE Stock'[z] \subseteq Stock[z] \cup To(z, y, M)
  OBVIOUS
<1>1. ASSUME NEW c \in Conns, z = <<"outbox", c>> PROVE Stock'[z] \subseteq Stock[z] \cup To(z, y, M)
  BY <1>1 DEF Stock
<1>2. ASSUME NEW c \in Conns, z = <<"uplink", c>> PROVE Stock'[z] \subseteq Stock[z] \cup To(z, y, M)
  BY <1>2 DEF Stock
<1>3. ASSUME NEW c \in Conns, z = <<"queue", c>> PROVE Stock'[z] \subseteq Stock[z] \cup To(z, y, M)
  BY <1>3 DEF Stock
<1>4. ASSUME NEW p \in Pages, z = <<"work", p>> PROVE Stock'[z] \subseteq Stock[z] \cup To(z, y, M)
  BY <1>4 DEF Stock
<1>5. ASSUME NEW c \in Conns, NEW s \in Slots, z = <<"task", <<c, s>>>>
      PROVE  Stock'[z] \subseteq Stock[z] \cup To(z, y, M)
  BY <1>5 DEF Stock
<1>6. ASSUME NEW i \in Ids, z = <<"chan", i>> PROVE Stock'[z] \subseteq Stock[z] \cup To(z, y, M)
  BY <1>6 DEF Stock
<1> QED BY <1>1, <1>2, <1>3, <1>4, <1>5, <1>6 DEF Places

LEMMA Shrunk ==
  ASSUME Apart, \A z \in Places : Stock'[z] \subseteq Stock[z]
  PROVE  Apart' /\ Everything' \subseteq Everything
BY DEF Apart, Everything

LEMMA Carried ==
  ASSUME Apart, NEW x \in Places, NEW y \in Places, x # y, NEW M, M \subseteq Stock[x],
         Stock'[x] \cap M = {}, \A z \in Places : Stock'[z] \subseteq Stock[z] \cup To(z, y, M)
  PROVE  Apart' /\ Everything' \subseteq Everything
<1>1. \A z \in Places : z # y => Stock'[z] \cap M = {} /\ Stock'[z] \subseteq Stock[z]
  BY DEF Apart, To
<1>2. Stock'[y] \subseteq Stock[y] \cup M
  BY DEF To
<1>3. Apart'
  BY <1>1, <1>2 DEF Apart
<1>4. Everything' \subseteq Everything
  BY <1>1, <1>2 DEF Everything
<1> QED BY <1>3, <1>4

LEMMA Added ==
  ASSUME Apart, NEW y \in Places, NEW M, \A z \in Places : Stock[z] \cap M = {},
         \A z \in Places : Stock'[z] \subseteq Stock[z] \cup To(z, y, M)
  PROVE  Apart' /\ Everything' \subseteq Everything \cup M
<1>1. \A z \in Places : z # y => Stock'[z] \cap M = {} /\ Stock'[z] \subseteq Stock[z]
  BY DEF To
<1>2. Stock'[y] \subseteq Stock[y] \cup M
  BY DEF To
<1>3. Apart'
  BY <1>1, <1>2 DEF Apart
<1>4. Everything' \subseteq Everything \cup M
  BY <1>1, <1>2 DEF Everything
<1> QED BY <1>3, <1>4

CopyInv == Apart /\ Singles

LEMMA LoseItems ==
  ASSUME NEW s \in Seq(Message), Distinct(s), NEW t,
         t \in {s, <<>>, Append(s, Notice)} \/ (s # <<>> /\ t = Tail(s))
  PROVE  Distinct(t) /\ Items(t) \subseteq Items(s)
<1>1. CASE t = Append(s, Notice)
  <2>1. Notice \in Message
    BY ApiHubAssumption DEF Notice, Message
  <2> QED BY <1>1, <2>1, AppendItems, NoticeItem
<1> QED BY <1>1, TailItems, NoItems

LEMMA LoseAnswers ==
  ASSUME NEW s \in Seq(Frame), DistinctAnswers(s), NEW t,
         \/ t \in {s, <<>>}
         \/ \E type \in {"ready", "unready", "ping"} : t = Append(s, [type |-> type, msg |-> Notice])
         \/ s # <<>> /\ t = Tail(s)
  PROVE  DistinctAnswers(t) /\ Answers(t) \subseteq Answers(s)
<1>1. ASSUME NEW type \in {"ready", "unready", "ping"}, t = Append(s, [type |-> type, msg |-> Notice])
      PROVE  DistinctAnswers(t) /\ Answers(t) \subseteq Answers(s)
  <2>1. [type |-> type, msg |-> Notice] \in Frame
    BY ApiHubAssumption DEF Notice, Message, Frame
  <2>2. [type |-> type, msg |-> Notice].msg = Notice
    OBVIOUS
  <2> QED BY <1>1, <2>1, <2>2, AppendAnswers, NoticeItem
<1> QED BY <1>1, TailAnswers, NoItems

\* Steps after which some messages are no more and the others where they were.
LEMMA Fewer ==
  ASSUME Inv, CopyInv,
         \A c \in Conns :
           /\ outbox'[c] \in {outbox[c], <<>>, Append(outbox[c], Notice)}
              \/ (outbox[c] # <<>> /\ outbox'[c] = Tail(outbox[c]))
           /\ \/ uplink'[c] \in {uplink[c], <<>>}
              \/ \E type \in {"ready", "unready", "ping"} :
                   uplink'[c] = Append(uplink[c], [type |-> type, msg |-> Notice])
              \/ uplink[c] # <<>> /\ uplink'[c] = Tail(uplink[c])
           /\ queue'[c] \in {queue[c], <<>>}
           /\ \A s \in Slots : task'[c][s] \in {task[c][s], NoMessage},
         \A p \in Pages : work'[p] \subseteq work[p],
         \A i \in Ids : \/ chan'[i].buf \in {chan[i].buf, <<>>}
                        \/ chan[i].buf # <<>> /\ chan'[i].buf = Tail(chan[i].buf)
  PROVE  CopyInv' /\ Everything' \subseteq Everything
<1>0. TypeOK
  BY InvTypes
<1>1. ASSUME NEW c \in Conns
      PROVE  /\ Distinct(outbox'[c]) /\ DistinctAnswers(uplink'[c]) /\ Distinct(queue'[c])
             /\ Items(outbox'[c]) \subseteq Items(outbox[c])
             /\ Answers(uplink'[c]) \subseteq Answers(uplink[c])
             /\ Items(queue'[c]) \subseteq Items(queue[c])
  <2>1. /\ outbox[c] \in Seq(Message) /\ uplink[c] \in Seq(Frame) /\ queue[c] \in Seq(Message)
        /\ Distinct(outbox[c]) /\ DistinctAnswers(uplink[c]) /\ Distinct(queue[c])
    BY <1>0 DEF TypeOK, CopyInv, Singles
  <2>2. Distinct(outbox'[c]) /\ Items(outbox'[c]) \subseteq Items(outbox[c])
    BY <2>1, LoseItems
  <2>3. DistinctAnswers(uplink'[c]) /\ Answers(uplink'[c]) \subseteq Answers(uplink[c])
    BY <2>1, LoseAnswers
  <2>4. Distinct(queue'[c]) /\ Items(queue'[c]) \subseteq Items(queue[c])
    BY <2>1, LoseItems
  <2> QED BY <2>2, <2>3, <2>4
<1>2. ASSUME NEW i \in Ids
      PROVE  Distinct(chan'[i].buf) /\ Items(chan'[i].buf) \subseteq Items(chan[i].buf)
  <2>1. chan[i].buf \in Seq(Message) /\ Distinct(chan[i].buf)
    BY <1>0 DEF TypeOK, Channel, CopyInv, Singles
  <2> QED BY <2>1, LoseItems
<1>3. \A c \in Conns, s \in Slots : Real({task'[c][s]}) \subseteq Real({task[c][s]})
  BY NoticeItem DEF NoMessage
<1>4. \A p \in Pages : Real(work'[p]) \subseteq Real(work[p])
  BY DEF Real
<1>5. \A z \in Places : Stock'[z] \subseteq Stock[z] \cup To(z, <<>>, {})
  BY <1>1, <1>2, <1>3, <1>4, Flow
<1>6. \A z \in Places : Stock'[z] \subseteq Stock[z]
  BY <1>5 DEF To
<1>7. Singles'
  BY <1>1, <1>2 DEF Singles
<1> QED BY <1>6, <1>7, Shrunk DEF CopyInv

LEMMA SameCopies ==
  ASSUME Inv, CopyInv, UNCHANGED <<outbox, uplink, queue, task, work, chan>>
  PROVE  CopyInv' /\ Everything' \subseteq Everything
BY Fewer

LEMMA CallerCopies ==
  ASSUME Inv, CopyInv, NEW k \in Callers, Caller(k), ~CallSend(k)
  PROVE  CopyInv' /\ Everything' \subseteq Everything
<1>0. chan \in [Ids -> Channel]
  BY DEF Inv, TableInv
<1>1. CASE CallSelect(k) \/ CallTimeout(k) \/ CallForget(k)
  BY <1>1, SameCopies DEF CallSelect, CallTimeout, CallForget, table, conn, page
<1>2. CASE CallEnrol(k)
  <2>1. /\ UNCHANGED <<outbox, uplink, queue, task, work>>
        /\ chan' = [chan EXCEPT ![reqSeq'] = [open |-> TRUE, buf |-> <<>>]]
    BY <1>2 DEF CallEnrol, page
  <2>2. \A i \in Ids : chan'[i].buf \in {chan[i].buf, <<>>}
    BY <1>0, <2>1
  <2> QED BY <2>1, <2>2, Fewer
<1>3. CASE CallReceive(k)
  <2>1. /\ UNCHANGED <<outbox, uplink, queue, task, work>> /\ chan[callId[k]].buf # <<>>
        /\ chan' = [chan EXCEPT ![callId[k]].buf = Tail(@)]
    BY <1>3 DEF CallReceive, conn, page
  <2>2. \A i \in Ids : \/ chan'[i].buf = chan[i].buf
                       \/ chan[i].buf # <<>> /\ chan'[i].buf = Tail(chan[i].buf)
    BY <1>0, <2>1 DEF Channel
  <2> QED BY <2>1, <2>2, Fewer
<1>4. CASE CallReturn(k)
  <2>1. UNCHANGED <<outbox, uplink, queue, task, work>> /\ chan' = [chan EXCEPT ![callId[k]] = NoChannel]
    BY <1>4 DEF CallReturn, page
  <2>2. \A i \in Ids : chan'[i].buf \in {chan[i].buf, <<>>}
    BY <1>0, <2>1 DEF NoChannel
  <2> QED BY <2>1, <2>2, Fewer
<1> QED BY <1>1, <1>2, <1>3, <1>4 DEF Caller

LEMMA HubCopies ==
  ASSUME Inv, CopyInv, Hub
  PROVE  CopyInv' /\ Everything' \subseteq Everything
<1>0. outbox \in [Conns -> Seq(Tagged)]
  BY DEF Inv, ClientInv
<1>1. CASE HubRegister \/ \E c \in Conns : HubReceive(c)
  BY <1>1, SameCopies DEF HubRegister, HubReceive, table, conn, page
<1>2. CASE HubUnregister
  <2>1. /\ UNCHANGED <<uplink, queue, task, work, chan>>
        /\ outbox' = outbox \/ outbox' = [outbox EXCEPT ![hubOp.conn] = <<>>]
    BY <1>2 DEF HubUnregister, Close, table
  <2>2. \A d \in Conns : outbox'[d] \in {outbox[d], <<>>}
    BY <1>0, <2>1
  <2> QED BY <2>1, <2>2, Fewer
<1>3. CASE Broadcast
  <2>1. /\ UNCHANGED <<uplink, queue, task, work, chan>>
        /\ \A d \in Conns : outbox'[d] \in {outbox[d], Append(outbox[d], Notice)}
    BY <1>3 DEF Broadcast, table, page
  <2> QED BY <2>1, Fewer
<1> QED BY <1>1, <1>2, <1>3 DEF Hub

LEMMA PageCopies ==
  ASSUME Inv, CopyInv, NEW c \in Conns, Dial(c) \/ PageState(c) \/ PagePing(c) \/ PageDrop(c)
  PROVE  CopyInv' /\ Everything' \subseteq Everything
<1>0. uplink \in [Conns -> Seq(TaggedFrame)] /\ work \in [Pages -> SUBSET Tagged]
  BY DEF Inv, PageInv
<1>1. CASE Dial(c) \/ PageState(c) \/ PagePing(c)
  <2>1. UNCHANGED <<outbox, queue, task, work, chan>>
    BY <1>1 DEF Dial, PageState, PagePing, conn, table
  <2>2. PICK type \in {"ready", "unready", "ping"} :
          uplink' = [uplink EXCEPT ![c] = Append(uplink[c], [type |-> type, msg |-> Notice])]
    BY <1>1 DEF Dial, PageState, PagePing, Post
  <2>3. \A d \in Conns : \/ uplink'[d] = uplink[d]
                         \/ uplink'[d] = Append(uplink[d], [type |-> type, msg |-> Notice])
    BY <1>0, <2>2
  <2> QED BY <2>1, <2>3, Fewer
<1>2. CASE PageDrop(c)
  <2>1. /\ UNCHANGED <<outbox, uplink, queue, task, chan>>
        /\ work' = work \/ work' = [work EXCEPT ![PageOf[c]] = {}]
    BY <1>2 DEF PageDrop, conn, table
  <2>2. \A p \in Pages : work'[p] \subseteq work[p]
    BY <1>0, <2>1
  <2> QED BY <2>1, <2>2, Fewer
<1> QED BY <1>1, <1>2

\* A page's answer goes to the connection it has, or is lost.
LEMMA AnswerCopies ==
  ASSUME Inv, CopyInv, NEW p \in Pages, PageAnswer(p)
  PROVE  CopyInv' /\ Everything' \subseteq Everything
<1>0. TypeOK
  BY InvTypes
<1>1. PICK m \in work[p] :
        /\ work' = [work EXCEPT ![p] = @ \ {m}] /\ UNCHANGED <<outbox, queue, task, chan>>
        /\ uplink' = uplink \/ \E c \in Conns : Post(c, "answer", m)
  BY DEF PageAnswer, conn, table
<1>2. \A q \in Pages : work'[q] = IF q = p THEN work[p] \ {m} ELSE work[q]
  BY <1>0, <1>1 DEF TypeOK
<1>3. CASE uplink' = uplink
  BY <1>1, <1>2, <1>3, Fewer
<1>4. ASSUME NEW c \in Conns, Post(c, "answer", m)
      PROVE  CopyInv' /\ Everything' \subseteq Everything
  <2> DEFINE f == [type |-> "answer", msg |-> m]
             x == <<"work", p>>
             y == <<"uplink", c>>
             M == Real({m})
  <2>1. m \in Message /\ f \in Frame /\ f.msg = m /\ uplink[c] \in Seq(Frame)
    BY <1>0 DEF TypeOK, Frame
  <2>2. \A d \in Conns : uplink'[d] = IF d = c THEN Append(uplink[c], f) ELSE uplink[d]
    BY <1>0, <1>4 DEF TypeOK, Post
  <2>3. x \in Places /\ y \in Places /\ x # y
    BY DEF Places
  <2>4. Stock[x] = Real(work[p]) /\ Stock[y] = Answers(uplink[c]) /\ Stock'[x] = Real(work'[p])
    BY <2>3 DEF Stock
  <2>5. M \subseteq Stock[x] /\ Stock'[x] \cap M = {}
    BY <1>2, <2>4 DEF Real
  <2>6. m \notin Answers(uplink[c])
    BY <2>1, <2>3, <2>4, <2>5 DEF CopyInv, Apart, Real, Answers
  <2>7. /\ DistinctAnswers(Append(uplink[c], f))
        /\ Answers(Append(uplink[c], f)) \subseteq Answers(uplink[c]) \cup M
    BY <2>1, <2>6, AppendAnswers DEF CopyInv, Singles
  <2>8. \A z \in Places : Stock'[z] \subseteq Stock[z] \cup To(z, y, M)
    <3>1. \A d \in Conns : Answers(uplink'[d]) \subseteq Answers(uplink[d]) \cup To(<<"uplink", d>>, y, M)
      BY <2>2, <2>7 DEF To
    <3>2. \A q \in Pages : Real(work'[q]) \subseteq Real(work[q])
      BY <1>2 DEF Real
    <3> QED BY <1>1, <3>1, <3>2, Flow
  <2>9. Singles'
    BY <1>1, <2>2, <2>7 DEF CopyInv, Singles
  <2> QED BY <2>3, <2>5, <2>8, <2>9, Carried DEF CopyInv
<1> QED BY <1>1, <1>3, <1>4

\* WritePump hands a request to the page, or to nobody.
LEMMA WriterCopies ==
  ASSUME Inv, CopyInv, NEW c \in Conns, Writer(c)
  PROVE  CopyInv' /\ Everything' \subseteq Everything
<1>0. TypeOK
  BY InvTypes
<1>1. CASE WriterEnd(c)
  <2>1. /\ UNCHANGED <<uplink, queue, task, work, chan>> /\ outbox' = [outbox EXCEPT ![c] = <<>>]
    BY <1>1 DEF WriterEnd, Close, table
  <2>2. \A d \in Conns : outbox'[d] \in {outbox[d], <<>>}
    BY <1>0, <2>1 DEF TypeOK
  <2> QED BY <2>1, <2>2, Fewer
<1>2. CASE WriterSend(c)
  <2> DEFINE m == Head(outbox[c])
             p == PageOf[c]
             x == <<"outbox", c>>
             y == <<"work", p>>
             M == Real({m})
  <2>1. /\ UNCHANGED <<uplink, queue, task, chan>> /\ outbox[c] # <<>>
        /\ outbox' = [outbox EXCEPT ![c] = Tail(outbox[c])]
        /\ work' = work \/ work' = [work EXCEPT ![p] = @ \cup {m}]
    BY <1>2 DEF WriterSend, table
  <2>2. \A d \in Conns : outbox'[d] = IF d = c THEN Tail(outbox[c]) ELSE outbox[d]
    BY <1>0, <2>1 DEF TypeOK
  <2>3. CASE work' = work
    BY <2>1, <2>2, <2>3, Fewer
  <2>4. CASE work' = [work EXCEPT ![p] = @ \cup {m}]
    <3>1. p \in Pages /\ x \in Places /\ y \in Places /\ x # y
      BY ApiHubAssumption DEF Places
    <3>2. \A q \in Pages : work'[q] = IF q = p THEN work[p] \cup {m} ELSE work[q]
      BY <1>0, <2>4 DEF TypeOK
    <3>3. outbox[c] \in Seq(Message) /\ Distinct(outbox[c])
      BY <1>0 DEF TypeOK, CopyInv, Singles
    <3>4. /\ Distinct(Tail(outbox[c])) /\ Items(Tail(outbox[c])) \subseteq Items(outbox[c])
          /\ m \notin Items(Tail(outbox[c])) /\ M \subseteq Items(outbox[c])
      BY <2>1, <3>3, TailItems
    <3>5. Stock[x] = Items(outbox[c]) /\ Stock'[x] = Items(outbox'[c])
      BY <3>1 DEF Stock
    <3>6. M \subseteq Stock[x] /\ Stock'[x] \cap M = {}
      BY <2>2, <3>4, <3>5 DEF Real
    <3>7. \A z \in Places : Stock'[z] \subseteq Stock[z] \cup To(z, y, M)
      <4>1. \A d \in Conns : Items(outbox'[d]) \subseteq Items(outbox[d])
        BY <2>2, <3>4
      <4>2. \A q \in Pages : Real(work'[q]) \subseteq Real(work[q]) \cup To(<<"work", q>>, y, M)
        BY <3>2 DEF Real, To
      <4> QED BY <2>1, <4>1, <4>2, Flow
    <3>8. Singles'
      BY <2>1, <2>2, <3>4 DEF CopyInv, Singles
    <3> QED BY <3>1, <3>6, <3>7, <3>8, Carried DEF CopyInv
  <2> QED BY <2>1, <2>3, <2>4
<1> QED BY <1>1, <1>2 DEF Writer

\* ReadPump passes an answer on to the queue, or looks its channel up itself.
LEMMA TakeCopies ==
  ASSUME Inv, CopyInv, NEW c \in Conns, ReaderTake(c)
  PROVE  CopyInv' /\ Everything' \subseteq Everything
<1> DEFINE f == Head(uplink[c])
           m == f.msg
           x == <<"uplink", c>>
           M == Real({m})
<1>0. TypeOK
  BY InvTypes
<1>1. /\ UNCHANGED <<work, chan>> /\ uplink[c] # <<>>
      /\ uplink' = [uplink EXCEPT ![c] = Tail(uplink[c])]
  BY DEF ReaderTake, table
<1>2. \/ /\ UNCHANGED <<queue, task>>
         /\ outbox' = outbox \/ outbox' = [outbox EXCEPT ![c] = Append(outbox[c], Notice)]
      \/ UNCHANGED <<outbox, task>> /\ queue' = [queue EXCEPT ![c] = Append(queue[c], m)]
      \/ UNCHANGED <<outbox, queue>> /\ task' = [task EXCEPT ![c][0] = LookUp(m)]
  BY DEF ReaderTake
<1>3. \A d \in Conns : uplink'[d] = IF d = c THEN Tail(uplink[c]) ELSE uplink[d]
  BY <1>0, <1>1 DEF TypeOK
<1>4. uplink[c] \in Seq(Frame) /\ DistinctAnswers(uplink[c]) /\ f \in Frame /\ m \in Message
  <2>1. uplink[c] \in Seq(Frame)
    BY <1>0 DEF TypeOK
  <2>2. f \in Frame
    BY <1>1, <2>1, TailSeq
  <2> QED BY <2>1, <2>2 DEF CopyInv, Singles, Frame
<1>5. /\ DistinctAnswers(Tail(uplink[c])) /\ Answers(Tail(uplink[c])) \subseteq Answers(uplink[c])
      /\ m \notin Answers(Tail(uplink[c])) /\ M \subseteq Answers(uplink[c])
  BY <1>1, <1>4, TailAnswers
<1>6. x \in Places /\ Stock[x] = Answers(uplink[c]) /\ Stock'[x] = Answers(uplink'[c])
  BY DEF Places, Stock
<1>7. M \subseteq Stock[x] /\ Stock'[x] \cap M = {}
  BY <1>3, <1>5, <1>6 DEF Real
<1>8. \A d \in Conns : Answers(uplink'[d]) \subseteq Answers(uplink[d])
  BY <1>3, <1>5
<1>9. CASE /\ UNCHANGED <<queue, task>>
           /\ outbox' = outbox \/ outbox' = [outbox EXCEPT ![c] = Append(outbox[c], Notice)]
  <2>1. \A d \in Conns : outbox'[d] \in {outbox[d], Append(outbox[d], Notice)}
    BY <1>0, <1>9, ZenonT(60) DEF TypeOK
  <2>2. \A d \in Conns : \/ uplink'[d] \in {uplink[d], <<>>}
                         \/ uplink[d] # <<>> /\ uplink'[d] = Tail(uplink[d])
    BY <1>1, <1>3
  <2> QED BY <1>1, <1>9, <2>1, <2>2, Fewer
<1>10. CASE UNCHANGED <<outbox, task>> /\ queue' = [queue EXCEPT ![c] = Append(queue[c], m)]
  <2> DEFINE y == <<"queue", c>>
  <2>1. y \in Places /\ x # y /\ Stock[y] = Items(queue[c])
    BY DEF Places, Stock
  <2>2. \A d \in Conns : queue'[d] = IF d = c THEN Append(queue[c], m) ELSE queue[d]
    BY <1>0, <1>10 DEF TypeOK
  <2>3. m \notin Items(queue[c])
    BY <1>4, <1>6, <1>7, <2>1 DEF CopyInv, Apart, Real, Items
  <2>4. Distinct(Append(queue[c], m)) /\ Items(Append(queue[c], m)) \subseteq Items(queue[c]) \cup M
    <3>1. queue[c] \in Seq(Message) /\ Distinct(queue[c])
      BY <1>0 DEF TypeOK, CopyInv, Singles
    <3> QED BY <1>4, <2>3, <3>1, AppendItems
  <2>5. \A z \in Places : Stock'[z] \subseteq Stock[z] \cup To(z, y, M)
    <3>1. \A d \in Conns : Items(queue'[d]) \subseteq Items(queue[d]) \cup To(<<"queue", d>>, y, M)
      BY <2>2, <2>4 DEF To
    <3> QED BY <1>1, <1>8, <1>10, <3>1, Flow
  <2>6. Singles'
    BY <1>1, <1>3, <1>5, <1>10, <2>2, <2>4 DEF CopyInv, Singles
  <2> QED BY <1>6, <1>7, <2>1, <2>5, <2>6, Carried DEF CopyInv
<1>11. CASE UNCHANGED <<outbox, queue>> /\ task' = [task EXCEPT ![c][0] = LookUp(m)]
  <2> DEFINE y == <<"task", <<c, 0>>>>
  <2>0. 0 \in Slots
    BY ApiHubAssumption DEF Slots
  <2>1. y \in Places /\ x # y
    BY <2>0 DEF Places
  <2>2. \A d \in Conns, s \in Slots : task'[d][s] = IF d = c /\ s = 0 THEN LookUp(m) ELSE task[d][s]
    BY <1>0, <1>11, <2>0 DEF TypeOK
  <2>3. Real({LookUp(m)}) \subseteq M
    BY NoticeItem DEF LookUp, NoMessage
  <2>4. \A z \in Places : Stock'[z] \subseteq Stock[z] \cup To(z, y, M)
    <3>1. \A d \in Conns, s \in Slots :
            Real({task'[d][s]}) \subseteq Real({task[d][s]}) \cup To(<<"task", <<d, s>>>>, y, M)
      BY <2>2, <2>3 DEF To
    <3> QED BY <1>1, <1>8, <1>11, <3>1, Flow
  <2>5. Singles'
    BY <1>1, <1>3, <1>5, <1>11 DEF CopyInv, Singles
  <2> QED BY <1>6, <1>7, <2>1, <2>4, <2>5, Carried DEF CopyInv
<1> QED BY <1>2, <1>9, <1>10, <1>11

LEMMA WorkerTakeCopies ==
  ASSUME Inv, CopyInv, NEW c \in Conns, NEW s \in Slots, WorkerTake(c, s)
  PROVE  CopyInv' /\ Everything' \subseteq Everything
<1> DEFINE m == Head(queue[c])
           x == <<"queue", c>>
           y == <<"task", <<c, s>>>>
           M == Real({m})
<1>0. TypeOK
  BY InvTypes
<1>1. /\ UNCHANGED <<outbox, uplink, work, chan>> /\ queue[c] # <<>>
      /\ queue' = [queue EXCEPT ![c] = Tail(queue[c])]
      /\ task' = [task EXCEPT ![c][s] = LookUp(m)]
  BY DEF WorkerTake, table, page
<1>2. \A d \in Conns : queue'[d] = IF d = c THEN Tail(queue[c]) ELSE queue[d]
  BY <1>0, <1>1 DEF TypeOK
<1>3. \A d \in Conns, t \in Slots : task'[d][t] = IF d = c /\ t = s THEN LookUp(m) ELSE task[d][t]
  BY <1>0, <1>1 DEF TypeOK
<1>4. queue[c] \in Seq(Message) /\ Distinct(queue[c])
  BY <1>0 DEF TypeOK, CopyInv, Singles
<1>5. /\ Distinct(Tail(queue[c])) /\ Items(Tail(queue[c])) \subseteq Items(queue[c])
      /\ m \notin Items(Tail(queue[c])) /\ M \subseteq Items(queue[c])
  BY <1>1, <1>4, TailItems
<1>6. /\ x \in Places /\ y \in Places /\ x # y
      /\ Stock[x] = Items(queue[c]) /\ Stock'[x] = Items(queue'[c])
  BY DEF Places, Stock
<1>7. M \subseteq Stock[x] /\ Stock'[x] \cap M = {}
  BY <1>2, <1>5, <1>6 DEF Real
<1>8. Real({LookUp(m)}) \subseteq M
  BY NoticeItem DEF LookUp, NoMessage
<1>9. \A z \in Places : Stock'[z] \subseteq Stock[z] \cup To(z, y, M)
  <2>1. \A d \in Conns : Items(queue'[d]) \subseteq Items(queue[d])
    BY <1>2, <1>5
  <2>2. \A d \in Conns, t \in Slots :
          Real({task'[d][t]}) \subseteq Real({task[d][t]}) \cup To(<<"task", <<d, t>>>>, y, M)
    BY <1>3, <1>8 DEF To
  <2> QED BY <1>1, <2>1, <2>2, Flow
<1>10. Singles'
  BY <1>1, <1>2, <1>5 DEF CopyInv, Singles
<1> QED BY <1>6, <1>7, <1>9, <1>10, Carried DEF CopyInv

LEMMA DeliverCopies ==
  ASSUME Inv, CopyInv, NEW c \in Conns, NEW s \in Slots, Deliver(c, s)
  PROVE  CopyInv' /\ Everything' \subseteq Everything
<1> DEFINE m == task[c][s]
           i == m.id
           x == <<"task", <<c, s>>>>
           y == <<"chan", i>>
           M == Real({m})
<1>0. TypeOK
  BY InvTypes
<1>1. /\ UNCHANGED <<outbox, uplink, work, queue>>
      /\ task' = [task EXCEPT ![c][s] = NoMessage]
      /\ chan' = chan \/ chan' = [chan EXCEPT ![i].buf = Append(chan[i].buf, m)]
  BY DEF Deliver, page
<1>2. \A d \in Conns, t \in Slots : task'[d][t] = IF d = c /\ t = s THEN NoMessage ELSE task[d][t]
  BY <1>0, <1>1 DEF TypeOK
<1>3. CASE chan' = chan
  <2>1. \A d \in Conns, t \in Slots : task'[d][t] \in {task[d][t], NoMessage}
    BY <1>2
  <2> QED BY <1>1, <1>3, <2>1, Fewer
<1>4. CASE i \in Ids /\ chan' = [chan EXCEPT ![i].buf = Append(chan[i].buf, m)]
  <2>1. \A j \in Ids : chan'[j].buf = IF j = i THEN Append(chan[i].buf, m) ELSE chan[j].buf
    BY <1>0, <1>4 DEF TypeOK, Channel
  <2>2. m \in Message /\ chan[i].buf \in Seq(Message) /\ Distinct(chan[i].buf)
    BY <1>0, <1>4 DEF TypeOK, Channel, CopyInv, Singles
  <2>3. /\ x \in Places /\ y \in Places /\ x # y
        /\ Stock[x] = Real({m}) /\ Stock'[x] = Real({task'[c][s]}) /\ Stock[y] = Items(chan[i].buf)
    BY <1>4 DEF Places, Stock
  <2>4. M \subseteq Stock[x] /\ Stock'[x] \cap M = {}
    BY <1>2, <2>3, NoticeItem DEF NoMessage
  <2>5. m \notin Items(chan[i].buf)
    BY <2>2, <2>3, <2>4 DEF CopyInv, Apart, Real, Items
  <2>6. /\ Distinct(Append(chan[i].buf, m))
        /\ Items(Append(chan[i].buf, m)) \subseteq Items(chan[i].buf) \cup M
    BY <2>2, <2>5, AppendItems
  <2>7. \A z \in Places : Stock'[z] \subseteq Stock[z] \cup To(z, y, M)
    <3>1. \A d \in Conns, t \in Slots : Real({task'[d][t]}) \subseteq Real({task[d][t]})
      BY <1>2, NoticeItem DEF NoMessage
    <3>2. \A j \in Ids : Items(chan'[j].buf) \subseteq Items(chan[j].buf) \cup To(<<"chan", j>>, y, M)
      BY <2>1, <2>6 DEF To
    <3> QED BY <1>1, <3>1, <3>2, Flow
  <2>8. Singles'
    BY <1>1, <2>1, <2>6 DEF CopyInv, Singles
  <2> QED BY <2>3, <2>4, <2>7, <2>8, Carried DEF CopyInv
<1>5. i \notin Ids => chan' = chan
  BY <1>0, <1>1 DEF TypeOK
<1> QED BY <1>1, <1>3, <1>4, <1>5

LEMMA ReaderCopies ==
  ASSUME Inv, CopyInv, NEW c \in Conns, Reader(c)
  PROVE  CopyInv' /\ Everything' \subseteq Everything
<1>0. TypeOK
  BY InvTypes
<1>1. CASE ReaderFail(c)
  <2>1. UNCHANGED <<outbox, queue, task, work, chan>> /\ uplink' = [uplink EXCEPT ![c] = <<>>]
    BY <1>1 DEF ReaderFail, table
  <2>2. \A d \in Conns : uplink'[d] \in {uplink[d], <<>>}
    BY <1>0, <2>1 DEF TypeOK
  <2> QED BY <2>1, <2>2, Fewer
<1>2. CASE ReaderLeave(c)
  BY <1>2, SameCopies DEF ReaderLeave, table, page
<1>3. CASE ReaderClose(c)
  <2>1. UNCHANGED <<uplink, queue, task, work, chan>> /\ outbox' = [outbox EXCEPT ![c] = <<>>]
    BY <1>3 DEF ReaderClose, Close, table
  <2>2. \A d \in Conns : outbox'[d] \in {outbox[d], <<>>}
    BY <1>0, <2>1 DEF TypeOK
  <2> QED BY <2>1, <2>2, Fewer
<1> QED BY <1>1, <1>2, <1>3, TakeCopies, WorkerTakeCopies, DeliverCopies DEF Reader

\* Whatever is under way was made for a call already made.
LEMMA StockTagged == Inv => Everything \subseteq Tagged
<1> SUFFICES ASSUME Inv, NEW z \in Places, NEW m \in Stock[z] PROVE m \in Tagged
  BY DEF Everything
<1>1. ASSUME NEW c \in Conns, z = <<"outbox", c>> PROVE m \in Tagged
  <2>1. m \in Items(outbox[c]) /\ outbox[c] \in Seq(Tagged)
    BY <1>1 DEF Stock, Inv, ClientInv
  <2> QED BY <2>1 DEF Items
<1>2. ASSUME NEW c \in Conns, z = <<"uplink", c>> PROVE m \in Tagged
  <2>1. m \in Answers(uplink[c]) /\ uplink[c] \in Seq(TaggedFrame)
    BY <1>2 DEF Stock, Inv, PageInv
  <2>2. PICK j \in DOMAIN uplink[c] : uplink[c][j].msg = m
    BY <2>1 DEF Answers
  <2>3. uplink[c][j] \in TaggedFrame
    BY <2>1, <2>2
  <2> QED BY <2>2, <2>3 DEF TaggedFrame
<1>3. ASSUME NEW c \in Conns, z = <<"queue", c>> PROVE m \in Tagged
  <2>1. m \in Items(queue[c]) /\ queue[c] \in Seq(Tagged)
    BY <1>3 DEF Stock, Inv, InboxInv
  <2> QED BY <2>1 DEF Items
<1>4. ASSUME NEW p \in Pages, z = <<"work", p>> PROVE m \in Tagged
  BY <1>4 DEF Stock, Real, Inv, PageInv
<1>5. ASSUME NEW c \in Conns, NEW s \in Slots, z = <<"task", <<c, s>>>> PROVE m \in Tagged
  BY <1>5 DEF Stock, Real, Inv, InboxInv
<1>6. ASSUME NEW i \in Ids, z = <<"chan", i>> PROVE m \in Tagged
  <2>1. m \in Items(chan[i].buf) /\ chan[i].buf \in Seq(TaggedAs(i))
    BY <1>6 DEF Stock, Inv, TableInv
  <2>2. m \in TaggedAs(i)
    BY <2>1 DEF Items
  <2> QED BY <2>2 DEF TaggedAs
<1> QED BY <1>1, <1>2, <1>3, <1>4, <1>5, <1>6 DEF Places

\* The request of a call enrolled and not yet sent is nowhere.
Fresh == \A k \in Callers : callPc[k] = "enrolled" => \A m \in Everything : m.no # callNo[k]
RequestOf(k) == [id |-> callId[k], no |-> callNo[k]]

LEMMA SendCopies ==
  ASSUME Inv, LoadInv, CopyInv, Fresh, NEW k \in Callers, CallSend(k)
  PROVE  CopyInv' /\ Everything' \subseteq Everything \cup {RequestOf(k)}
<1> DEFINE c == callConn[k]
           m == RequestOf(k)
           y == <<"outbox", c>>
           M == {m}
<1>0. TypeOK
  BY InvTypes
<1>1. /\ UNCHANGED <<uplink, queue, task, work, chan>> /\ callPc[k] = "enrolled"
      /\ outbox' = outbox \/ outbox' = [outbox EXCEPT ![c] = Append(@, m)]
  BY DEF CallSend, table, page, RequestOf
<1>2. m \in Message /\ m.no = callNo[k] /\ c \in Conns
  BY <1>0, <1>1 DEF TypeOK, Message, RequestOf, LoadInv
<1>3. CASE outbox' = outbox
  BY <1>1, <1>3, SameCopies
<1>4. CASE outbox' = [outbox EXCEPT ![c] = Append(@, m)]
  <2>1. \A d \in Conns : outbox'[d] = IF d = c THEN Append(outbox[c], m) ELSE outbox[d]
    BY <1>0, <1>4 DEF TypeOK
  <2>2. y \in Places /\ Stock[y] = Items(outbox[c])
    BY <1>2 DEF Places, Stock
  <2>3. \A z \in Places : Stock[z] \cap M = {}
    BY <1>1, <1>2 DEF Fresh, Everything
  <2>4. outbox[c] \in Seq(Message) /\ Distinct(outbox[c])
    BY <1>0, <1>2 DEF TypeOK, CopyInv, Singles
  <2>5. /\ Distinct(Append(outbox[c], m))
        /\ Items(Append(outbox[c], m)) \subseteq Items(outbox[c]) \cup M
    BY <1>2, <2>2, <2>3, <2>4, AppendItems DEF Real
  <2>6. \A z \in Places : Stock'[z] \subseteq Stock[z] \cup To(z, y, M)
    <3>1. \A d \in Conns : Items(outbox'[d]) \subseteq Items(outbox[d]) \cup To(<<"outbox", d>>, y, M)
      BY <2>1, <2>5 DEF To
    <3> QED BY <1>1, <3>1, Flow
  <2>7. Singles'
    BY <1>1, <2>1, <2>5 DEF CopyInv, Singles
  <2> QED BY <2>2, <2>3, <2>6, <2>7, Added DEF CopyInv
<1> QED BY <1>1, <1>3, <1>4

LEMMA RestartCopies ==
  ASSUME Inv, CopyInv, Restart
  PROVE  CopyInv' /\ Everything' \subseteq Everything
<1>1. /\ outbox' = [c \in Conns |-> <<>>] /\ uplink' = [c \in Conns |-> <<>>]
      /\ queue' = [c \in Conns |-> <<>>] /\ task' = [c \in Conns |-> [s \in Slots |-> NoMessage]]
      /\ chan' = [i \in Ids |-> NoChannel] /\ work' = work
  BY DEF Restart
<1> QED BY <1>1, Fewer DEF NoChannel

\* Only the send of a request adds to what is under way.
LEMMA StepCopies ==
  ASSUME Inv, LoadInv, CopyInv, Fresh, [Next]_vars
  PROVE  /\ CopyInv'
         /\ \/ Everything' \subseteq Everything
            \/ \E k \in Callers : CallSend(k) /\ Everything' \subseteq Everything \cup {RequestOf(k)}
<1>1. ASSUME NEW k \in Callers, CallSend(k)
      PROVE  CopyInv' /\ Everything' \subseteq Everything \cup {RequestOf(k)}
  BY <1>1, SendCopies
<1>2. ASSUME NEW k \in Callers, Caller(k), ~CallSend(k)
      PROVE  CopyInv' /\ Everything' \subseteq Everything
  BY <1>2, CallerCopies
<1>3. ASSUME NEW c \in Conns, Reader(c) \/ Writer(c)
      PROVE  CopyInv' /\ Everything' \subseteq Everything
  BY <1>3, ReaderCopies, WriterCopies
<1>4. ASSUME PageStep PROVE CopyInv' /\ Everything' \subseteq Everything
  BY <1>4, PageCopies, AnswerCopies DEF PageStep
<1>5. ASSUME UNCHANGED vars PROVE CopyInv' /\ Everything' \subseteq Everything
  BY <1>5, SameCopies DEF vars, table, conn, page
<1> QED BY <1>1, <1>2, <1>3, <1>4, <1>5, HubCopies, RestartCopies DEF Next

LEMMA StepFresh ==
  ASSUME Inv, LoadInv, TableOfCalls, CopyInv, Fresh, [Next]_vars
  PROVE  Fresh'
<1>0. /\ callPc \in [Callers -> Pcs] /\ callId \in [Callers -> 0..MaxCalls]
      /\ callNo \in [Callers -> 0..MaxCalls] /\ calls \in Nat
  BY DEF Inv, CallInv, HistInv
<1>1. ASSUME Everything' \subseteq Everything,
             \A k \in Callers : callPc'[k] = "enrolled" => callPc[k] = "enrolled" /\ callNo'[k] = callNo[k]
      PROVE  Fresh'
  BY <1>1 DEF Fresh
<1>2. ASSUME NEW k \in Callers, CallEnrol(k) PROVE Fresh'
  <2>1. /\ callPc' = [callPc EXCEPT ![k] = "enrolled"] /\ callNo' = [callNo EXCEPT ![k] = calls + 1]
    BY <1>2 DEF CallEnrol
  <2>2. Everything' \subseteq Everything
    BY <1>2, CallerCopies DEF Caller, CallEnrol, CallSend
  <2>3. \A m \in Everything : m.no \in Nat /\ m.no <= calls
    BY StockTagged, ApiHubAssumption DEF Tagged, Message
  <2>4. \A j \in Callers : /\ j # k => callPc'[j] = callPc[j] /\ callNo'[j] = callNo[j]
                           /\ j = k => callNo'[j] = calls + 1
    BY <1>0, <2>1
  <2>5. ASSUME NEW j \in Callers, callPc'[j] = "enrolled", NEW m \in Everything
        PROVE  m.no # callNo'[j]
    <3>1. CASE j = k
      BY <1>0, <2>3, <2>4, <3>1
    <3>2. CASE j # k
      BY <2>4, <2>5, <3>2 DEF Fresh
    <3> QED BY <3>1, <3>2
  <2> QED BY <2>2, <2>5 DEF Fresh
<1>3. ASSUME NEW k \in Callers, CallSend(k) PROVE Fresh'
  <2>1. /\ callPc[k] = "enrolled" /\ callNo' = callNo
        /\ \E pc \in {"waiting", "ended"} : callPc' = [callPc EXCEPT ![k] = pc]
    BY <1>3 DEF CallSend
  <2>2. Everything' \subseteq Everything \cup {RequestOf(k)}
    BY <1>3, SendCopies
  <2>3. \A j \in Callers : callPc'[j] = "enrolled" => j # k /\ callPc[j] = "enrolled"
    BY <1>0, <2>1
  <2>4. \A j \in Callers : callPc[j] = "enrolled" /\ j # k => callNo[j] # callNo[k]
    <3> SUFFICES ASSUME NEW j \in Callers, callPc[j] = "enrolled", j # k PROVE callNo[j] # callNo[k]
      OBVIOUS
    <3>1. callId[j] # callId[k]
      BY <2>1 DEF TableOfCalls, OwnIds, Counted
    <3>2. /\ callNo[j] = callId[j] + oldCalls /\ callNo[k] = callId[k] + oldCalls
          /\ callId[j] \in Nat /\ callId[k] \in Nat /\ oldCalls \in Nat
      BY <1>0, <2>1 DEF Inv, CallInv, HistInv
    <3> QED BY <3>1, <3>2
  <2>5. RequestOf(k).no = callNo[k]
    BY DEF RequestOf
  <2> QED BY <2>1, <2>2, <2>3, <2>4, <2>5 DEF Fresh
<1>4. ASSUME NEW k \in Callers, Caller(k), ~CallSend(k), ~CallEnrol(k) PROVE Fresh'
  <2>1. Everything' \subseteq Everything
    BY <1>4, CallerCopies
  <2>2. \/ /\ UNCHANGED callNo
           /\ \E pc \in {"selected", "ended", "forgotten"} : callPc' = [callPc EXCEPT ![k] = pc]
        \/ /\ callNo' = [callNo EXCEPT ![k] = 0] /\ callPc' = [callPc EXCEPT ![k] = "idle"]
    BY <1>4 DEF Caller, CallSelect, CallReceive, CallTimeout, CallForget, CallReturn
  <2>3. \A j \in Callers : callPc'[j] = "enrolled" => callPc[j] = "enrolled" /\ callNo'[j] = callNo[j]
    BY <1>0, <2>2
  <2> QED BY <1>1, <2>1, <2>3
<1>5. ASSUME UNCHANGED call, Everything' \subseteq Everything PROVE Fresh'
  BY <1>1, <1>5 DEF call
<1>6. ASSUME NEW c \in Conns, Reader(c) \/ Writer(c) PROVE Fresh'
  <2>1. UNCHANGED call
    BY <1>6 DEF Reader, ReaderTake, ReaderFail, ReaderLeave, ReaderClose, WorkerTake, Deliver,
       Writer, WriterSend, WriterEnd
  <2> QED BY <1>5, <1>6, <2>1, ReaderCopies, WriterCopies
<1>7. CASE Hub
  <2>1. UNCHANGED call
    BY <1>7 DEF Hub, HubRegister, HubUnregister, Broadcast, HubReceive
  <2> QED BY <1>5, <1>7, <2>1, HubCopies
<1>8. CASE PageStep
  <2>1. UNCHANGED call
    BY <1>8 DEF PageStep, Dial, PageState, PagePing, PageDrop, PageAnswer
  <2> QED BY <1>5, <1>8, <2>1, PageCopies, AnswerCopies DEF PageStep
<1>9. CASE Restart
  BY <1>9 DEF Restart, Fresh
<1>10. CASE UNCHANGED vars
  BY <1>5, <1>10, SameCopies DEF vars, table, conn, page
<1> QED BY <1>2, <1>3, <1>4, <1>6, <1>7, <1>8, <1>9, <1>10 DEF Next

-----------------------------------------------------------------------------
(* Room in the response channels.                                          *)

\* The calls made before each process started: an id comes once from each.
BasedOn(B) ==
  /\ IsFiniteSet(B) /\ Cardinality(B) <= restarts + 1
  /\ oldCalls \in B
  /\ \A m \in Everything : m.id \in Ids /\ m.no - m.id \in B
BaseInv == \E B \in SUBSET Nat : BasedOn(B)

LEMMA InitCopies == Init => CopyInv /\ Fresh /\ BaseInv
<1> SUFFICES ASSUME Init PROVE CopyInv /\ Fresh /\ BaseInv
  OBVIOUS
<1>1. \A c \in Conns : /\ Items(outbox[c]) = {} /\ Answers(uplink[c]) = {} /\ Items(queue[c]) = {}
                       /\ \A s \in Slots : Real({task[c][s]}) = {}
  BY NoItems, NoticeItem DEF Init, NoMessage
<1>2. /\ \A p \in Pages : Real(work[p]) = {}
      /\ \A i \in Ids : Items(chan[i].buf) = {}
  BY NoItems DEF Init, Real, NoChannel
<1>3. \A z \in Places : Stock[z] = {}
  <2> SUFFICES ASSUME NEW z \in Places PROVE Stock[z] = {}
    OBVIOUS
  <2>1. ASSUME NEW c \in Conns, z \in {<<"outbox", c>>, <<"uplink", c>>, <<"queue", c>>} PROVE Stock[z] = {}
    BY <1>1, <2>1 DEF Stock
  <2>2. ASSUME NEW p \in Pages, z = <<"work", p>> PROVE Stock[z] = {}
    BY <1>2, <2>2 DEF Stock
  <2>3. ASSUME NEW c \in Conns, NEW s \in Slots, z = <<"task", <<c, s>>>> PROVE Stock[z] = {}
    BY <1>1, <2>3 DEF Stock
  <2>4. ASSUME NEW i \in Ids, z = <<"chan", i>> PROVE Stock[z] = {}
    BY <1>2, <2>4 DEF Stock
  <2> QED BY <2>1, <2>2, <2>3, <2>4 DEF Places
<1>4. Everything = {} /\ Apart
  BY <1>3 DEF Everything, Apart
<1>5. Singles
  BY NoItems DEF Init, Singles, NoChannel
<1>6. Fresh
  BY DEF Init, Fresh
<1>7. BasedOn({0})
  <2>1. IsFiniteSet({0}) /\ Cardinality({0}) = 1
    BY FS_Singleton
  <2> QED BY <1>4, <2>1 DEF Init, BasedOn
<1> QED BY <1>4, <1>5, <1>6, <1>7 DEF CopyInv, BaseInv

LEMMA StepBase ==
  ASSUME Inv, LoadInv, CopyInv, Fresh, BaseInv, [Next]_vars
  PROVE  BaseInv'
<1>0. restarts \in Nat /\ calls \in Nat /\ oldCalls \in Nat
  BY DEF Inv, HistInv
<1>1. PICK B \in SUBSET Nat : BasedOn(B)
  BY DEF BaseInv
<1>2. CASE Restart
  <2>1. restarts' = restarts + 1 /\ oldCalls' = calls
    BY <1>2 DEF Restart
  <2>2. Everything' \subseteq Everything
    BY <1>2, RestartCopies
  <2>3. /\ IsFiniteSet(B \cup {calls}) /\ Cardinality(B \cup {calls}) <= restarts + 2
    <3>1. IsFiniteSet(B) /\ Cardinality(B) <= restarts + 1 /\ Cardinality(B) \in Nat
      BY <1>1, FS_CardinalityType DEF BasedOn
    <3>2. CASE calls \in B
      <4>1. B \cup {calls} = B
        BY <3>2
      <4> QED BY <1>0, <3>1, <4>1
    <3>3. CASE calls \notin B
      <4>1. IsFiniteSet(B \cup {calls}) /\ Cardinality(B \cup {calls}) = Cardinality(B) + 1
        BY <3>1, <3>3, FS_AddElement
      <4> QED BY <1>0, <3>1, <4>1
    <3> QED BY <3>2, <3>3
  <2>4. restarts' + 1 = restarts + 2 /\ oldCalls' \in B \cup {calls}
    BY <1>0, <2>1
  <2>5. \A m \in Everything' : m.id \in Ids /\ m.no - m.id \in B \cup {calls}
    BY <1>1, <2>2 DEF BasedOn
  <2>6. PICK D \in SUBSET Nat : D = B \cup {calls}
    BY <1>0
  <2>7. BasedOn(D)'
    BY <2>1, <2>3, <2>4, <2>5, <2>6, <1>0 DEF BasedOn
  <2> QED BY <2>7 DEF BaseInv
<1>3. CASE ~Restart
  <2>1. UNCHANGED <<restarts, oldCalls>>
    <3>1. ASSUME NEW k \in Callers, Caller(k) PROVE UNCHANGED <<restarts, oldCalls>>
      BY <3>1 DEF Caller, CallSelect, CallEnrol, CallSend, CallReceive, CallTimeout, CallForget,
         CallReturn, hist
    <3>2. ASSUME NEW c \in Conns, Reader(c) PROVE UNCHANGED <<restarts, oldCalls>>
      BY <3>2 DEF Reader, ReaderTake, ReaderFail, ReaderLeave, ReaderClose, WorkerTake, Deliver, hist
    <3>3. ASSUME NEW c \in Conns, Writer(c) PROVE UNCHANGED <<restarts, oldCalls>>
      BY <3>3 DEF Writer, WriterSend, WriterEnd, hist
    <3>4. CASE Hub
      BY <3>4 DEF Hub, HubRegister, HubUnregister, Broadcast, HubReceive, hist
    <3>5. CASE PageStep
      BY <3>5 DEF PageStep, Dial, PageState, PagePing, PageDrop, PageAnswer, hist
    <3>6. CASE UNCHANGED vars
      BY <3>6 DEF vars, hist
    <3> QED BY <1>3, <3>1, <3>2, <3>3, <3>4, <3>5, <3>6 DEF Next
  <2>2. \A m \in Everything' : m.id \in Ids /\ m.no - m.id \in B
    <3>1. CASE Everything' \subseteq Everything
      BY <1>1, <3>1 DEF BasedOn
    <3>2. ASSUME NEW k \in Callers, CallSend(k), Everything' \subseteq Everything \cup {RequestOf(k)}
          PROVE  \A m \in Everything' : m.id \in Ids /\ m.no - m.id \in B
      <4>1. callId[k] \in Ids /\ callNo[k] = callId[k] + oldCalls
        BY <3>2 DEF CallSend, Inv, CallInv
      <4>2. RequestOf(k).id \in Ids /\ RequestOf(k).no - RequestOf(k).id = oldCalls
        BY <1>0, <4>1, ApiHubAssumption DEF RequestOf, Ids
      <4> QED BY <1>1, <3>2, <4>2 DEF BasedOn
    <3> QED BY <3>1, <3>2, StepCopies
  <2>3. BasedOn(B)'
    BY <1>1, <2>1, <2>2 DEF BasedOn
  <2> QED BY <2>3 DEF BaseInv
<1> QED BY <1>2, <1>3

\* A channel is asked to take at most one answer of each process.
LEMMA Room ==
  ASSUME Inv, CopyInv, BaseInv, NEW c \in Conns, NEW s \in Slots, task[c][s] # NoMessage
  PROVE  /\ task[c][s].id \in Ids
         /\ Len(chan[task[c][s].id].buf) <= restarts
<1> DEFINE m == task[c][s]
           i == m.id
           buf == chan[i].buf
           x == <<"task", <<c, s>>>>
           y == <<"chan", i>>
<1>0. TypeOK
  BY InvTypes
<1>1. PICK B \in SUBSET Nat : BasedOn(B)
  BY DEF BaseInv
<1>2. m \in Tagged /\ m.no # 0
  <2>1. m \in Tagged
    BY DEF Inv, InboxInv
  <2>2. m.no = 0 => m = NoMessage
    BY <2>1 DEF Tagged, Message, NoMessage, Notice
  <2> QED BY <2>1, <2>2
<1>3. x \in Places /\ Stock[x] = Real({m}) /\ m \in Stock[x]
  BY <1>2 DEF Places, Stock, Real, Tagged
<1>4. m \in Everything
  BY <1>2, <1>3 DEF Everything, Tagged
<1>5. i \in Ids /\ m.no - i \in B
  BY <1>1, <1>4 DEF BasedOn
<1>6. y \in Places /\ Stock[y] = Items(buf) /\ x # y
  BY <1>5 DEF Places, Stock
<1>7. buf \in Seq(TaggedAs(i)) /\ Distinct(buf)
  BY <1>5 DEF Inv, TableInv, CopyInv, Singles
<1>8. \A j \in DOMAIN buf : /\ buf[j] \in Message /\ buf[j].id = i /\ buf[j].no # 0
                            /\ buf[j] \in Items(buf)
  <2> SUFFICES ASSUME NEW j \in DOMAIN buf
               PROVE  /\ buf[j] \in Message /\ buf[j].id = i /\ buf[j].no # 0
                      /\ buf[j] \in Items(buf)
    OBVIOUS
  <2>1. buf[j] \in TaggedAs(i)
    BY <1>7
  <2>2. buf[j] \in Message /\ buf[j].id = i /\ buf[j].no # 0
    BY <1>5, <2>1, ApiHubAssumption DEF TaggedAs, Tagged, Ids
  <2> QED BY <2>2 DEF Items
<1>9. \A j \in DOMAIN buf : buf[j].no - i \in B /\ buf[j] # m
  BY <1>1, <1>3, <1>6, <1>8 DEF BasedOn, Everything, CopyInv, Apart
<1>10. \A n \in Message : n.no \in Int /\ n.id \in Int /\ n = [id |-> n.id, no |-> n.no]
  BY ApiHubAssumption DEF Message
<1>11. \A j \in DOMAIN buf : buf[j].no - i # m.no - i
  <2> SUFFICES ASSUME NEW j \in DOMAIN buf, buf[j].no - i = m.no - i PROVE FALSE
    OBVIOUS
  <2>1. m \in Message /\ buf[j] \in Message /\ buf[j].id = i
    BY <1>2, <1>8 DEF Tagged
  <2>2. buf[j].no = m.no
    BY <1>10, <2>1
  <2> QED BY <1>9, <1>10, <2>1, <2>2
<1>12. \A j, k \in DOMAIN buf : buf[j].no - i = buf[k].no - i => j = k
  <2> SUFFICES ASSUME NEW j \in DOMAIN buf, NEW k \in DOMAIN buf, buf[j].no - i = buf[k].no - i
               PROVE  j = k
    OBVIOUS
  <2>1. /\ buf[j] \in Message /\ buf[k] \in Message /\ buf[j].id = i /\ buf[k].id = i
        /\ buf[j].no # 0 /\ i \in Int
    BY <1>2, <1>8, <1>10 DEF Tagged
  <2>2. buf[j].no = buf[k].no
    BY <1>10, <2>1
  <2>3. buf[j] = buf[k]
    BY <1>10, <2>1, <2>2
  <2> QED BY <1>7, <2>1, <2>3 DEF Distinct
<1> DEFINE T == B \ {m.no - i}
           n == Len(buf)
           f == [j \in 1..n |-> buf[j].no - i]
<1>13. n \in Nat /\ DOMAIN buf = 1..n
  BY <1>7
<1>14. f \in Injection(1..n, T)
  BY <1>9, <1>11, <1>12, <1>13 DEF Injection, IsInjective
<1>15. IsFiniteSet(T) /\ Cardinality(T) = Cardinality(B) - 1 /\ Cardinality(B) \in Nat
  <2>1. IsFiniteSet(B) /\ m.no - i \in B
    BY <1>1, <1>5 DEF BasedOn
  <2> QED BY <2>1, FS_RemoveElement, FS_CardinalityType
<1> HIDE DEF T, f
<1>16. Cardinality(1..n) <= Cardinality(T)
  BY <1>14, <1>15, FS_Injection
<1>17. Cardinality(1..n) = n
  BY <1>13, FS_Interval
<1>18. restarts \in Nat /\ Cardinality(B) <= restarts + 1
  BY <1>1 DEF BasedOn, Inv, HistInv
<1>19. n <= restarts
  BY <1>13, <1>15, <1>16, <1>17, <1>18
<1> QED BY <1>5, <1>19

\* In every behaviour h.requests and the open channels are those of the calls in
\* progress, whichever path out of CallAPI they take; and if a response channel has more
\* room than the program restarts, no worker ever waits for a place in it: one
\* answer comes from each process whose requests a page still works on.
THEOREM NothingIsLeaked ==
  ASSUME MaxRestarts < ChanCap
  PROVE  Spec => []NothingLeaks
<1> DEFINE I == Inv /\ LoadInv /\ TableOfCalls /\ CopyInv /\ Fresh /\ BaseInv
<1>1. Init => I
  BY InitInv, InitLoad, InitTable, InitCopies
<1>2. I /\ [Next]_vars => I'
  BY StepInv, StepLoad, StepTable, StepCopies, StepFresh, StepBase
<1>3. I => NothingLeaks
  <2> SUFFICES ASSUME I PROVE NothingLeaks
    OBVIOUS
  <2>1. \A k \in Callers : callPc[k] \in Counted => callId[k] \in Ids
    BY DEF Inv, CallInv, Counted
  <2>2. requests = {callId[k] : k \in {j \in Callers : callPc[j] \in Entered}}
    BY <2>1 DEF TableOfCalls, EntryOf, Inv, TableInv, Entered, Counted
  <2>3. {i \in Ids : chan[i].open} = {callId[k] : k \in {j \in Callers : callPc[j] \in Counted}}
    BY <2>1 DEF TableOfCalls, ChannelOf
  <2>4. \A c \in Conns, s \in Slots : task[c][s] # NoMessage => Len(chan[task[c][s].id].buf) < ChanCap
    <3> SUFFICES ASSUME NEW c \in Conns, NEW s \in Slots, task[c][s] # NoMessage
                 PROVE  Len(chan[task[c][s].id].buf) < ChanCap
      OBVIOUS
    <3>1. task[c][s].id \in Ids /\ Len(chan[task[c][s].id].buf) <= restarts
      BY Room
    <3>2. restarts \in 0..MaxRestarts /\ MaxRestarts \in Nat /\ ChanCap \in Nat
      BY ApiHubAssumption DEF Inv, HistInv
    <3>3. Len(chan[task[c][s].id].buf) \in Nat
      BY <3>1 DEF Inv, TableInv, Channel
    <3> QED BY <3>1, <3>2, <3>3
  <2>5. {"enrolled", "waiting", "ended"} \cup {"forgotten"} = Counted
    BY DEF Counted
  <2> QED BY <2>2, <2>3, <2>4, <2>5 DEF NothingLeaks, TableOfCalls, OwnIds, Entered
<1> HIDE DEF I
<1> QED BY <1>1, <1>2, <1>3, PTL DEF Spec
=============================================================================
