-------------------------- MODULE ConnectorProofs ---------------------------
(***************************************************************************)
(* HealthyLinkKept and CommandsAnswered of Connector, for any number of    *)
(* links, failures and commands, alone and with the pusher of SyncPusher   *)
(* beside it; and LossesExplained of SyncPusher, for any records, batch    *)
(* size and pushes at once; and the types of both.                         *)
(*                                                                         *)
(* The argument: connectLoop dials only when the link before is closed, so *)
(* no link but the current one is ever up.  A heartbeat is under way only  *)
(* while connectLoop serves or pauses, when the current link cannot be     *)
(* replaced by a healthy one.  And a command whose own link is still up    *)
(* answers on that link, where the write cannot fail.                      *)
(*                                                                         *)
(* For the pusher: a mark only grows, so that what a push did not ask for  *)
(* is behind the mark already; what it asked for is in its batch, or the   *)
(* batch is full and ends before it; what was stored later is excused.     *)
(***************************************************************************)
EXTENDS SyncPusher, FiniteSetTheorems, WellFoundedInduction, TLAPS

Loops == {"connecting", "backing off", "opened", "serving", "pausing", "returned", "panicked"}
States == {"unused", "up", "silent", "closed"}
Under == {"beginning", "writing", "closing"}

\* Links before the current one are closed, links after it are unused, and the
\* current one is closed unless connectLoop serves it.
LinkInv ==
  /\ conn \in 0..MaxLinks /\ cancelled \in BOOLEAN /\ loop \in Loops
  /\ socket \in [Links -> States]
  /\ \A n \in Links : /\ n < conn => socket[n] = "closed"
                      /\ n > conn => socket[n] = "unused"
                      /\ n = conn => socket[n] # "unused"
  /\ conn # 0 /\ (loop \notin {"opened", "serving"} \/ cancelled) => socket[conn] = "closed"
  /\ loop \in {"opened", "serving", "pausing"} => conn # 0

\* A heartbeat is under way only while the current link lasts, or the loop pauses.
BeatInv ==
  /\ beat \in [Links -> {"none", "waiting", "ended"} \cup Under]
  /\ \A n \in Links : beat[n] \in Under => loop \in {"serving", "pausing"}
  /\ HealthyLinkKept

\* A command answers once, and came over a link that was dialled.
CommandInv ==
  /\ command \in [Commands -> {"unsent", "arrived", "calling", "answering", "done"}]
  /\ source \in [Commands -> 0..MaxLinks] /\ answered \in [Commands -> 0..1]
  /\ \A m \in Commands : command[m] # "done" => answered[m] = 0
  /\ \A m \in Commands : command[m] # "unsent" => source[m] \in 1..conn
  /\ CommandsAnswered

Inv == LinkInv /\ BeatInv /\ CommandInv

LEMMA InitInv == ConnectorInit => Inv
<1> USE ConnectorAssumption DEF ConnectorInit
<1>1. ConnectorInit => LinkInv
  <2> SUFFICES ASSUME ConnectorInit PROVE LinkInv
    OBVIOUS
  <2>1. MaxLinks \in Nat /\ conn = 0 /\ loop = "connecting" /\ cancelled = FALSE
    BY DEF ConnectorAssumption
  <2>2. socket = [n \in Links |-> "unused"]
    OBVIOUS
  <2>3. conn \in 0..MaxLinks /\ socket \in [Links -> States]
    BY <2>1, <2>2 DEF States
  <2>4. \A n \in Links : n > 0 /\ socket[n] = "unused"
    BY <2>2 DEF Links
  <2>5. cancelled \in BOOLEAN /\ loop \in Loops /\ loop \notin {"opened", "serving", "pausing"}
    BY <2>1 DEF Loops
  <2> HIDE DEF ConnectorInit
  <2> QED BY <2>1, <2>3, <2>4, <2>5 DEF LinkInv, Links
<1>2. ConnectorInit => BeatInv
  BY DEF BeatInv, HealthyLinkKept, Under
<1>3. ConnectorInit => CommandInv
  BY DEF CommandInv, CommandsAnswered
<1> QED BY <1>1, <1>2, <1>3 DEF Inv

\* What every step on the links leaves true of the commands and the heartbeats:
\* a link that is up stays so or is lost, and is the current one.
LEMMA LosesLink ==
  ASSUME LinkInv, socket' = socket \/ \E n \in Links : n <= conn /\ socket[n] # "unused" /\ \E s \in {"silent", "closed"} :
                                    socket' = [socket EXCEPT ![n] = s],
         conn' = conn
  PROVE  /\ socket' \in [Links -> States]
         /\ \A n \in Links : socket'[n] = "up" => socket[n] = "up"
         /\ UNCHANGED commandVars /\ CommandInv => CommandInv'
         /\ UNCHANGED <<beat, loop>> /\ BeatInv => BeatInv'
<1>1. socket' \in [Links -> States] /\ \A n \in Links : socket'[n] = "up" => socket[n] = "up"
  BY DEF LinkInv, States
<1>2. conn # 0 => conn \in Links
  BY DEF LinkInv, Links
<1>3. ASSUME UNCHANGED commandVars, CommandInv
      PROVE  CommandInv'
  <2>1. \A m \in Commands : command[m] # "unsent" => source[m] \in Links
    BY <1>3 DEF CommandInv, LinkInv, Links
  <2> QED BY <1>1, <1>3, <2>1 DEF commandVars, CommandInv, CommandsAnswered
<1>4. ASSUME UNCHANGED <<beat, loop>>, BeatInv
      PROVE  BeatInv'
  BY <1>1, <1>2, <1>4 DEF BeatInv, HealthyLinkKept
<1> QED BY <1>1, <1>3, <1>4

\* A write or a close under c.mu changes no link but the current one.
LEMMA WriteLoses ==
  ASSUME LinkInv, SendAndForget \/ WriteFails
  PROVE  socket' = socket \/ (conn \in Links /\ socket[conn] # "unused" /\ socket' = [socket EXCEPT ![conn] = "closed"])
BY DEF LinkInv, SendAndForget, WriteFails, Closing, Open, Links

\* connectLoop.
LEMMA LoopKeepsInv ==
  ASSUME Inv, LoopStep
  PROVE  Inv'
<1> USE ConnectorAssumption DEF Links
<1>1. CASE DialFails \/ BackoffEnds
  <2>1. /\ UNCHANGED <<conn, cancelled, socket, loopVars, commandVars>>
        /\ loop \in {"connecting", "backing off"}
        /\ loop' \in {"connecting", "backing off", "returned", "panicked"}
    BY <1>1 DEF DialFails, BackoffEnds
  <2>2. LinkInv'
    BY <2>1 DEF Inv, LinkInv, Loops, States
  <2>3. BeatInv'
    BY <2>1 DEF Inv, BeatInv, HealthyLinkKept, loopVars
  <2>4. CommandInv'
    BY <2>1, LosesLink DEF Inv
  <2> QED BY <2>2, <2>3, <2>4 DEF Inv
<1>2. CASE DialSucceeds
  <2>1. /\ loop = "connecting" /\ loop' = "opened" /\ ~cancelled /\ conn < MaxLinks /\ conn' = conn + 1
        /\ socket' = [socket EXCEPT ![conn + 1] = "up"]
        /\ UNCHANGED <<cancelled, loopVars, commandVars>>
    BY <1>2 DEF DialSucceeds
  <2>2. LinkInv'
    BY <2>1 DEF Inv, LinkInv, Loops, States
  <2>3. BeatInv'
    BY <2>1 DEF Inv, BeatInv, HealthyLinkKept, loopVars, Under
  <2>4. \A m \in Commands : command[m] # "unsent" => source[m] \in Links /\ socket'[source[m]] = socket[source[m]]
    BY <2>1 DEF Inv, LinkInv, CommandInv
  <2>5. CommandInv'
    BY <2>1, <2>4 DEF Inv, LinkInv, CommandInv, CommandsAnswered, commandVars
  <2> QED BY <2>2, <2>3, <2>5 DEF Inv
<1>3. CASE Serve
  <2>1. /\ loop = "opened" /\ loop' = "serving" /\ conn # 0 /\ beat' = [beat EXCEPT ![conn] = "beginning"]
        /\ UNCHANGED <<conn, cancelled, commandVars>>
    BY <1>3 DEF Serve, Inv, LinkInv
  <2>2. socket' = socket \/ (conn \in Links /\ socket[conn] # "unused" /\ socket' = [socket EXCEPT ![conn] = "closed"])
    BY <1>3, WriteLoses DEF Serve, Inv
  <2>3. CommandInv'
    BY <2>1, <2>2, LosesLink DEF Inv, LinkInv
  <2>4. LinkInv'
    BY <2>1, <2>2 DEF Inv, LinkInv, Loops, States
  <2>5. BeatInv'
    BY <2>1 DEF Inv, LinkInv, BeatInv, HealthyLinkKept, Under
  <2> QED BY <2>3, <2>4, <2>5 DEF Inv
<1>4. CASE ReadFails \/ ReadExpires
  <2>1. /\ loop = "serving" /\ loop' = "pausing" /\ conn # 0 /\ conn \in Links /\ socket[conn] # "unused"
        /\ UNCHANGED <<conn, cancelled, loopVars, commandVars>>
    BY <1>4 DEF ReadFails, ReadExpires, Inv, LinkInv
  <2>2. \/ socket' = socket /\ socket[conn] = "closed"
        \/ socket' = [socket EXCEPT ![conn] = "closed"]
    BY <1>4 DEF ReadFails, ReadExpires, Closing
  <2>3. CommandInv'
    BY <2>1, <2>2, LosesLink DEF Inv, LinkInv
  <2>4. LinkInv'
    BY <2>1, <2>2 DEF Inv, LinkInv, Loops, States
  <2>5. BeatInv'
    BY <2>1, <2>2 DEF Inv, LinkInv, BeatInv, HealthyLinkKept, Under, loopVars
  <2> QED BY <2>3, <2>4, <2>5 DEF Inv
<1>5. CASE PauseEnds
  <2>1. /\ loop = "pausing" /\ loop' = "connecting" /\ \A n \in Links : beat[n] \notin Under
        /\ UNCHANGED <<conn, cancelled, socket, loopVars, commandVars>>
    BY <1>5 DEF PauseEnds, Under
  <2>2. LinkInv'
    BY <2>1 DEF Inv, LinkInv, Loops
  <2>3. BeatInv'
    BY <2>1 DEF Inv, BeatInv, HealthyLinkKept, Under, loopVars
  <2>4. CommandInv'
    BY <2>1, LosesLink DEF Inv
  <2> QED BY <2>2, <2>3, <2>4 DEF Inv
<1> QED BY <1>1, <1>2, <1>3, <1>4, <1>5 DEF LoopStep

\* heartbeatLoop, metricsLoop, the network and Stop.
LEMMA BeatKeepsInv ==
  ASSUME Inv, \/ ConnectorStop
              \/ \E n \in Links : BeatStep(n) \/ MeterPush(n) \/ MeterEnds(n) \/ LinkLost(n)
  PROVE  Inv'
<1> USE ConnectorAssumption DEF Links
<1>1. CASE ConnectorStop
  <2>1. /\ cancelled' = TRUE /\ UNCHANGED <<loop, conn, loopVars, commandVars>>
        /\ conn # 0 => socket' = [socket EXCEPT ![conn] = "closed"]
        /\ conn = 0 => socket' = socket
    BY <1>1 DEF ConnectorStop, Closing
  <2>2. CommandInv' /\ BeatInv'
    BY <2>1, LosesLink DEF Inv, LinkInv, loopVars
  <2>3. LinkInv'
    BY <2>1 DEF Inv, LinkInv, States
  <2> QED BY <2>2, <2>3 DEF Inv
<1>2. ASSUME NEW n \in Links, LinkLost(n)
      PROVE  Inv'
  <2>1. /\ socket[n] = "up" /\ UNCHANGED <<loop, conn, cancelled, loopVars, commandVars>>
        /\ \E state \in {"silent", "closed"} : socket' = [socket EXCEPT ![n] = state]
    BY <1>2 DEF LinkLost
  <2>2. n = conn
    BY <2>1 DEF Inv, LinkInv
  <2>3. n <= conn
    BY <2>2 DEF Inv, LinkInv
  <2>4. CommandInv' /\ BeatInv'
    BY <2>1, <2>3, LosesLink DEF Inv, loopVars
  <2>5. LinkInv'
    BY <2>1, <2>2 DEF Inv, LinkInv, States
  <2> QED BY <2>4, <2>5 DEF Inv
<1>3. ASSUME NEW n \in Links, MeterPush(n) \/ MeterEnds(n)
      PROVE  Inv'
  <2>1. UNCHANGED <<loop, conn, cancelled, beat, commandVars>> /\ (WriteFails \/ socket' = socket)
    BY <1>3 DEF MeterPush, MeterEnds, loopVars, linkVars
  <2>2. socket' = socket \/ (conn \in Links /\ socket[conn] # "unused" /\ socket' = [socket EXCEPT ![conn] = "closed"])
    BY <2>1, WriteLoses DEF Inv
  <2>3. conn \in Links => conn <= conn
    OBVIOUS
  <2>4. CommandInv' /\ BeatInv'
    BY <2>1, <2>2, <2>3, LosesLink DEF Inv
  <2>5. LinkInv'
    BY <2>1, <2>2 DEF Inv, LinkInv, States
  <2> QED BY <2>4, <2>5 DEF Inv
<1>4. ASSUME NEW n \in Links, BeatStep(n)
      PROVE  Inv'
  <2>1. UNCHANGED <<loop, conn, cancelled, commandVars>>
    BY <1>4 DEF BeatStep, BeatFirst, BeatTick, BeatWrite, BeatClose, BeatEnds, linkVars
  <2>2. beat[n] \in Under => loop \in {"serving", "pausing"} /\ conn # 0
    BY DEF Inv, BeatInv, LinkInv
  <2>3. socket' = socket \/ (conn \in Links /\ socket[conn] # "unused" /\ socket' = [socket EXCEPT ![conn] = "closed"])
    <3>1. CASE beat[n] = "closing" /\ Closing(conn)
      <4>1. conn \in Links /\ socket[conn] # "unused"
        BY <2>2, <3>1 DEF Inv, LinkInv, Under
      <4> QED BY <3>1, <4>1 DEF Closing
    <3>2. SendAndForget \/ WriteFails \/ socket' = socket \/ (beat[n] = "closing" /\ Closing(conn))
      BY <1>4 DEF BeatStep, BeatFirst, BeatTick, BeatWrite, BeatClose, BeatEnds, linkVars
    <3> QED BY <3>1, <3>2, WriteLoses DEF Inv
  <2>4. CommandInv'
    BY <2>1, <2>3, LosesLink DEF Inv, LinkInv
  <2>5. LinkInv'
    BY <2>1, <2>3 DEF Inv, LinkInv, States
  <2>6. \A k \in Links : socket'[k] = "up" => socket[k] = "up"
    BY <2>3 DEF Inv, LinkInv
  <2>7. CASE BeatWrite(n)
    <3>1. beat[n] = "writing" /\ loop \in {"serving", "pausing"} /\ conn # 0 /\ conn \in Links
      BY <2>2, <2>7 DEF BeatWrite, Under, Inv, LinkInv
    <3>2. \/ beat' = [beat EXCEPT ![n] = "waiting"]
          \/ beat' = [beat EXCEPT ![n] = "closing"] /\ WriteFails
      BY <2>7 DEF BeatWrite
    <3>3. WriteFails => socket'[conn] # "up"
      BY <3>1 DEF WriteFails, Open, Closing, Inv, LinkInv
    <3> QED BY <2>1, <2>4, <2>5, <2>6, <3>1, <3>2, <3>3 DEF Inv, BeatInv, HealthyLinkKept, Under
  <2>8. CASE BeatTick(n)
    <3>1. /\ beat' = [beat EXCEPT ![n] = "writing"] /\ n = conn
          /\ loop \in {"serving", "pausing"}
      BY <2>8 DEF BeatTick, ContextLive, LateTick
    <3> QED BY <2>1, <2>2, <2>4, <2>5, <2>6, <3>1 DEF Inv, LinkInv, BeatInv, HealthyLinkKept, Under
  <2>9. CASE BeatFirst(n) \/ BeatClose(n) \/ BeatEnds(n)
    <3>1. \E s \in {"waiting", "ended"} : beat' = [beat EXCEPT ![n] = s]
      BY <2>9 DEF BeatFirst, BeatClose, BeatEnds
    <3> QED BY <2>1, <2>4, <2>5, <2>6, <3>1 DEF Inv, LinkInv, BeatInv, HealthyLinkKept, Under
  <2> QED BY <1>4, <2>7, <2>8, <2>9 DEF BeatStep
<1> QED BY <1>1, <1>2, <1>3, <1>4

\* A command.
LEMMA CommandKeepsInv ==
  ASSUME Inv, NEW m \in Commands, CommandStep(m)
  PROVE  Inv'
<1> USE ConnectorAssumption DEF Links
<1>1. CASE CommandArrives(m)
  <2>1. /\ UNCHANGED <<linkVars, loopVars, answered>> /\ conn # 0 /\ command[m] = "unsent"
        /\ command' = [command EXCEPT ![m] = "arrived"] /\ source' = [source EXCEPT ![m] = conn]
    BY <1>1 DEF CommandArrives, Inv, LinkInv
  <2>2. LinkInv' /\ BeatInv'
    BY <2>1 DEF Inv, LinkInv, BeatInv, HealthyLinkKept, linkVars, loopVars
  <2>3. CommandInv'
    BY <2>1 DEF Inv, LinkInv, CommandInv, CommandsAnswered, linkVars
  <2> QED BY <2>2, <2>3 DEF Inv
<1>2. CASE CommandRefused(m) \/ CommandCalls(m) \/ CommandAnswer(m) \/ CommandReturns(m)
  <2>1. /\ UNCHANGED <<linkVars, loopVars, source, answered>>
        /\ \/ command' = command
           \/ /\ command[m] \in {"arrived", "calling"}
              /\ \E at \in {"calling", "answering"} : command' = [command EXCEPT ![m] = at]
    BY <1>2 DEF CommandRefused, CommandCalls, CommandAnswer, CommandReturns
  <2>2. LinkInv' /\ BeatInv'
    BY <2>1 DEF Inv, LinkInv, BeatInv, HealthyLinkKept, linkVars, loopVars
  <2>3. CommandInv'
    BY <2>1 DEF Inv, LinkInv, CommandInv, CommandsAnswered, linkVars
  <2> QED BY <2>2, <2>3 DEF Inv
<1>3. CASE CommandAnswers(m)
  <2>1. /\ command[m] = "answering" /\ command' = [command EXCEPT ![m] = "done"]
        /\ answered' = [answered EXCEPT ![m] = IF Written /\ socket[conn] = "up" THEN @ + 1 ELSE @]
        /\ UNCHANGED <<loop, conn, cancelled, loopVars, source>>
    BY <1>3 DEF CommandAnswers
  <2>2. socket' = socket \/ (conn \in Links /\ socket[conn] # "unused" /\ socket' = [socket EXCEPT ![conn] = "closed"])
    BY <1>3, WriteLoses DEF CommandAnswers, Inv
  <2>3. LinkInv'
    BY <2>1, <2>2 DEF Inv, LinkInv, States
  <2>4. \A k \in Links : socket'[k] = "up" => socket[k] = "up"
    BY <2>2 DEF Inv, LinkInv
  <2>5. BeatInv'
    BY <2>1, <2>2, LosesLink DEF Inv, LinkInv, loopVars
  <2>6. source[m] \in Links /\ answered[m] = 0
    BY <2>1 DEF Inv, LinkInv, CommandInv
  <2>7. socket[source[m]] = "up" => source[m] = conn
    BY <2>6 DEF Inv, LinkInv
  <2>8. socket[source[m]] = "up" => Written
    BY <2>6, <2>7 DEF Inv, LinkInv, Written, Open
  <2>9. answered'[m] \in 0..1 /\ (socket[source[m]] = "up" => answered'[m] = 1)
    BY <2>1, <2>6, <2>7, <2>8 DEF Inv, CommandInv
  <2>10. \A k \in Commands : k # m => UNCHANGED <<command[k], answered[k], source[k]>>
    BY <2>1 DEF Inv, CommandInv
  <2>11. \A k \in Commands : command[k] # "unsent" => source[k] \in Links
    BY DEF Inv, LinkInv, CommandInv
  <2>12. CommandInv'
    BY <2>1, <2>4, <2>6, <2>9, <2>10, <2>11 DEF Inv, CommandInv, CommandsAnswered
  <2> QED BY <2>3, <2>5, <2>12 DEF Inv
<1> QED BY <1>1, <1>2, <1>3 DEF CommandStep

\* The invariant is inductive.
LEMMA StepInv == Inv /\ [ConnectorNext]_connectorVars => Inv'
<1> SUFFICES ASSUME Inv, [ConnectorNext]_connectorVars PROVE Inv'
  OBVIOUS
<1>1. CASE UNCHANGED connectorVars
  BY <1>1 DEF connectorVars, linkVars, loopVars, commandVars, Inv, LinkInv, BeatInv, CommandInv,
              HealthyLinkKept, CommandsAnswered
<1>2. CASE ConnectorNext
  BY <1>2, LoopKeepsInv, BeatKeepsInv, CommandKeepsInv DEF ConnectorNext, ConnectorStep
<1> QED BY <1>1, <1>2

\* In every behaviour a heartbeat loop closes (connector.go:388) only a link that
\* is dead, also when it outlives its own connection.
THEOREM HealthyLinksAreKept == ConnectorSpec => []HealthyLinkKept
<1>1. Inv => HealthyLinkKept
  BY DEF Inv, BeatInv
<1> QED BY <1>1, InitInv, StepInv, PTL DEF ConnectorSpec

\* In every behaviour a command is answered at most once, and as long as its link
\* lasts its answer reaches the cloud.
THEOREM CommandsAreAnswered == ConnectorSpec => []CommandsAnswered
<1>1. Inv => CommandsAnswered
  BY DEF Inv, CommandInv
<1> QED BY <1>1, InitInv, StepInv, PTL DEF ConnectorSpec

-----------------------------------------------------------------------------
(* The pusher.                                                             *)

\* A set of natural numbers that is not empty has a least element.
LEMMA Least ==
  ASSUME NEW S, S \subseteq Nat, S # {}
  PROVE  \E n \in S : \A m \in S : n <= m
<1> DEFINE R == {ss \in Nat \X Nat : ss[1] < ss[2]}
<1>1. IsWellFoundedOn(R, Nat)
  BY NatLessThanWellFounded DEF OpToRel
<1>2. ASSUME NEW m \in Nat, NEW n \in Nat, m < n
      PROVE  <<m, n>> \in R
  BY <1>2
<1> HIDE DEF R
<1>3. PICK n \in S : \A m \in S : ~(<<m, n>> \in R)
  BY <1>1, WFMin
<1>4. ASSUME NEW m \in S
      PROVE  n <= m
  <2>1. m \in Nat /\ n \in Nat /\ ~(<<m, n>> \in R)
    BY <1>3
  <2>2. ~(m < n)
    BY <1>2, <2>1, Zenon
  <2> QED BY <2>1, <2>2
<1> QED BY <1>4

\* If it is bounded, it has a greatest.
LEMMA Greatest ==
  ASSUME NEW bound \in Nat, NEW S, S \subseteq 0..bound, S # {}
  PROVE  \E n \in S : \A m \in S : n >= m
<1> DEFINE T == {bound - m : m \in S}
<1>1. T \subseteq Nat /\ T # {}
  <2>1. \A m \in S : bound - m \in Nat
    OBVIOUS
  <2> QED BY <2>1
<1>2. PICK t \in T : \A u \in T : t <= u
  BY <1>1, Least
<1>3. PICK n \in S : t = bound - n
  OBVIOUS
<1>4. \A m \in S : bound - n <= bound - m
  BY <1>2, <1>3
<1> QED BY <1>4

LEMMA MaxIsGreatest ==
  ASSUME NEW bound \in Nat, NEW S, S \subseteq 0..bound, S # {}
  PROVE  Max(S) \in S /\ \A m \in S : Max(S) >= m
BY Greatest DEF Max

\* A record the query leaves out comes after all it returns, which are then as
\* many as it may return.
LEMMA LeftOutOfFull ==
  ASSUME NEW bound \in Nat, NEW S, S \subseteq 0..bound, NEW s \in S, s \notin FirstBatch(S)
  PROVE  Cardinality(FirstBatch(S)) = BatchSize /\ \A t \in FirstBatch(S) : t < s
<1> DEFINE Below(x) == {t \in S : t < x}
           F == FirstBatch(S)
<1>1. IsFiniteSet(S) /\ BatchSize \in Nat \ {0} /\ \A x \in S : x \in Nat
  <2>1. IsFiniteSet(0..bound)
    BY FS_Interval
  <2>2. IsFiniteSet(S)
    BY <2>1, FS_Subset
  <2> QED BY <2>2, SyncPusherAssumption
<1>2. F = {x \in S : Cardinality(Below(x)) < BatchSize}
  BY DEF FirstBatch
<1>3. ASSUME NEW A, A \subseteq S
      PROVE  IsFiniteSet(A) /\ Cardinality(A) \in Nat
  BY <1>1, <1>3, FS_Subset, FS_CardinalityType
<1>4. ASSUME NEW x \in S, NEW y \in S, x <= y
      PROVE  Cardinality(Below(x)) <= Cardinality(Below(y))
  <2>1. Below(x) \subseteq Below(y) /\ Below(y) \subseteq S
    <3>1. \A t \in S : t < x => t < y
      BY <1>1, <1>4
    <3> QED BY <3>1
  <2>2. IsFiniteSet(Below(y))
    BY <1>3, <2>1
  <2> HIDE DEF Below
  <2> QED BY <2>1, <2>2, FS_Subset
<1>5. PICK m \in S \ F : \A x \in S \ F : m <= x
  <2>1. S \ F \subseteq Nat /\ S \ F # {}
    <3> HIDE DEF F
    <3> QED BY <1>1 DEF F
  <2> HIDE DEF F
  <2> QED BY <2>1, Least
<1>6. ~(Cardinality(Below(m)) < BatchSize)
  BY <1>2, <1>5
<1>7. Below(m) \subseteq S /\ \A x \in S : Below(x) \subseteq S
  OBVIOUS
<1>8. Cardinality(Below(m)) >= BatchSize
  BY <1>1, <1>3, <1>6, <1>7
<1>9. ASSUME NEW t \in F
      PROVE  t < m
  <2>1. t \in S /\ t \in Nat /\ m \in Nat /\ Cardinality(Below(t)) < BatchSize
    <3>1. t \in S /\ Cardinality(Below(t)) < BatchSize /\ m \in S
      BY <1>2, <1>5, <1>9
    <3> QED BY <1>1, <3>1
  <2>2. Cardinality(Below(m)) \in Nat /\ Cardinality(Below(t)) \in Nat
    BY <1>3, <1>7, <2>1
  <2>3. m <= t => Cardinality(Below(m)) <= Cardinality(Below(t))
    BY <1>4, <2>1
  <2> HIDE DEF Below, F
  <2> QED BY <1>1, <1>8, <2>1, <2>2, <2>3
<1>10. F = Below(m)
  <2>1. F \subseteq S
    BY <1>2
  <2>2. \A t \in F : t \in Below(m)
    BY <1>9, <2>1
  <2>3. ASSUME NEW t \in Below(m)
        PROVE  t \in F
    <3>1. t \in S /\ t \in Nat /\ m \in Nat /\ t < m
      BY <2>3
    <3> HIDE DEF F
    <3> QED BY <1>5, <3>1
  <2> HIDE DEF F, Below
  <2> QED BY <2>2, <2>3
<1>11. Cardinality(F) <= BatchSize
  <2>1. F \subseteq 0..bound /\ F \subseteq S
    BY <1>2
  <2>2. IsFiniteSet(F) /\ Cardinality(F) \in Nat /\ Cardinality(F) >= BatchSize
    BY <1>3, <1>8, <1>10, <2>1
  <2>3. F # {}
    <3> HIDE DEF F
    <3> QED BY <1>1, <2>2, FS_EmptySet
  <2>4. PICK g \in F : \A t \in F : g >= t
    <3> HIDE DEF F
    <3> QED BY <2>1, <2>3, Greatest
  <2>5. F \ {g} \subseteq Below(g)
    <3>1. \A t \in F : t \in S /\ t \in Nat /\ g \in Nat
      BY <2>1
    <3>2. \A t \in F : t # g => t < g
      BY <2>4, <3>1
    <3> QED BY <3>1, <3>2
  <2>6. Cardinality(Below(g)) < BatchSize /\ g \in S
    BY <1>2
  <2>7. IsFiniteSet(Below(g)) /\ Cardinality(Below(g)) \in Nat
    BY <1>3, <1>7, <2>6
  <2> HIDE DEF F, Below
  <2>8. Cardinality(F \ {g}) <= Cardinality(Below(g))
    BY <2>5, <2>7, FS_Subset
  <2>9. Cardinality(F \ {g}) = Cardinality(F) - 1
    BY <2>2, FS_RemoveElement
  <2> QED BY <1>1, <2>2, <2>6, <2>7, <2>8, <2>9
<1>12. Cardinality(F) = BatchSize
  <2>1. F \subseteq S
    BY <1>2
  <2>2. Cardinality(F) \in Nat /\ Cardinality(F) >= BatchSize
    BY <1>3, <1>8, <1>10, <2>1
  <2> HIDE DEF F
  <2> QED BY <1>1, <1>11, <2>2
<1>13. ASSUME NEW t \in F
       PROVE  t < s
  <2>1. m \in Nat /\ s \in Nat /\ t \in Nat /\ m <= s
    <3>1. m \in S /\ s \in S \ F /\ t \in S
      BY <1>2, <1>5, <1>13
    <3> HIDE DEF F
    <3> QED BY <1>1, <1>5, <3>1
  <2>2. t < m
    BY <1>9
  <2> HIDE DEF F
  <2> QED BY <2>1, <2>2
<1> HIDE DEF F
<1>14. FirstBatch(S) = F
  BY DEF F
<1> QED BY <1>12, <1>13, <1>14

\* The marks and the stamps are not ahead of the clock.
ClockInv ==
  /\ clock \in 0..MaxStores
  /\ updatedAt \in [Records -> 0..clock]
  /\ mark \in [Kinds -> 0..clock]
  /\ pushKind \in [Pushes -> Kinds]
  /\ push \in [Pushes -> {"idle", "reading", "querying", "sending", "marking"}]
  /\ since \in [Pushes -> 0..clock] /\ asked \in [Pushes -> 0..clock]
  /\ batch \in [Pushes -> SUBSET (0..clock)]

\* A push asked for what came after a mark there was, and what is missing from
\* its batch comes after the batch, which is then full; what it is about to mark
\* is settled.
PushInv(p) ==
  /\ push[p] \in {"querying", "sending", "marking"} => since[p] <= mark[pushKind[p]]
  /\ push[p] \in {"sending", "marking"} =>
       /\ batch[p] # {} /\ batch[p] \subseteq 0..asked[p]
       /\ \A r \in Records : KindOf[r] = pushKind[p] /\ updatedAt[r] \in since[p] + 1..asked[p] =>
            \/ updatedAt[r] \in batch[p]
            \/ Cardinality(batch[p]) = BatchSize /\ \A s \in batch[p] : s < updatedAt[r]
  /\ push[p] = "marking" => batch[p] \subseteq received \cup excused

SyncInv == ClockInv /\ (\A p \in Pushes : PushInv(p)) /\ LossesExplained

LEMMA SyncInitInv == SyncInit => SyncInv
<1> SUFFICES ASSUME SyncInit PROVE SyncInv
  OBVIOUS
<1> USE SyncPusherAssumption
<1>1. ClockInv
  BY DEF SyncInit, ClockInv, Kinds
<1>2. (\A p \in Pushes : PushInv(p)) /\ LossesExplained
  BY DEF SyncInit, PushInv, LossesExplained
<1> QED BY <1>1, <1>2 DEF SyncInv

\* A push that has gone on to another table, or that is over, owes nothing.
LEMMA NewTurn ==
  ASSUME NEW p \in Pushes, push'[p] \in {"idle", "reading"}
  PROVE  PushInv(p)'
BY DEF PushInv

\* A step that touches neither the tables nor what a push holds, while marks and
\* history grow, keeps what is known of the push.
LEMMA OtherPush ==
  ASSUME ClockInv, NEW p \in Pushes, PushInv(p),
         UNCHANGED <<push[p], pushKind[p], since[p], asked[p], batch[p], updatedAt>>,
         mark[pushKind[p]] <= mark'[pushKind[p]], mark'[pushKind[p]] \in Nat,
         received \cup excused \subseteq received' \cup excused'
  PROVE  PushInv(p)'
<1>1. since[p] \in Nat /\ mark[pushKind[p]] \in Nat
  BY DEF ClockInv
<1> QED BY <1>1 DEF PushInv

\* PushTurns empties the place of the push.
LEMMA TurnKeepsClock ==
  ASSUME ClockInv, NEW p \in Pushes, PushTurns(p), UNCHANGED <<clock, updatedAt>>,
         mark' \in [Kinds -> 0..clock]
  PROVE  /\ ClockInv' /\ push'[p] \in {"idle", "reading"}
         /\ \A q \in Pushes : q # p =>
              UNCHANGED <<push[q], pushKind[q], since[q], asked[q], batch[q]>>
<1>1. /\ push' = [push EXCEPT ![p] = IF pushKind[p] = "browse" THEN "reading" ELSE "idle"]
      /\ pushKind' = [pushKind EXCEPT ![p] = IF pushKind[p] = "browse" THEN "download" ELSE "browse"]
      /\ since' = [since EXCEPT ![p] = 0] /\ asked' = [asked EXCEPT ![p] = 0]
      /\ batch' = [batch EXCEPT ![p] = {}]
  BY DEF PushTurns
<1>2. push' \in [Pushes -> {"idle", "reading", "querying", "sending", "marking"}]
      /\ pushKind' \in [Pushes -> Kinds] /\ push'[p] \in {"idle", "reading"}
  BY <1>1 DEF ClockInv, Kinds
<1>3. clock \in Nat
  BY SyncPusherAssumption DEF ClockInv
<1>4. since' \in [Pushes -> 0..clock] /\ asked' \in [Pushes -> 0..clock]
  BY <1>1, <1>3 DEF ClockInv
<1>5. batch' \in [Pushes -> SUBSET (0..clock)]
  BY <1>1 DEF ClockInv
<1>6. \A q \in Pushes : q # p =>
        UNCHANGED <<push[q], pushKind[q], since[q], asked[q], batch[q]>>
  BY <1>1 DEF ClockInv
<1> QED BY <1>2, <1>4, <1>5, <1>6 DEF ClockInv

LEMMA StoreKeepsInv ==
  ASSUME SyncInv, NEW r \in Records, Store(r)
  PROVE  SyncInv'
<1>1. /\ clock < MaxStores /\ clock' = clock + 1 /\ updatedAt' = [updatedAt EXCEPT ![r] = clock + 1]
      /\ UNCHANGED <<mark, push, pushKind, since, asked, batch, received, excused>>
  BY DEF Store, pushVars
<1>2. ClockInv /\ clock \in Nat /\ MaxStores \in Nat
  BY SyncPusherAssumption DEF SyncInv, ClockInv
<1>3. 0..clock \subseteq 0..clock' /\ clock' \in 0..clock' /\ clock' \in 0..MaxStores
  BY <1>1, <1>2 DEF ClockInv
<1>4. ClockInv'
  <2>1. updatedAt' \in [Records -> 0..clock']
    BY <1>1, <1>2, <1>3 DEF ClockInv
  <2>2. mark' \in [Kinds -> 0..clock'] /\ since' \in [Pushes -> 0..clock']
        /\ asked' \in [Pushes -> 0..clock'] /\ batch' \in [Pushes -> SUBSET (0..clock')]
    BY <1>1, <1>2, <1>3 DEF ClockInv
  <2> QED BY <1>1, <1>2, <1>3, <2>1, <2>2 DEF ClockInv
<1>5. \A q \in Records : updatedAt'[q] = updatedAt[q] \/ updatedAt'[q] > clock
  BY <1>1, <1>2 DEF ClockInv
<1>6. ASSUME NEW p \in Pushes
      PROVE  PushInv(p)'
  <2>1. PushInv(p) /\ asked[p] \in 0..clock /\ since[p] \in Nat
    BY <1>2 DEF SyncInv, ClockInv
  <2>2. \A q \in Records : updatedAt'[q] \in since[p] + 1..asked[p] => updatedAt'[q] = updatedAt[q]
    BY <1>2, <1>4, <1>5, <2>1 DEF ClockInv
  <2> QED BY <1>1, <2>1, <2>2 DEF PushInv
<1>7. LossesExplained'
  <2>1. \A q \in Records : mark[KindOf[q]] \in 0..clock
    BY <1>2, SyncPusherAssumption DEF ClockInv, Kinds
  <2>2. \A q \in Records : updatedAt'[q] \in 1..mark[KindOf[q]] => updatedAt'[q] = updatedAt[q]
    BY <1>2, <1>5, <2>1
  <2> QED BY <1>1, <2>2 DEF SyncInv, LossesExplained
<1> QED BY <1>4, <1>6, <1>7 DEF SyncInv

\* Pushes begin; the mark is read.
LEMMA SpawnKeepsInv ==
  ASSUME SyncInv, PusherStart \/ PusherTick \/ PusherEnds
  PROVE  SyncInv'
<1>1. UNCHANGED <<storeVars, mark, since, asked, batch, received, excused>>
  BY DEF PusherStart, PusherTick, PusherEnds, pushVars
<1>2. CASE PusherEnds
  BY <1>1, <1>2 DEF PusherEnds, pushVars, storeVars, SyncInv, ClockInv, PushInv, LossesExplained
<1>3. ASSUME NEW p \in Pushes, push' = [push EXCEPT ![p] = "reading"],
             pushKind' = [pushKind EXCEPT ![p] = "browse"]
      PROVE  SyncInv'
  <2>1. ClockInv'
    BY <1>1, <1>3 DEF SyncInv, ClockInv, storeVars, Kinds
  <2>2. push'[p] = "reading"
    BY <1>3 DEF SyncInv, ClockInv
  <2>3. \A q \in Pushes \ {p} : push'[q] = push[q] /\ pushKind'[q] = pushKind[q]
    BY <1>3 DEF SyncInv, ClockInv
  <2>4. ASSUME NEW q \in Pushes
        PROVE  PushInv(q)'
    BY <1>1, <2>2, <2>3 DEF SyncInv, PushInv, storeVars
  <2>5. LossesExplained'
    BY <1>1 DEF SyncInv, LossesExplained, storeVars
  <2> QED BY <2>1, <2>4, <2>5 DEF SyncInv
<1> QED BY <1>2, <1>3 DEF PusherStart, PusherTick, Spawn

LEMMA ReadKeepsInv ==
  ASSUME SyncInv, NEW p \in Pushes, PushReads(p)
  PROVE  SyncInv'
<1>1. /\ since' = [since EXCEPT ![p] = mark[pushKind[p]]] /\ push' = [push EXCEPT ![p] = "querying"]
      /\ UNCHANGED <<clock, updatedAt, mark, pushKind, asked, batch, received, excused>>
  BY DEF PushReads, storeVars
<1>2. ClockInv /\ pushKind[p] \in Kinds /\ mark[pushKind[p]] \in 0..clock
  BY DEF SyncInv, ClockInv
<1>3. ClockInv'
  BY <1>1, <1>2 DEF ClockInv
<1>4. push'[p] = "querying" /\ since'[p] = mark[pushKind[p]]
      /\ \A q \in Pushes \ {p} : push'[q] = push[q] /\ since'[q] = since[q]
  BY <1>1, <1>2 DEF ClockInv
<1>5. PushInv(p)'
  BY <1>1, <1>2, <1>4 DEF PushInv
<1>6. ASSUME NEW q \in Pushes \ {p}
      PROVE  PushInv(q)'
  BY <1>1, <1>4 DEF SyncInv, PushInv
<1>7. LossesExplained'
  BY <1>1 DEF SyncInv, LossesExplained
<1> QED BY <1>3, <1>5, <1>6, <1>7 DEF SyncInv

\* The query fails, or finds nothing: the next table.
LEMMA TurnKeepsInv ==
  ASSUME SyncInv, NEW p \in Pushes, PushTurns(p),
         UNCHANGED <<clock, updatedAt, mark, received, excused>>
  PROVE  SyncInv'
<1>1. ClockInv /\ mark' \in [Kinds -> 0..clock]
  BY DEF SyncInv, ClockInv
<1>2. /\ ClockInv' /\ push'[p] \in {"idle", "reading"}
      /\ \A q \in Pushes : q # p =>
              UNCHANGED <<push[q], pushKind[q], since[q], asked[q], batch[q]>>
  BY <1>1, TurnKeepsClock
<1>3. ASSUME NEW q \in Pushes
      PROVE  PushInv(q)'
  BY <1>2, NewTurn DEF SyncInv, PushInv
<1>4. LossesExplained'
  BY DEF SyncInv, LossesExplained
<1> QED BY <1>2, <1>3, <1>4 DEF SyncInv

LEMMA QueryKeepsInv ==
  ASSUME SyncInv, NEW p \in Pushes, PushQueries(p)
  PROVE  SyncInv'
<1> DEFINE stamps == Updated(pushKind[p], since[p])
<1>1. UNCHANGED <<clock, updatedAt, mark, received, excused>> /\ push[p] = "querying"
  BY DEF PushQueries, storeVars
<1>2. CASE PushTurns(p)
  BY <1>1, <1>2, TurnKeepsInv
<1>3. CASE /\ FirstBatch(stamps) # {} /\ batch' = [batch EXCEPT ![p] = FirstBatch(stamps)]
           /\ asked' = [asked EXCEPT ![p] = clock]
           /\ push' = [push EXCEPT ![p] = "sending"]
           /\ UNCHANGED <<pushKind, since>>
  <2>1. ClockInv /\ clock \in Nat /\ since[p] \in 0..clock
    BY SyncPusherAssumption DEF SyncInv, ClockInv
  <2>2. stamps \subseteq 0..clock /\ FirstBatch(stamps) \subseteq stamps
    BY <2>1 DEF Updated, FirstBatch, ClockInv
  <2>3. ClockInv'
    <3> HIDE DEF stamps
    <3>1. FirstBatch(stamps) \in SUBSET (0..clock) /\ clock \in 0..clock
      <4>1. FirstBatch(stamps) \subseteq 0..clock
        BY <2>2, Zenon
      <4>2. clock \in 0..clock
        BY <2>1
      <4> HIDE DEF ClockInv
      <4> QED BY <4>1, <4>2, Zenon
    <3>2. batch' \in [Pushes -> SUBSET (0..clock)]
      <4>1. batch \in [Pushes -> SUBSET (0..clock)] /\ batch' = [batch EXCEPT ![p] = FirstBatch(stamps)]
        BY <1>3, <2>1 DEF ClockInv
      <4> QED BY <3>1, <4>1
    <3>3. asked' \in [Pushes -> 0..clock]
      BY <1>3, <2>1, <3>1 DEF ClockInv
    <3>4. push' \in [Pushes -> {"idle", "reading", "querying", "sending", "marking"}]
      BY <1>3, <2>1 DEF ClockInv
    <3> QED BY <1>1, <1>3, <2>1, <3>2, <3>3, <3>4 DEF ClockInv
  <2>4. /\ push'[p] = "sending" /\ asked'[p] = clock /\ batch'[p] = FirstBatch(stamps)
        /\ pushKind'[p] = pushKind[p] /\ since'[p] = since[p]
        /\ \A q \in Pushes : q # p =>
             UNCHANGED <<push[q], pushKind[q], since[q], asked[q], batch[q]>>
    <3> HIDE DEF stamps
    <3> QED BY <1>3, <2>1 DEF ClockInv
  <2>5. PushInv(p)'
    <3>1. since[p] <= mark[pushKind[p]]
      BY <1>1 DEF SyncInv, PushInv
    <3>2. ASSUME NEW r \in Records, KindOf[r] = pushKind[p], updatedAt[r] \in since[p] + 1..clock
          PROVE  \/ updatedAt[r] \in FirstBatch(stamps)
                 \/ /\ Cardinality(FirstBatch(stamps)) = BatchSize
                    /\ \A s \in FirstBatch(stamps) : s < updatedAt[r]
      <4>1. updatedAt[r] \in stamps
        BY <2>1, <3>2 DEF Updated
      <4> HIDE DEF stamps
      <4> QED BY <2>1, <2>2, <4>1, LeftOutOfFull
    <3>3. FirstBatch(stamps) \subseteq 0..clock
      BY <2>2
    <3> HIDE DEF stamps
    <3> QED BY <1>1, <1>3, <2>4, <3>1, <3>2, <3>3 DEF PushInv
  <2>6. ASSUME NEW q \in Pushes, q # p
        PROVE  PushInv(q)'
    BY <1>1, <2>4, <2>6 DEF SyncInv, PushInv
  <2>7. LossesExplained'
    BY <1>1 DEF SyncInv, LossesExplained
  <2> QED BY <2>3, <2>5, <2>6, <2>7 DEF SyncInv
<1> QED BY <1>2, <1>3 DEF PushQueries

LEMMA SendKeepsInv ==
  ASSUME SyncInv, NEW p \in Pushes, PushSends(p)
  PROVE  SyncInv'
<1>1. UNCHANGED <<clock, updatedAt, mark>> /\ push[p] = "sending"
  BY DEF PushSends, storeVars
<1>2. CASE PushTurns(p) /\ UNCHANGED <<received, excused>>
  BY <1>1, <1>2, TurnKeepsInv
<1>3. CASE /\ Written
           /\ received' = IF socket[conn] = "up" THEN received \cup batch[p] ELSE received
           /\ excused' = IF socket[conn] = "silent" THEN excused \cup batch[p] ELSE excused
           /\ push' = [push EXCEPT ![p] = "marking"]
           /\ UNCHANGED <<pushKind, since, asked, batch>>
  <2>1. batch[p] \subseteq received' \cup excused' /\ received \cup excused \subseteq received' \cup excused'
    BY <1>3 DEF Written, Open
  <2>2. ClockInv'
    BY <1>1, <1>3 DEF SyncInv, ClockInv
  <2>3. push'[p] = "marking" /\ \A q \in Pushes : q # p => push'[q] = push[q]
    BY <1>3 DEF SyncInv, ClockInv
  <2>4. PushInv(p)'
    BY <1>1, <1>3, <2>1, <2>3 DEF SyncInv, PushInv
  <2>5. ASSUME NEW q \in Pushes, q # p
        PROVE  PushInv(q)'
    BY <1>1, <1>3, <2>1, <2>3, <2>5 DEF SyncInv, PushInv
  <2>6. LossesExplained'
    BY <1>1, <2>1 DEF SyncInv, LossesExplained
  <2> QED BY <2>2, <2>4, <2>5, <2>6 DEF SyncInv
<1> QED BY <1>2, <1>3 DEF PushSends

LEMMA MarkKeepsInv ==
  ASSUME SyncInv, NEW p \in Pushes, PushMarks(p)
  PROVE  SyncInv'
<1> DEFINE kind == pushKind[p]
           full == Cardinality(batch[p]) = BatchSize
           after == IF full THEN Max(batch[p]) ELSE asked[p]
<1>1. /\ push[p] = "marking" /\ mark' = [mark EXCEPT ![kind] = clock]
      /\ excused' = excused \cup Updated(kind, after)
      /\ PushTurns(p) /\ UNCHANGED <<clock, updatedAt, received>>
  BY DEF PushMarks, storeVars
<1>2. ClockInv /\ clock \in Nat /\ kind \in Kinds /\ PushInv(p)
      /\ since[p] \in 0..clock /\ asked[p] \in 0..clock
  BY SyncPusherAssumption DEF SyncInv, ClockInv
<1>3. mark' \in [Kinds -> 0..clock] /\ mark'[kind] = clock /\ \A k \in Kinds : k # kind => mark'[k] = mark[k]
  BY <1>1, <1>2 DEF ClockInv
<1>4. \A k \in Kinds : mark[k] <= mark'[k] /\ mark'[k] \in Nat
  BY <1>2, <1>3 DEF ClockInv
<1>5. /\ ClockInv' /\ push'[p] \in {"idle", "reading"}
      /\ \A q \in Pushes : q # p =>
              UNCHANGED <<push[q], pushKind[q], since[q], asked[q], batch[q]>>
  BY <1>1, <1>2, <1>3, TurnKeepsClock
<1>6. received \cup excused \subseteq received' \cup excused'
  BY <1>1
<1>7. ASSUME NEW q \in Pushes
      PROVE  PushInv(q)'
  <2>1. CASE q = p
    BY <1>5, <2>1, NewTurn
  <2>2. CASE q # p
    <3>1. PushInv(q) /\ pushKind[q] \in Kinds
      BY DEF SyncInv, ClockInv
    <3>2. UNCHANGED <<push[q], pushKind[q], since[q], asked[q], batch[q], updatedAt>>
      BY <1>1, <1>5, <2>2
    <3>3. mark[pushKind[q]] <= mark'[pushKind[q]] /\ mark'[pushKind[q]] \in Nat
      BY <1>4, <3>1
    <3> QED BY <1>2, <1>6, <3>1, <3>2, <3>3, OtherPush
  <2> QED BY <2>1, <2>2
<1>8. ASSUME NEW r \in Records, updatedAt[r] \in 1..mark'[KindOf[r]]
      PROVE  updatedAt[r] \in received' \cup excused'
  <2>1. KindOf[r] \in Kinds /\ updatedAt[r] \in 0..clock
    BY <1>2, SyncPusherAssumption DEF ClockInv, Kinds
  <2>2. CASE updatedAt[r] \in 1..mark[KindOf[r]]
    BY <1>6, <2>2 DEF SyncInv, LossesExplained
  <2>3. CASE updatedAt[r] \notin 1..mark[KindOf[r]]
    <3>1. KindOf[r] = kind
      BY <1>3, <1>8, <2>1, <2>3
    <3>2. updatedAt[r] \in since[p] + 1..clock
      <4>1. since[p] <= mark[kind] /\ mark[kind] \in 0..clock
        BY <1>1, <1>2 DEF PushInv, ClockInv
      <4> HIDE DEF kind
      <4> QED BY <1>2, <1>8, <2>1, <2>3, <3>1, <4>1
    <3>3. Max(batch[p]) \in batch[p] /\ batch[p] \subseteq 0..asked[p] /\ batch[p] \subseteq received \cup excused
      <4>1. batch[p] # {} /\ batch[p] \subseteq 0..asked[p] /\ batch[p] \subseteq received \cup excused
        BY <1>1, <1>2 DEF PushInv
      <4>2. asked[p] \in Nat
        BY <1>2
      <4> QED BY <4>1, <4>2, MaxIsGreatest
    <3>4. \/ updatedAt[r] \in batch[p]
          \/ full /\ \A s \in batch[p] : s < updatedAt[r]
          \/ updatedAt[r] > asked[p]
      <4>1. updatedAt[r] \in since[p] + 1..asked[p] \/ updatedAt[r] > asked[p]
        BY <1>2, <2>1, <3>2
      <4> QED BY <1>1, <1>2, <3>1, <4>1 DEF PushInv
    <3>5. CASE updatedAt[r] \in batch[p]
      BY <1>6, <3>3, <3>5
    <3>6. CASE updatedAt[r] \notin batch[p]
      <4>1. updatedAt[r] \notin 0..after
        <5>1. Max(batch[p]) \in Nat /\ asked[p] \in Nat /\ Max(batch[p]) <= asked[p] /\ updatedAt[r] \in Nat
          BY <1>2, <2>1, <3>3
        <5>2. full => Max(batch[p]) < updatedAt[r]
          <6> HIDE DEF full
          <6> QED BY <3>3, <3>4, <3>6, <5>1
        <5>3. ~full => asked[p] < updatedAt[r]
          <6> HIDE DEF full
          <6> QED BY <1>2, <2>1, <3>4, <3>6
        <5> HIDE DEF full
        <5> QED BY <5>1, <5>2, <5>3
      <4>2. updatedAt[r] \in Updated(kind, after)
        <5> HIDE DEF after, kind
        <5> QED BY <3>1, <4>1 DEF Updated
      <4> QED BY <1>1, <4>2
    <3> QED BY <3>5, <3>6
  <2> QED BY <2>2, <2>3
<1>9. LossesExplained'
  BY <1>1, <1>8 DEF LossesExplained
<1> QED BY <1>5, <1>7, <1>9 DEF SyncInv

LEMMA SyncStepInv == SyncInv /\ [CloudNext]_cloudVars => SyncInv'
<1> SUFFICES ASSUME SyncInv, [CloudNext]_cloudVars PROVE SyncInv'
  OBVIOUS
<1>1. CASE UNCHANGED <<storeVars, mark, pushVars, received, excused>>
  BY <1>1 DEF storeVars, pushVars, SyncInv, ClockInv, PushInv, LossesExplained
<1>2. CASE UNCHANGED syncVars \/ CloudStop \/ UNCHANGED cloudVars
  BY <1>1, <1>2 DEF syncVars, cloudVars, CloudStop
<1>3. ASSUME NEW p \in Pushes, PushStep(p)
      PROVE  SyncInv'
  <2>1. CASE PushQueryFails(p)
    BY <2>1, TurnKeepsInv DEF PushQueryFails, storeVars
  <2> QED BY <1>3, <2>1, ReadKeepsInv, QueryKeepsInv, SendKeepsInv, MarkKeepsInv DEF PushStep
<1> QED BY <1>2, <1>3, SpawnKeepsInv, StoreKeepsInv DEF CloudNext

\* In every behaviour of the pusher, with however many pushes at once, a record
\* behind its mark has reached the cloud, or was lost in one of the three ways
\* LossesExplained names.
THEOREM LossesAreExplained == CloudSpec => []LossesExplained
<1>1. SyncInv => LossesExplained
  BY DEF SyncInv
<1>2. CloudInit => SyncInv
  BY SyncInitInv DEF CloudInit
<1> QED BY <1>1, <1>2, SyncStepInv, PTL DEF CloudSpec

\* The pushes write under the same lock as the connector's own goroutines: they
\* end no link that is up, and take no command its answer.
LEMMA CloudKeepsLinks == Inv /\ [CloudNext]_cloudVars => Inv'
<1> SUFFICES ASSUME Inv, [CloudNext]_cloudVars PROVE Inv'
  OBVIOUS
<1>1. CASE UNCHANGED connectorVars
  BY <1>1, StepInv
<1>2. CASE ConnectorStep \/ CloudStop
  BY <1>2, StepInv DEF ConnectorNext, CloudStop
<1>3. ASSUME NEW p \in Pushes, PushSends(p)
      PROVE  Inv'
  <2>1. UNCHANGED <<loop, conn, cancelled, beat, commandVars>> /\ (WriteFails \/ socket' = socket)
    BY <1>3 DEF PushSends, loopVars
  <2>2. socket' = socket \/ (conn \in Links /\ socket[conn] # "unused" /\ socket' = [socket EXCEPT ![conn] = "closed"])
    BY <2>1, WriteLoses DEF Inv
  <2>3. conn \in Links => conn <= conn
    BY ConnectorAssumption DEF Links
  <2>4. CommandInv' /\ BeatInv'
    BY <2>1, <2>2, <2>3, LosesLink DEF Inv
  <2>5. LinkInv'
    BY <2>1, <2>2, ConnectorAssumption DEF Inv, LinkInv, States, Links
  <2> QED BY <2>4, <2>5 DEF Inv
<1>4. CASE PusherStart \/ PusherTick \/ PusherEnds \/ UNCHANGED cloudVars
  BY <1>1, <1>4 DEF PusherStart, PusherTick, PusherEnds, cloudVars
<1>5. ASSUME NEW p \in Pushes, PushReads(p) \/ PushQueries(p) \/ PushQueryFails(p) \/ PushMarks(p)
      PROVE  Inv'
  BY <1>1, <1>5 DEF PushReads, PushQueries, PushQueryFails, PushMarks
<1>6. ASSUME NEW r \in Records, Store(r)
      PROVE  Inv'
  BY <1>1, <1>6 DEF Store
<1> QED BY <1>2, <1>3, <1>4, <1>5, <1>6 DEF CloudNext, PushStep

\* With the pusher beside the connector's goroutines, too, only a dead link is
\* closed by a heartbeat, and a command is answered once and, as long as its link
\* lasts, for certain.
THEOREM LinksKeptBesidePusher == CloudSpec => [](HealthyLinkKept /\ CommandsAnswered)
<1>1. Inv => HealthyLinkKept /\ CommandsAnswered
  BY DEF Inv, BeatInv, CommandInv
<1>2. CloudInit => Inv
  BY InitInv DEF CloudInit
<1> QED BY <1>1, <1>2, CloudKeepsLinks, PTL DEF CloudSpec

-----------------------------------------------------------------------------
(* The types of the connector and of the pusher.                           *)

Beats == {"none", "beginning", "waiting", "writing", "closing", "ended"}

\* A heartbeat that runs has missed two at most; and the link that is about to be
\* served, and those not dialled yet, have had none.
CountInv ==
  /\ retryCount \in 0..MaxFailures
  /\ missed \in [Links -> 0..3] /\ meter \in [Links -> {"none", "waiting", "ended"}]
  /\ \A n \in Links : beat[n] \in {"beginning", "waiting", "writing"} => missed[n] <= 2
  /\ \A n \in Links : beat[n] = "none" => missed[n] = 0
  /\ \A n \in Links : n > conn \/ (n = conn /\ loop = "opened") => beat[n] = "none"
CallInv ==
  /\ commandCall \in [Commands -> {"idle", "busy"}]
  /\ commandResult \in [Commands -> {"none", "own"}]

LEMMA ConnectorTypes == Inv /\ CountInv /\ CallInv => ConnectorTypeOK
BY DEF Inv, LinkInv, BeatInv, CommandInv, CountInv, CallInv, ConnectorTypeOK, Loops, States, Under

LEMMA CountInitInv == ConnectorInit => CountInv /\ CallInv
<1> SUFFICES ASSUME ConnectorInit PROVE CountInv /\ CallInv
  OBVIOUS
<1>1. MaxFailures \in Nat
  BY ConnectorAssumption
<1>2. /\ retryCount = 0 /\ missed = [n \in Links |-> 0] /\ meter = [n \in Links |-> "none"]
      /\ beat = [n \in Links |-> "none"]
      /\ commandCall = [m \in Commands |-> "idle"] /\ commandResult = [m \in Commands |-> "none"]
  BY DEF ConnectorInit
<1> QED BY <1>1, <1>2 DEF CountInv, CallInv

\* What touches none of it.
LEMMA CountStays ==
  ASSUME CountInv, UNCHANGED <<retryCount, conn, loopVars>>, loop' = "opened" => loop = "opened"
  PROVE  CountInv'
BY DEF CountInv, loopVars

\* connectLoop.
LEMMA LoopCounts ==
  ASSUME Inv, CountInv, LoopStep
  PROVE  CountInv'
<1>1. MaxLinks \in Nat /\ MaxFailures \in Nat /\ conn \in 0..MaxLinks /\ beat \in [Links -> Beats]
  BY ConnectorAssumption DEF Inv, LinkInv, BeatInv, Under, Beats
<1>2. CASE DialFails
  <2>1. UNCHANGED <<conn, loopVars>> /\ loop' # "opened" /\ retryCount' \in 0..MaxFailures
    <3>1. UNCHANGED <<conn, loopVars>> /\ loop' # "opened"
      BY <1>2 DEF DialFails
    <3>2. retryCount' = retryCount \/ (retryCount < MaxFailures /\ retryCount' = retryCount + 1)
      BY <1>2, Zenon DEF DialFails
    <3>3. retryCount' \in 0..MaxFailures
      BY <1>1, <3>2 DEF CountInv
    <3> QED BY <3>1, <3>3
  <2> QED BY <2>1 DEF CountInv, loopVars
<1>3. CASE DialSucceeds
  <2>1. /\ conn' = conn + 1 /\ retryCount' = 0 /\ UNCHANGED <<missed, beat, meter>>
    BY <1>3 DEF DialSucceeds, loopVars
  <2>2. retryCount' \in 0..MaxFailures
    BY <1>1, <2>1
  <2>3. \A n \in Links : n > conn' \/ n = conn' => n > conn
    BY <1>1, <2>1 DEF Links
  <2>4. \A n \in Links : n > conn' \/ (n = conn' /\ loop' = "opened") => beat'[n] = "none"
    BY <2>1, <2>3 DEF CountInv
  <2> QED BY <2>1, <2>2, <2>4 DEF CountInv
<1>4. CASE Serve
  <2>1. /\ loop = "opened" /\ loop' = "serving" /\ beat' = [beat EXCEPT ![conn] = "beginning"]
        /\ UNCHANGED <<retryCount, conn, missed>>
        /\ \E at \in {"waiting", "none"} : meter' = [meter EXCEPT ![conn] = at]
    BY <1>4 DEF Serve
  <2>2. conn \in Links /\ beat[conn] = "none" /\ missed[conn] = 0
    BY <1>1, <2>1 DEF CountInv, Inv, LinkInv, Links
  <2>3. meter' \in [Links -> {"none", "waiting", "ended"}]
    BY <2>1, <2>2 DEF CountInv
  <2>4. \A n \in Links : n > conn => n # conn
    BY <1>1 DEF Links
  <2> QED BY <1>1, <2>1, <2>2, <2>3, <2>4 DEF CountInv
<1>5. CASE BackoffEnds \/ ReadFails \/ ReadExpires \/ PauseEnds
  BY <1>5, CountStays DEF BackoffEnds, ReadFails, ReadExpires, PauseEnds
<1> QED BY <1>2, <1>3, <1>4, <1>5 DEF LoopStep

\* The heartbeats and the metrics.
LEMMA BeatCounts ==
  ASSUME Inv, CountInv, NEW n \in Links, BeatStep(n) \/ MeterPush(n) \/ MeterEnds(n)
  PROVE  CountInv'
<1>1. beat \in [Links -> Beats] /\ missed \in [Links -> 0..3]
  BY DEF Inv, BeatInv, Under, Beats, CountInv
<1>2. CASE MeterPush(n)
  BY <1>2, CountStays DEF MeterPush
<1>3. CASE MeterEnds(n)
  BY <1>3 DEF MeterEnds, linkVars, CountInv
<1>4. CASE BeatFirst(n) \/ BeatTick(n)
  <2>1. /\ UNCHANGED <<loop, retryCount, conn, missed, meter>> /\ beat[n] \in {"beginning", "waiting"}
        /\ \E at \in {"waiting", "writing"} : beat' = [beat EXCEPT ![n] = at]
    BY <1>4 DEF BeatFirst, BeatTick, linkVars
  <2> QED BY <1>1, <2>1 DEF CountInv
<1>5. CASE BeatWrite(n)
  <2>1. /\ UNCHANGED <<loop, retryCount, conn, meter>> /\ beat[n] = "writing"
        /\ \/ missed' = [missed EXCEPT ![n] = 0] /\ beat' = [beat EXCEPT ![n] = "waiting"]
           \/ /\ missed' = [missed EXCEPT ![n] = missed[n] + 1]
              /\ beat' = [beat EXCEPT ![n] = IF missed'[n] >= 3 THEN "closing" ELSE "waiting"]
    BY <1>5 DEF BeatWrite, MissedTooOften
  <2>2. missed[n] \in 0..2
    BY <1>1, <2>1 DEF CountInv
  <2>3. missed' \in [Links -> 0..3] /\ \A k \in Links \ {n} : missed'[k] = missed[k] /\ beat'[k] = beat[k]
    BY <1>1, <2>1, <2>2
  <2>4. (beat'[n] = "waiting" /\ missed'[n] <= 2) \/ beat'[n] = "closing"
    BY <1>1, <2>1, <2>2
  <2> QED BY <2>1, <2>3, <2>4 DEF CountInv
<1>6. CASE BeatClose(n)
  <2>1. /\ UNCHANGED <<loop, retryCount, conn, missed, meter>> /\ beat[n] = "closing"
        /\ beat' = [beat EXCEPT ![n] = "ended"]
    BY <1>6 DEF BeatClose
  <2> QED BY <1>1, <2>1 DEF CountInv
<1>7. CASE BeatEnds(n)
  <2>1. /\ UNCHANGED <<loop, retryCount, conn, meter>> /\ beat[n] = "waiting"
        /\ beat' = [beat EXCEPT ![n] = "ended"] /\ missed' = [missed EXCEPT ![n] = 0]
    BY <1>7 DEF BeatEnds, linkVars
  <2> QED BY <1>1, <2>1 DEF CountInv
<1> QED BY <1>2, <1>3, <1>4, <1>5, <1>6, <1>7 DEF BeatStep

\* The commands.
LEMMA CommandCallsTypes ==
  ASSUME CallInv, NEW m \in Commands, CommandStep(m)
  PROVE  CallInv'
<1>1. CASE CommandArrives(m) \/ CommandRefused(m) \/ CommandAnswers(m)
  BY <1>1 DEF CommandArrives, CommandRefused, CommandAnswers, CallInv
<1>2. CASE CommandCalls(m) \/ CommandAnswer(m) \/ CommandReturns(m)
  BY <1>2 DEF CommandCalls, CommandAnswer, CommandReturns, Api!Begin, Api!Answer, Api!Return, CallInv
<1> QED BY <1>1, <1>2 DEF CommandStep

LEMMA CommandCounts ==
  ASSUME CountInv, NEW m \in Commands, CommandStep(m)
  PROVE  CountInv'
BY CountStays DEF CommandStep, CommandArrives, CommandRefused, CommandCalls, CommandAnswer, CommandReturns,
   CommandAnswers, linkVars

LEMMA CountStepInv == Inv /\ CountInv /\ CallInv /\ [ConnectorNext]_connectorVars => CountInv' /\ CallInv'
<1> SUFFICES ASSUME Inv, CountInv, CallInv, [ConnectorNext]_connectorVars PROVE CountInv' /\ CallInv'
  OBVIOUS
<1>1. ASSUME UNCHANGED commandVars
      PROVE  CallInv'
  BY <1>1 DEF commandVars, CallInv
<1>2. CASE UNCHANGED connectorVars
  BY <1>1, <1>2, CountStays DEF connectorVars, linkVars
<1>3. CASE LoopStep
  BY <1>1, <1>3, LoopCounts DEF LoopStep, DialFails, BackoffEnds, DialSucceeds, Serve, ReadFails, ReadExpires,
     PauseEnds
<1>4. ASSUME NEW n \in Links, BeatStep(n) \/ MeterPush(n) \/ MeterEnds(n)
      PROVE  CountInv' /\ CallInv'
  BY <1>1, <1>4, BeatCounts DEF BeatStep, BeatFirst, BeatTick, BeatWrite, BeatClose, BeatEnds, MeterPush, MeterEnds
<1>5. ASSUME NEW n \in Links, LinkLost(n)
      PROVE  CountInv' /\ CallInv'
  BY <1>1, <1>5, CountStays DEF LinkLost
<1>6. ASSUME NEW m \in Commands, CommandStep(m)
      PROVE  CountInv' /\ CallInv'
  BY <1>6, CommandCallsTypes, CommandCounts
<1>7. CASE ConnectorStop
  BY <1>1, <1>7, CountStays DEF ConnectorStop
<1> QED BY <1>2, <1>3, <1>4, <1>5, <1>6, <1>7 DEF ConnectorNext, ConnectorStep

\* The types of Connector.
THEOREM ConnectorTypesHold == ConnectorSpec => []ConnectorTypeOK
<1> QED BY ConnectorTypes, InitInv, CountInitInv, StepInv, CountStepInv, PTL DEF ConnectorSpec

\* The pusher: stamps begin at 1, and a stamp that is asked for is after one that
\* is none.
StampInv ==
  /\ pusher \in {"starting", "running", "stopped"} /\ stopSignal \in BOOLEAN
  /\ ticks \in 0..MaxTicks
  /\ batch \in [Pushes -> SUBSET (1..MaxStores)]
  /\ received \subseteq 1..MaxStores /\ excused \subseteq 1..MaxStores

LEMMA SyncTypes == SyncInv /\ StampInv => SyncTypeOK
<1> SUFFICES ASSUME SyncInv, StampInv PROVE SyncTypeOK
  OBVIOUS
<1>1. ClockInv /\ clock \in 0..MaxStores /\ MaxStores \in Nat
  BY SyncPusherAssumption DEF SyncInv, ClockInv
<1>2. 0..clock \subseteq 0..MaxStores
  BY <1>1
<1>3. /\ updatedAt \in [Records -> 0..MaxStores] /\ mark \in [Kinds -> 0..MaxStores]
      /\ since \in [Pushes -> 0..MaxStores] /\ asked \in [Pushes -> 0..MaxStores]
  BY <1>1, <1>2 DEF ClockInv
<1> QED BY <1>1, <1>3 DEF ClockInv, StampInv, SyncTypeOK

LEMMA StampInitInv == SyncInit => StampInv
<1> SUFFICES ASSUME SyncInit PROVE StampInv
  OBVIOUS
<1>1. stopSignal \in BOOLEAN
  BY Zenon DEF SyncInit
<1>2. MaxTicks \in Nat
  BY SyncPusherAssumption
<1>3. pusher = "starting" /\ ticks = 0 /\ batch = [p \in Pushes |-> {}] /\ received = {} /\ excused = {}
  BY DEF SyncInit
<1> QED BY <1>1, <1>2, <1>3 DEF StampInv

\* Stamps after some time are stamps.
LEMMA UpdatedStamps ==
  ASSUME ClockInv, NEW kind, NEW after \in Nat
  PROVE  Updated(kind, after) \subseteq 1..MaxStores /\ FirstBatch(Updated(kind, after)) \subseteq 1..MaxStores
<1>1. clock \in 0..MaxStores /\ MaxStores \in Nat /\ \A r \in Records : updatedAt[r] \in 0..clock
  BY SyncPusherAssumption DEF ClockInv
<1>2. ASSUME NEW s \in Updated(kind, after)
      PROVE  s \in 1..MaxStores
  <2>1. s \in 0..clock /\ s \notin 0..after
    BY <1>1, <1>2 DEF Updated
  <2> QED BY <1>1, <2>1
<1>3. FirstBatch(Updated(kind, after)) \subseteq Updated(kind, after)
  BY DEF FirstBatch
<1> QED BY <1>2, <1>3

\* The greatest of a batch that is not empty.
LEMMA MaxStamp ==
  ASSUME ClockInv, NEW p \in Pushes, batch[p] # {}
  PROVE  Max(batch[p]) \in Nat
<1>1. batch[p] \subseteq 0..clock /\ clock \in Nat
  BY SyncPusherAssumption DEF ClockInv
<1> QED BY <1>1, MaxIsGreatest

LEMMA TurnStamps ==
  ASSUME StampInv, NEW p \in Pushes, PushTurns(p)
  PROVE  batch' \in [Pushes -> SUBSET (1..MaxStores)]
BY DEF StampInv, PushTurns

LEMMA PushStamps ==
  ASSUME SyncInv, StampInv, NEW p \in Pushes, PushStep(p)
  PROVE  StampInv'
<1>1. ClockInv /\ PushInv(p) /\ UNCHANGED <<pusher, stopSignal, ticks>>
  BY DEF SyncInv, PushStep, PushReads, PushQueries, PushQueryFails, PushSends, PushMarks
<1>2. since[p] \in Nat /\ asked[p] \in Nat
  BY <1>1, SyncPusherAssumption DEF ClockInv
<1>3. CASE PushReads(p)
  BY <1>1, <1>3 DEF PushReads, StampInv
<1>4. CASE PushQueries(p) \/ PushQueryFails(p)
  <2> DEFINE b == FirstBatch(Updated(pushKind[p], since[p]))
  <2>1. UNCHANGED <<received, excused>> /\ (PushTurns(p) \/ batch' = [batch EXCEPT ![p] = b])
    BY <1>4 DEF PushQueries, PushQueryFails
  <2>2. b \in SUBSET (1..MaxStores)
    BY <1>1, <1>2, UpdatedStamps
  <2> HIDE DEF b
  <2>3. batch' \in [Pushes -> SUBSET (1..MaxStores)]
    BY <2>1, <2>2, TurnStamps DEF StampInv
  <2> QED BY <1>1, <2>1, <2>3 DEF StampInv
<1>5. CASE PushSends(p)
  <2>1. batch' = batch \/ PushTurns(p)
    BY <1>5 DEF PushSends
  <2>2. batch' \in [Pushes -> SUBSET (1..MaxStores)]
    BY <2>1, TurnStamps DEF StampInv
  <2>3. /\ received' = received \/ received' = received \cup batch[p]
        /\ excused' = excused \/ excused' = excused \cup batch[p]
    BY <1>5 DEF PushSends
  <2> QED BY <1>1, <2>2, <2>3 DEF StampInv
<1>6. CASE PushMarks(p)
  <2>1. push[p] = "marking" /\ PushTurns(p) /\ received' = received
    BY <1>6 DEF PushMarks
  <2>2. \E after \in {Max(batch[p]), asked[p]} : excused' = excused \cup Updated(pushKind[p], after)
    BY <1>6 DEF PushMarks
  <2>3. Max(batch[p]) \in Nat
    BY <1>1, <2>1, MaxStamp DEF PushInv
  <2>4. \A after \in {Max(batch[p]), asked[p]} : Updated(pushKind[p], after) \subseteq 1..MaxStores
    BY <1>1, <1>2, <2>3, UpdatedStamps
  <2>5. excused' \subseteq 1..MaxStores
    BY <2>2, <2>4 DEF StampInv
  <2>6. batch' \in [Pushes -> SUBSET (1..MaxStores)]
    BY <2>1, TurnStamps
  <2> QED BY <1>1, <2>1, <2>5, <2>6 DEF StampInv
<1> QED BY <1>3, <1>4, <1>5, <1>6 DEF PushStep

LEMMA StampStepInv == SyncInv /\ StampInv /\ [CloudNext]_cloudVars => StampInv'
<1> SUFFICES ASSUME SyncInv, StampInv, [CloudNext]_cloudVars PROVE StampInv'
  OBVIOUS
<1>1. CASE UNCHANGED syncVars
  BY <1>1 DEF syncVars, pushVars, StampInv
<1>2. CASE CloudStop
  <2>1. UNCHANGED <<pusher, ticks, batch, received, excused>>
    BY <1>2 DEF CloudStop, pushVars
  <2>2. stopSignal' \in BOOLEAN
    BY <1>2, Zenon DEF CloudStop
  <2> QED BY <2>1, <2>2 DEF StampInv
<1>3. CASE PusherStart \/ PusherTick \/ PusherEnds
  <2>1. UNCHANGED <<stopSignal, batch, received, excused>> /\ pusher' \in {"running", "stopped"}
    BY <1>3 DEF PusherStart, PusherTick, PusherEnds, pushVars
  <2>2. ticks' \in 0..MaxTicks
    <3>1. ticks' = ticks \/ (ticks < MaxTicks /\ ticks' = ticks + 1)
      BY <1>3 DEF PusherStart, PusherTick, PusherEnds, Spawn
    <3>2. MaxTicks \in Nat
      BY SyncPusherAssumption
    <3> QED BY <3>1, <3>2 DEF StampInv
  <2> QED BY <2>1, <2>2 DEF StampInv
<1>4. ASSUME NEW r \in Records, Store(r)
      PROVE  StampInv'
  BY <1>4 DEF Store, pushVars, StampInv
<1> QED BY <1>1, <1>2, <1>3, <1>4, PushStamps DEF CloudNext, cloudVars

\* With the pusher beside it the connector counts as it does alone.
LEMMA CloudCounts ==
  ASSUME Inv, CountInv, CallInv, [CloudNext]_cloudVars
  PROVE  CountInv' /\ CallInv'
<1>1. CASE UNCHANGED connectorVars \/ ConnectorStep \/ CloudStop
  BY <1>1, CountStepInv DEF ConnectorNext, CloudStop
<1>2. ASSUME NEW p \in Pushes, PushSends(p)
      PROVE  CountInv' /\ CallInv'
  BY <1>2, CountStays DEF PushSends, commandVars, CallInv
<1>3. CASE PusherStart \/ PusherTick \/ PusherEnds \/ UNCHANGED cloudVars
  BY <1>1, <1>3 DEF PusherStart, PusherTick, PusherEnds, cloudVars
<1>4. ASSUME NEW p \in Pushes, PushReads(p) \/ PushQueries(p) \/ PushQueryFails(p) \/ PushMarks(p)
      PROVE  CountInv' /\ CallInv'
  BY <1>1, <1>4 DEF PushReads, PushQueries, PushQueryFails, PushMarks
<1>5. ASSUME NEW r \in Records, Store(r)
      PROVE  CountInv' /\ CallInv'
  BY <1>1, <1>5 DEF Store
<1> QED BY <1>1, <1>2, <1>3, <1>4, <1>5 DEF CloudNext, PushStep

\* The types of Connector and of SyncPusher beside it.
THEOREM CloudTypesHold == CloudSpec => [](ConnectorTypeOK /\ SyncTypeOK)
<1>1. CloudInit => Inv /\ CountInv /\ CallInv /\ SyncInv /\ StampInv
  BY InitInv, CountInitInv, SyncInitInv, StampInitInv DEF CloudInit
<1>2. Inv /\ CountInv /\ CallInv /\ SyncInv /\ StampInv /\ [CloudNext]_cloudVars =>
        (Inv /\ CountInv /\ CallInv /\ SyncInv /\ StampInv)'
  BY CloudKeepsLinks, CloudCounts, SyncStepInv, StampStepInv
<1> QED BY <1>1, <1>2, ConnectorTypes, SyncTypes, PTL DEF CloudSpec
=============================================================================
