-------------------------- MODULE ConsoleHubProofs --------------------------
(***************************************************************************)
(* The types of ConsoleHub and CrashExplained, for any number of console   *)
(* pages, broadcasters and any capacities.                                 *)
(*                                                                         *)
(* The argument: a channel is closed only by the step that takes its       *)
(* client out of the registry, and a client that left never comes back.    *)
(* So a registered client's channel is open, and a closed channel belongs  *)
(* to a client that was dropped as slow or whose reader has ended; a       *)
(* reader that is about to send a pong has not ended.                      *)
(***************************************************************************)
EXTENDS ConsoleHub, TLAPS

\* Who may be registered or dropped, and whose channel may be closed.
OpenInv ==
  /\ todo \subseteq viewers
  /\ \A c \in viewers : open[c]
  /\ \A c \in viewers \cup dropped : viewerReader[c] \notin {"none", "registering"}
  /\ \A c \in Viewers : ~open[c] => c \in dropped \/ viewerReader[c] = "done"
  /\ \A c \in Viewers : wire[c] = "unused" => viewerReader[c] = "none"

Inv == ConsoleTypeOK /\ OpenInv /\ CrashExplained

LEMMA InitInv == ConsoleInit => Inv
BY ConsoleHubAssumption DEF ConsoleInit, Inv, ConsoleTypeOK, OpenInv, CrashExplained

\* Run.
LEMMA RunKeepsInv ==
  ASSUME Inv, crash = {}, RunStep
  PROVE  Inv'
<1> USE ConsoleHubAssumption DEF Inv, ConsoleTypeOK, OpenInv, CrashExplained, viewerSide, hubSide
<1>1. CASE RunTakes
  BY <1>1 DEF RunTakes
<1>2. ASSUME NEW c \in Viewers, RunRegisters(c)
      PROVE  Inv'
  <2>1. open[c]
    BY <1>2 DEF RunRegisters
  <2> QED BY <1>2, <2>1 DEF RunRegisters
<1>3. ASSUME NEW c \in Viewers, RunUnregisters(c)
      PROVE  Inv'
  <2>1. /\ viewers' = viewers \ {c} /\ todo = {} /\ viewerReader[c] = "leaving"
        /\ viewerReader' = [viewerReader EXCEPT ![c] = "done"] /\ done' = [done EXCEPT ![c] = TRUE]
        /\ UNCHANGED <<backlog, todo, buffered, wire, viewerWriter, greeting, broadcaster, dropped,
                       crash>>
    BY <1>3 DEF RunUnregisters, Leave
  <2>2. \/ open' = open
        \/ open' = [open EXCEPT ![c] = FALSE]
    BY <1>3 DEF RunUnregisters, Leave
  <2>3. ConsoleTypeOK' /\ CrashExplained'
    BY <2>1, <2>2
  <2>4. OpenInv'
    BY <2>1, <2>2
  <2> QED BY <2>3, <2>4
<1>4. ASSUME NEW c \in Viewers, RunOffers(c)
      PROVE  Inv'
  <2>1. c \in viewers
    BY <1>4 DEF RunOffers
  <2>2. CASE buffered[c] < ViewerCap
    BY <1>4, <2>2 DEF RunOffers
  <2>3. CASE ~(buffered[c] < ViewerCap)
    <3>1. /\ todo' = todo \ {c} /\ viewers' = viewers \ {c} /\ dropped' = dropped \cup {c}
          /\ open' = [open EXCEPT ![c] = FALSE]
          /\ UNCHANGED <<buffered, backlog, done, wire, viewerReader, viewerWriter, greeting,
                         broadcaster, crash>>
      BY <1>4, <2>3 DEF RunOffers
    <3>2. ConsoleTypeOK'
      BY <3>1
    <3>3. OpenInv'
      BY <2>1, <3>1
    <3>4. CrashExplained'
      BY <3>1
    <3> QED BY <3>2, <3>3, <3>4
  <2> QED BY <2>2, <2>3
<1> QED BY <1>1, <1>2, <1>3, <1>4 DEF RunStep

\* BroadcastMessage.
LEMMA BroadcastKeepsInv ==
  ASSUME Inv, NEW b \in Broadcasters, BroadcastBegins(b) \/ BroadcastEnds(b)
  PROVE  Inv'
<1> USE ConsoleHubAssumption DEF Inv, ConsoleTypeOK, OpenInv, CrashExplained, viewerSide, hubSide
<1>1. CASE BroadcastBegins(b)
  BY <1>1 DEF BroadcastBegins
<1>2. CASE BroadcastEnds(b)
  BY <1>2 DEF BroadcastEnds
<1> QED BY <1>1, <1>2

\* The reader and the greeting, who may panic.
LEMMA ReaderKeepsInv ==
  ASSUME Inv, crash = {}, NEW c \in Viewers, ViewerReads(c) \/ Greets(c)
  PROVE  Inv'
<1> USE ConsoleHubAssumption DEF Inv, ConsoleTypeOK, OpenInv, CrashExplained, viewerSide, hubSide
<1>1. CASE ReaderLeaves(c)
  BY <1>1 DEF ReaderLeaves
<1>2. CASE ReaderPinged(c)
  BY <1>2 DEF ReaderPinged
<1>3. CASE ReaderPongs(c)
  <2>1. CASE open[c]
    BY <1>3, <2>1 DEF ReaderPongs
  <2>2. CASE ~open[c]
    <3>1. c \in dropped
      BY <1>3, <2>2 DEF ReaderPongs
    <3>2. crash' = {[cause |-> "pong", viewer |-> c]}
      BY <1>3, <2>2 DEF ReaderPongs, Panic
    <3> QED BY <1>3, <2>2, <3>1, <3>2 DEF ReaderPongs
  <2> QED BY <2>1, <2>2
<1>4. CASE Greets(c)
  <2>1. /\ UNCHANGED <<viewers, backlog, todo, open, done, wire, viewerReader, viewerWriter,
                       broadcaster, dropped>>
        /\ greeting' = [greeting EXCEPT ![c] = @ - 1] /\ greeting[c] \in 1..2
    BY <1>4 DEF Greets
  <2>2. CASE UNCHANGED <<buffered, crash>>
    BY <2>1, <2>2
  <2>3. CASE open[c] /\ UNCHANGED crash
             /\ buffered' = [buffered EXCEPT ![c] = IF @ < ViewerCap THEN @ + 1 ELSE @]
    BY <2>1, <2>3
  <2>4. CASE ~open[c] /\ crash' = {[cause |-> "greeting", viewer |-> c]} /\ UNCHANGED buffered
    BY <2>1, <2>4
  <2> QED BY <1>4, <2>2, <2>3, <2>4 DEF Greets, Panic
<1> QED BY <1>1, <1>2, <1>3, <1>4 DEF ViewerReads

\* The writer, and the network.
LEMMA WriterKeepsInv ==
  ASSUME Inv, NEW c \in Viewers, ViewerComes(c) \/ ViewerWrites(c) \/ WireLost(c)
  PROVE  Inv'
<1> USE ConsoleHubAssumption DEF Inv, ConsoleTypeOK, OpenInv, CrashExplained, viewerSide, hubSide
<1>1. CASE WriterTakes(c)
  BY <1>1 DEF WriterTakes
<1>2. CASE WriterWrites(c)
  BY <1>2 DEF WriterWrites
<1>3. CASE WriterFails(c) \/ WriterCloses(c)
  <2>1. WriterReturns(c)
    BY <1>3 DEF WriterFails, WriterCloses
  <2>2. ConsoleTypeOK'
    BY <2>1 DEF WriterReturns
  <2>4. OpenInv' /\ CrashExplained'
    BY <2>1 DEF WriterReturns
  <2> QED BY <2>2, <2>4
<1>4. CASE ViewerComes(c)
  <2>1. viewerReader' = [viewerReader EXCEPT ![c] = "registering"]
    BY <1>4 DEF ViewerComes
  <2>2. c \notin viewers \cup dropped
    BY <1>4 DEF ViewerComes
  <2>3. ConsoleTypeOK' /\ CrashExplained'
    BY <1>4 DEF ViewerComes
  <2>4. OpenInv'
    BY <1>4, <2>1, <2>2 DEF ViewerComes
  <2> QED BY <2>3, <2>4
<1>5. CASE WireLost(c)
  BY <1>5 DEF WireLost
<1> QED BY <1>1, <1>2, <1>3, <1>4, <1>5 DEF ViewerWrites

\* The invariant is inductive.
LEMMA StepInv == Inv /\ [ConsoleNext]_consoleVars => Inv'
<1> SUFFICES ASSUME Inv, [ConsoleNext]_consoleVars PROVE Inv'
  OBVIOUS
<1>1. CASE UNCHANGED consoleVars
  BY <1>1 DEF consoleVars, hubSide, viewerSide, Inv, ConsoleTypeOK, OpenInv, CrashExplained
<1>2. CASE ConsoleNext
  BY <1>2, RunKeepsInv, BroadcastKeepsInv, ReaderKeepsInv, WriterKeepsInv DEF ConsoleNext
<1> QED BY <1>1, <1>2

\* In every behaviour no channel of a console client is closed twice, and a send
\* on a closed one (websocket.go:351, and the greeting) has one of the two causes.
THEOREM CrashesAreExplained == ConsoleSpec => [](ConsoleTypeOK /\ CrashExplained)
<1>1. Inv => ConsoleTypeOK /\ CrashExplained
  BY DEF Inv
<1> QED BY <1>1, InitInv, StepInv, PTL DEF ConsoleSpec
=============================================================================
