----------------------------- MODULE ConsoleHub -----------------------------
(***************************************************************************)
(* The hub of the console's pages, src/internal/handlers/websocket.go: Run *)
(* registers, unregisters and broadcasts; each client has a reader, which  *)
(* answers pings through the client's own buffered channel, a writer, and  *)
(* a goroutine that greets it 100 ms after it came.  Run closes the        *)
(* channel of a client that leaves, or that is too slow, and nobody        *)
(* recovers a goroutine that then sends on it.                             *)
(*                                                                         *)
(* Abstracted: what is sent, so that a buffer is the number of messages in *)
(* it; the token and the origin of a connection; the second loop of the    *)
(* writer, which does to the messages that wait what its select would do.  *)
(* A Read or Write whose deadline passes, or whose context is cancelled,   *)
(* fails, and the websocket library closes the socket.                     *)
(***************************************************************************)
EXTENDS Integers, FiniteSets

CONSTANTS
  Viewers,       \* console connections; each is opened once
  Broadcasters,  \* goroutines that broadcast: requests, downloads, the statistics' ticker
  ViewerCap,     \* capacity of client.send (256)
  BroadcastCap,  \* capacity of hub.broadcast (256)
  Ticker         \* the last of these, which broadcasts while there are clients

ASSUME ConsoleHubAssumption ==
  /\ {ViewerCap, BroadcastCap} \subseteq Nat \ {0}
  /\ Ticker \in Broadcasters

VARIABLES
  viewers,       \* h.clients
  backlog,       \* messages in h.broadcast
  todo,          \* clients the message in hand has not been offered to
  open,          \* client.send has not been closed
  buffered,      \* messages in client.send
  done,          \* the client's context is cancelled
  wire,          \* the socket: "unused", "up", "silent" or "down"
  viewerReader, viewerWriter,
  greeting,      \* messages the greeting has yet to send, 3 before HandleWebSocket starts it
  broadcaster,   \* "idle" or "blocked" in BroadcastMessage
  crash,         \* the panic that ended the program, if one has
  dropped        \* history: clients Run closed because they were slow

hubSide    == <<viewers, backlog, todo>>
viewerSide == <<open, buffered, done, wire, viewerReader, viewerWriter, greeting>>
consoleVars == <<hubSide, viewerSide, broadcaster, crash, dropped>>

ConsoleInit ==
  /\ viewers = {} /\ backlog = 0 /\ todo = {}
  /\ open = [c \in Viewers |-> TRUE] /\ buffered = [c \in Viewers |-> 0]
  /\ done = [c \in Viewers |-> FALSE] /\ wire = [c \in Viewers |-> "unused"]
  /\ viewerReader = [c \in Viewers |-> "none"] /\ viewerWriter = [c \in Viewers |-> "none"]
  /\ greeting = [c \in Viewers |-> 3]
  /\ broadcaster = [b \in Broadcasters |-> "idle"] /\ crash = {}
  /\ dropped = {}

-----------------------------------------------------------------------------
(* Run                                                                     *)

Panic(cause, c) == crash' = {[cause |-> cause, viewer |-> c]}

\* Mutant of Leave: without the look whether the client is still registered.
LeaveTwice(c) ==
  /\ viewers' = viewers \ {c}
  /\ IF open[c] THEN open' = [open EXCEPT ![c] = FALSE] /\ UNCHANGED crash
     ELSE Panic("close", c) /\ UNCHANGED open

\* A client that is registered is removed, and its channel closed.
Leave(c) ==
  /\ viewers' = viewers \ {c}
  /\ open' = [open EXCEPT ![c] = IF c \in viewers THEN FALSE ELSE @]
  /\ UNCHANGED crash

\* The receives from register and unregister; then HandleWebSocket starts the
\* goroutines of the client, or the reader cancels its context and ends.
RunRegisters(c) ==
  /\ todo = {} /\ viewerReader[c] = "registering"
  /\ viewers' = viewers \cup {c}
  /\ viewerReader' = [viewerReader EXCEPT ![c] = "reading"]
  /\ viewerWriter' = [viewerWriter EXCEPT ![c] = "waiting"]
  /\ greeting' = [greeting EXCEPT ![c] = 2]
  /\ UNCHANGED <<backlog, todo, open, buffered, done, wire, broadcaster, crash, dropped>>

RunUnregisters(c) ==
  /\ todo = {} /\ viewerReader[c] = "leaving"
  /\ Leave(c)
  /\ viewerReader' = [viewerReader EXCEPT ![c] = "done"]
  /\ done' = [done EXCEPT ![c] = TRUE]
  /\ UNCHANGED <<backlog, todo, buffered, wire, viewerWriter, greeting, broadcaster, dropped>>

RunTakes ==
  /\ todo = {} /\ backlog > 0
  /\ backlog' = backlog - 1
  /\ todo' = viewers
  /\ UNCHANGED <<viewers, viewerSide, broadcaster, crash, dropped>>

\* Mutant of RunOffers: a client that is slow misses the message, and stays.
OffersAndKeeps(c) ==
  /\ c \in todo
  /\ todo' = todo \ {c}
  /\ buffered' = [buffered EXCEPT ![c] = IF @ < ViewerCap THEN @ + 1 ELSE @]
  /\ UNCHANGED <<viewers, backlog, open, done, wire, viewerReader, viewerWriter, greeting, broadcaster,
                 crash, dropped>>

\* One client of the range over h.clients: the message fits into its buffer, or
\* its channel is closed and it is removed.
RunOffers(c) ==
  /\ c \in todo
  /\ todo' = todo \ {c}
  /\ IF buffered[c] < ViewerCap
     THEN /\ buffered' = [buffered EXCEPT ![c] = @ + 1]
          /\ UNCHANGED <<viewers, open, dropped>>
     ELSE /\ viewers' = viewers \ {c}
          /\ open' = [open EXCEPT ![c] = FALSE]
          /\ dropped' = dropped \cup {c}
          /\ UNCHANGED buffered
  /\ UNCHANGED <<backlog, done, wire, viewerReader, viewerWriter, greeting, broadcaster, crash>>

-----------------------------------------------------------------------------
(* BroadcastMessage                                                        *)

BroadcastBegins(b) ==
  /\ broadcaster[b] = "idle"
  /\ b = Ticker => viewers # {}
  /\ broadcaster' = [broadcaster EXCEPT ![b] = "blocked"]
  /\ UNCHANGED <<hubSide, viewerSide, crash, dropped>>

BroadcastEnds(b) ==
  /\ broadcaster[b] = "blocked" /\ backlog < BroadcastCap
  /\ backlog' = backlog + 1
  /\ broadcaster' = [broadcaster EXCEPT ![b] = "idle"]
  /\ UNCHANGED <<viewers, todo, viewerSide, crash, dropped>>

-----------------------------------------------------------------------------
(* HandleWebSocket, readPump and the greeting                              *)

ViewerComes(c) ==
  /\ wire[c] = "unused"
  /\ wire' = [wire EXCEPT ![c] = "up"]
  /\ viewerReader' = [viewerReader EXCEPT ![c] = "registering"]
  /\ UNCHANGED <<hubSide, open, buffered, done, viewerWriter, greeting, broadcaster, crash, dropped>>

\* Read fails: the socket is down, the context cancelled, or 90 seconds passed.
ReaderLeaves(c) ==
  /\ viewerReader[c] = "reading"
  /\ wire' = [wire EXCEPT ![c] = "down"]
  /\ viewerReader' = [viewerReader EXCEPT ![c] = "leaving"]
  /\ UNCHANGED <<hubSide, open, buffered, done, viewerWriter, greeting, broadcaster, crash, dropped>>

ReaderPinged(c) ==
  /\ viewerReader[c] = "reading" /\ wire[c] = "up" /\ ~done[c]
  /\ viewerReader' = [viewerReader EXCEPT ![c] = "ponging"]
  /\ UNCHANGED <<hubSide, open, buffered, done, wire, viewerWriter, greeting, broadcaster, crash, dropped>>

\* c.send <- pong: blocks while the buffer is full, and panics once it is closed.
ReaderPongs(c) ==
  /\ viewerReader[c] = "ponging"
  /\ IF open[c]
     THEN /\ buffered[c] < ViewerCap
          /\ buffered' = [buffered EXCEPT ![c] = @ + 1]
          /\ viewerReader' = [viewerReader EXCEPT ![c] = "reading"]
          /\ UNCHANGED crash
     ELSE Panic("pong", c) /\ UNCHANGED <<buffered, viewerReader>>
  /\ UNCHANGED <<hubSide, open, done, wire, viewerWriter, greeting, broadcaster, dropped>>

\* 100 ms later: the statistics and the queue, into a buffer that has room; a
\* query that fails is skipped.
Greets(c) ==
  /\ greeting[c] \in 1..2
  /\ \/ IF open[c]
        THEN /\ buffered' = [buffered EXCEPT ![c] = IF @ < ViewerCap THEN @ + 1 ELSE @]
             /\ UNCHANGED crash
        ELSE Panic("greeting", c) /\ UNCHANGED buffered
     \/ UNCHANGED <<buffered, crash>>
  /\ greeting' = [greeting EXCEPT ![c] = @ - 1]
  /\ UNCHANGED <<hubSide, open, done, wire, viewerReader, viewerWriter, broadcaster, dropped>>

-----------------------------------------------------------------------------
(* writePump                                                               *)

WriterTakes(c) ==
  /\ viewerWriter[c] = "waiting" /\ buffered[c] > 0
  /\ buffered' = [buffered EXCEPT ![c] = @ - 1]
  /\ viewerWriter' = [viewerWriter EXCEPT ![c] = "writing"]
  /\ UNCHANGED <<hubSide, open, done, wire, viewerReader, greeting, broadcaster, crash, dropped>>

WriterWrites(c) ==
  /\ viewerWriter[c] = "writing"
  /\ wire[c] \in {"up", "silent"} /\ ~done[c]
  /\ viewerWriter' = [viewerWriter EXCEPT ![c] = "waiting"]
  /\ UNCHANGED <<hubSide, open, buffered, done, wire, viewerReader, greeting, broadcaster, crash, dropped>>

WriterReturns(c) ==
  /\ viewerWriter' = [viewerWriter EXCEPT ![c] = "done"]
  /\ done' = [done EXCEPT ![c] = TRUE]
  /\ wire' = [wire EXCEPT ![c] = "down"]
  /\ UNCHANGED <<hubSide, open, buffered, viewerReader, greeting, broadcaster, crash, dropped>>

\* A write or a ping fails, or the context was cancelled.
WriterFails(c) ==
  /\ viewerWriter[c] \in {"waiting", "writing"}
  /\ wire[c] \in {"silent", "down"} \/ done[c]
  /\ WriterReturns(c)

\* The channel is closed and empty: the writer closes the socket.
WriterCloses(c) ==
  /\ viewerWriter[c] = "waiting" /\ ~open[c] /\ buffered[c] = 0
  /\ WriterReturns(c)

-----------------------------------------------------------------------------
WireLost(c) ==
  /\ wire[c] = "up"
  /\ \E state \in {"silent", "down"} : wire' = [wire EXCEPT ![c] = state]
  /\ UNCHANGED <<hubSide, open, buffered, done, viewerReader, viewerWriter, greeting, broadcaster, crash, dropped>>

RunStep == \/ RunTakes
           \/ \E c \in Viewers : RunRegisters(c) \/ RunUnregisters(c) \/ RunOffers(c)
ViewerReads(c)  == ReaderLeaves(c) \/ ReaderPinged(c) \/ ReaderPongs(c)
ViewerWrites(c) == WriterTakes(c) \/ WriterWrites(c) \/ WriterFails(c) \/ WriterCloses(c)

ConsoleNext ==
  /\ crash = {}   \* a panic ends the program
  /\ \/ RunStep
     \/ \E b \in Broadcasters : BroadcastBegins(b) \/ BroadcastEnds(b)
     \/ \E c \in Viewers : \/ ViewerComes(c) \/ ViewerReads(c) \/ Greets(c) \/ ViewerWrites(c)
                           \/ WireLost(c)

ConsoleSpec == ConsoleInit /\ [][ConsoleNext]_consoleVars

\* Every goroutine of the program runs on: the pumps, whose reads and writes
\* have deadlines, the greeting, the ticker.  Run's select takes each of its
\* cases that is ready again and again; blocked senders are served in order; a
\* socket whose other end is silent takes what its buffer holds, and then fails.
Going == crash = {}
ConsoleFairness ==
  /\ WF_consoleVars(Going /\ \E c \in Viewers : RunOffers(c))
  /\ SF_consoleVars(Going /\ RunTakes)
  /\ WF_consoleVars(Going /\ BroadcastBegins(Ticker))
  /\ \A b \in Broadcasters : SF_consoleVars(Going /\ BroadcastEnds(b))
  /\ \A c \in Viewers : /\ SF_consoleVars(Going /\ RunRegisters(c))
                        /\ SF_consoleVars(Going /\ RunUnregisters(c))
                        /\ WF_consoleVars(Going /\ ReaderLeaves(c))
                        /\ SF_consoleVars(Going /\ ReaderPongs(c))
                        /\ WF_consoleVars(Going /\ ViewerWrites(c))
                        /\ SF_consoleVars(Going /\ WriterFails(c))

-----------------------------------------------------------------------------
ConsoleTypeOK ==
  /\ viewers \subseteq Viewers /\ backlog \in 0..BroadcastCap /\ todo \subseteq Viewers
  /\ open \in [Viewers -> BOOLEAN] /\ buffered \in [Viewers -> 0..ViewerCap]
  /\ done \in [Viewers -> BOOLEAN]
  /\ wire \in [Viewers -> {"unused", "up", "silent", "down"}]
  /\ viewerReader \in [Viewers -> {"none", "registering", "reading", "ponging", "leaving", "done"}]
  /\ viewerWriter \in [Viewers -> {"none", "waiting", "writing", "done"}]
  /\ greeting \in [Viewers -> 0..3] /\ broadcaster \in [Broadcasters -> {"idle", "blocked"}]
  /\ crash \subseteq [cause : {"pong", "greeting", "close"}, viewer : Viewers]
  /\ dropped \subseteq Viewers

\* No channel is closed twice, though a slow client is removed by a broadcast
\* (websocket.go:155) and by its own reader, in either order; and the panics the
\* code leaves open have one cause each: a ping is answered after the hub gave
\* its client up as slow, or a client is gone, or given up, before its greeting.
CrashExplained ==
  \A panic \in crash :
    /\ panic.cause # "close"
    /\ panic.cause = "pong" => panic.viewer \in dropped
    /\ panic.cause = "greeting" => panic.viewer \notin viewers

\* A client whose socket is gone, or silent, leaves the registry, also when its
\* reader is stuck with a pong for a buffer that nobody empties any more; or the
\* program ends by one of the panics above.
GoneViewerLeaves ==
  \A c \in Viewers : wire[c] \in {"silent", "down"} ~> c \notin viewers \/ crash # {}
=============================================================================
