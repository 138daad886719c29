----------------------------- MODULE MCServices -----------------------------
(***************************************************************************)
(* The services of the two programs on small instances, for TLC.  They     *)
(* meet only through what the modules already model (the calls through the *)
(* API hub, the rows of the queue, the link to the cloud), so each         *)
(* scenario explores one of them alone, from all its initial states, and   *)
(* leaves the others as they begin.  "sync" and "link" are the two halves  *)
(* of the connector, "radar" and "targets" those of the radar: a half runs *)
(* every action of its component that concerns it, and the guard of the    *)
(* scenario names what it holds still.                                     *)
(***************************************************************************)
EXTENDS SyncPusher, Radar, ConsoleHub, Uploads, SingleDownload, PocBridge, CommentPages, WorkSearch,
        CertSmoke

CONSTANTS r1, r2, t1, t2, f1, b1, y2

\* One row of each table.
KindOfRecord == (r1 :> "browse") @@ (r2 :> "download")

\* Comments "a", "b" and "c" on two pages and an empty one, with their replies; of
\* "a" and "b" the page shows one and there are more.
CommentPagesMC == <<<<"a">>, <<"b", "c">>, <<>>>>
EmbeddedMC     == ("a" :> <<"a1">>) @@ ("b" :> <<"b1">>) @@ ("c" :> <<>>)
ReplyPagesMC   == ("a" :> <<<<"a1", "a2">>, <<"a3">>>>) @@ ("b" :> <<<<"b1">>, <<"b2">>>>) @@ ("c" :> <<>>)
\* Limits that are met, exceeded by one, and never reached.
LimitsMC == [top : {2, 4}, perRoot : {1, 2, 3}, perWork : {2, 3, 4, 6}]

VARIABLE scenario

servicesVars == <<cloudVars, pollingVars, consoleVars, uploadVars, singleVars, bridgeVars, commentVars,
                  searchVars, smokeVars, scenario>>

Init ==
  /\ scenario \in {"link", "sync", "queue", "radar", "targets", "console", "uploads", "single",
                  "bridge", "comments", "search", "smoke"}
  /\ CloudInit /\ ConsoleInit /\ UploadInit /\ SingleInit /\ BridgeInit /\ CommentInit /\ SearchInit
  /\ RadarInit /\ SmokeInit
  /\ scenario # "smoke" => ~foreign
  /\ scenario \notin {"queue", "radar", "targets"} => rowCount = 0 /\ \A v \in Videos : record[v] = "none"
  /\ scenario \notin {"radar", "targets"} => \A t \in Targets : ~due[t]
  /\ scenario # "comments" => limits = [top |-> 2, perRoot |-> 1, perWork |-> 2]
  /\ scenario = "radar" => ~due[t2]
  /\ scenario = "targets" => rowCount = 0 /\ \A v \in Videos : record[v] = "none"

\* Peers that differ by name only are named in the order in which they come.
Turns(order, Came(_)) == \A i \in 1..Len(order) - 1 : Came(order[i + 1]) => Came(order[i])
CommandOrder == SetToSeq(Commands)
ViewerOrder  == SetToSeq(Viewers)
ChunkerOrder == SetToSeq(Chunkers)
MergerOrder  == SetToSeq(Mergers)
SocketOrder  == SetToSeq(Sockets)
AskerOrder   == SetToSeq(Askers)
CommandCame(m) == command[m] # "unsent"
ViewerCame(c)  == wire[c] # "unused"
ChunkerCame(c) == chunker[c].at # "unsent"
MergerCame(m)  == writer[m].at # "unsent"
SocketCame(p)  == pageSocket[p] # "new"
AskerCame(r)   == asker[r].at # "unsent"
InTurn ==
  /\ Turns(CommandOrder, CommandCame) /\ Turns(ViewerOrder, ViewerCame) /\ Turns(ChunkerOrder, ChunkerCame)
  /\ Turns(MergerOrder, MergerCame) /\ Turns(SocketOrder, SocketCame) /\ Turns(AskerOrder, AskerCame)

\* The connector: commands, and links that come, fall silent and go.
LinkNext == scenario = "link" /\ ConnectorNext /\ UNCHANGED syncVars
\* The pushes over it; its heartbeats never get as far as to find it dead, nor its
\* metrics that it is gone, and no command comes.
SyncNext ==
  /\ scenario = "sync" /\ CloudNext
  /\ \A n \in Links : beat'[n] \in {"none", "beginning"} /\ meter'[n] # "ended"
  /\ UNCHANGED command
\* The queue alone, the program restarted under it.
RowsNext == scenario = "queue" /\ QueueNext /\ rowCount' <= 2 /\ UNCHANGED radarVars
\* The radar beside a queue that changes under it: one target, no Stop, one event.
RadarQueues ==
  /\ scenario = "radar" /\ RadarNext
  /\ UNCHANGED <<target, toggle>> /\ ~due'[t2] /\ events' <= 1
  /\ stopper' = "idle" /\ editor' = "idle"
  /\ \A f \in Finishers \ {f1} : finish'[f] = finish[f]
\* The radar, its targets edited and itself stopped: no row is ever queued.
RadarEdited ==
  /\ scenario = "targets" /\ RadarNext
  /\ UNCHANGED <<rowCount, record, events>>

\* The console's hub: one client does all a client can, another only listens.
ClientsNext ==
  /\ scenario = "console" /\ ConsoleNext
  /\ \A i \in 2..Len(ViewerOrder) : /\ viewerReader'[ViewerOrder[i]] # "ponging"
                                   /\ greeting'[ViewerOrder[i]] >= 2

\* Downloads of one video at a time: the second request may ask for another video or
\* be forced; the third comes only if all of them ask for one video.
AsksNext ==
  /\ scenario = "single" /\ SingleNext
  /\ \A i \in 1..Len(AskerOrder) : i # 2 => asker'[AskerOrder[i]].clip # y2 /\ ~asker'[AskerOrder[i]].force
  /\ \A c \in Cancellers : canceller'[c].clip # y2
  /\ \A i \in 3..Len(AskerOrder) : asker'[AskerOrder[i]].at # "unsent" =>
       /\ asker'[AskerOrder[2]].clip # y2 /\ \A f \in temp' \cup stored' : f.clip # y2

\* The bridge: the second page to come does not ping.
PageNext ==
  /\ scenario = "bridge" /\ BridgeNext
  /\ \A i \in 2..Len(SocketOrder) : reader'[SocketOrder[i]].at # "ponging"

Next ==
  /\ \/ (LinkNext \/ SyncNext) /\ UNCHANGED <<pollingVars, consoleVars, uploadVars, singleVars, bridgeVars>>
     \/ (RowsNext \/ RadarQueues \/ RadarEdited) /\ UNCHANGED <<cloudVars, consoleVars, uploadVars, singleVars, bridgeVars>>
     \/ ClientsNext /\ UNCHANGED <<cloudVars, pollingVars, uploadVars, singleVars, bridgeVars>>
     \/ scenario = "uploads" /\ UploadNext /\ UNCHANGED <<cloudVars, pollingVars, consoleVars, singleVars, bridgeVars>>
     \/ AsksNext /\ UNCHANGED <<cloudVars, pollingVars, consoleVars, uploadVars, bridgeVars>>
     \/ PageNext /\ UNCHANGED <<cloudVars, pollingVars, consoleVars, uploadVars, singleVars>>
     \/ /\ \/ scenario = "comments" /\ CommentNext /\ UNCHANGED searchVars
           \/ scenario = "search" /\ SearchNext /\ UNCHANGED commentVars
           \/ scenario = "smoke" /\ SmokeNext /\ UNCHANGED <<commentVars, searchVars>>
        /\ UNCHANGED <<cloudVars, pollingVars, consoleVars, uploadVars, singleVars, bridgeVars>>
  /\ scenario \notin {"comments", "search", "smoke"} => UNCHANGED <<commentVars, searchVars>>
  /\ scenario # "smoke" => UNCHANGED smokeVars
  /\ UNCHANGED scenario /\ InTurn'

Spec == Init /\ [][Next]_servicesVars

\* What every variable of the scenario's component may hold; the others do not move.
ServicesTypeOK ==
  /\ scenario \in {"link", "sync"} => ConnectorTypeOK /\ SyncTypeOK
  /\ scenario \in {"queue", "radar", "targets"} => QueueTypeOK /\ RadarTypeOK
  /\ scenario = "console" => ConsoleTypeOK
  /\ scenario = "uploads" => UploadTypeOK
  /\ scenario = "single" => SingleTypeOK
  /\ scenario = "bridge" => BridgeTypeOK
  /\ scenario = "comments" => CommentTypeOK
  /\ scenario = "search" => SearchTypeOK
  /\ scenario = "smoke" => SmokeTypeOK
=============================================================================
