----------------------------- MODULE MCSettles ------------------------------
(***************************************************************************)
(* What must come to an end, each scenario alone as in MCServices: a lost  *)
(* link, a stop of the radar and a console's departure, under the fairness *)
(* of their modules.                                                       *)
(***************************************************************************)
EXTENDS Connector, Radar, ConsoleHub

VARIABLE scenario

settlesVars == <<connectorVars, pollingVars, consoleVars, scenario>>

Init ==
  /\ scenario \in {"link", "radar", "console"}
  /\ ConnectorInit /\ RadarInit /\ ConsoleInit
  /\ scenario # "radar" => rowCount = 0 /\ (\A v \in Videos : record[v] = "none") /\ \A t \in Targets : ~due[t]

Next ==
  /\ \/ scenario = "link" /\ ConnectorNext
        /\ UNCHANGED <<pollingVars, consoleVars>>
     \/ scenario = "radar" /\ RadarNext
        /\ UNCHANGED <<connectorVars, consoleVars>>
     \/ scenario = "console" /\ ConsoleNext
        /\ UNCHANGED <<connectorVars, pollingVars>>
  /\ UNCHANGED scenario

Spec ==
  /\ Init /\ [][Next]_settlesVars
  /\ scenario = "link" => ConnectorFairness
  /\ scenario = "radar" => RadarFairness
  /\ scenario = "console" => ConsoleFairness
=============================================================================
