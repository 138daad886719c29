---------------------------- MODULE CallService -----------------------------
(***************************************************************************)
(* What Hub.CallAPI (src/internal/websocket/hub.go) promises the           *)
(* goroutines that call it: the connector's commands, the radar, the       *)
(* console's search.  A caller that is inside CallAPI gets at most one     *)
(* answer, to its own request, and is let go with it or with an error.     *)
(* After a restart of the program the answer may be one that a page held   *)
(* over from before, because request ids start again from 1.               *)
(*                                                                         *)
(* ApiHub is the implementation; CallsImplemented there is the mapping.    *)
(***************************************************************************)
CONSTANT Users   \* goroutines that call CallAPI

VARIABLES
  service,       \* is the user inside CallAPI
  outcome,       \* the answer it has got: none, to its own request, or an old one
  restarted      \* has the program been started before

serviceVars == <<service, outcome, restarted>>

ServiceInit ==
  /\ service = [u \in Users |-> "idle"]
  /\ outcome = [u \in Users |-> "none"]
  /\ restarted = FALSE

\* A goroutine enters CallAPI.
Begin(u) ==
  /\ service[u] = "idle"
  /\ service' = [service EXCEPT ![u] = "busy"]
  /\ UNCHANGED outcome /\ restarted' = restarted

\* The select of CallAPI takes an answer from the response channel.
Answer(u) ==
  /\ service[u] = "busy" /\ outcome[u] = "none"
  /\ \/ outcome' = [outcome EXCEPT ![u] = "own"]
     \/ restarted /\ outcome' = [outcome EXCEPT ![u] = "old"]
  /\ UNCHANGED service /\ restarted' = restarted

\* CallAPI returns: the answer, or an error when there is none.
Return(u) ==
  /\ service[u] = "busy"
  /\ service' = [service EXCEPT ![u] = "idle"]
  /\ outcome' = [outcome EXCEPT ![u] = "none"]
  /\ restarted' = restarted

\* The program ends and is started again; its goroutines are gone.
ServiceRestart ==
  /\ service' = [u \in Users |-> "idle"]
  /\ outcome' = [u \in Users |-> "none"]
  /\ restarted' = TRUE

ServiceNext == ServiceRestart \/ \E u \in Users : Begin(u) \/ Answer(u) \/ Return(u)

ServiceSpec == ServiceInit /\ [][ServiceNext]_serviceVars
=============================================================================
