------------------------------- MODULE Radar --------------------------------
(***************************************************************************)
(* The radar, src/internal/services/radar_service.go: a goroutine that     *)
(* once a minute asks a page, through Hub.CallAPI, for the newest videos   *)
(* of every target that is due, and puts what is new into the download     *)
(* queue, beside the console's requests on the queue (DownloadQueue) and   *)
(* on the targets (src/internal/api/radar.go).                             *)
(*                                                                         *)
(* Abstracted: times, so that a target is due or is not; the order of the  *)
(* targets and of the videos of an answer; what the log rows say.  The     *)
(* statements on the radar's two tables are taken to succeed, their errors *)
(* being ignored, but for the foreign key of a log row.                    *)
(***************************************************************************)
EXTENDS DownloadQueue

CONSTANTS
  Targets,
  NoTarget,
  MaxEdits       \* bound: changes of targets, and times they come due again

ASSUME RadarAssumption == NoTarget \notin Targets /\ MaxEdits \in Nat

VARIABLES
  poller,        \* where the poller is
  ticker,        \* s.ticker # nil
  context,       \* s.ctx is not cancelled
  stopper,       \* where Stop is
  target,        \* radar_targets: "none", "active" or "paused"
  due,           \* last_check_time is an interval ago, or there is none
  agenda,        \* targets left of this round, as checkTargets read them
  online,        \* hasClient
  subject,       \* the target being processed
  found,         \* videos of the answer that are left
  candidate,     \* the one whose record was looked up
  editor, editorTarget, editorDue,   \* an UpdateTarget, and what it read
  radarCall, radarResult,            \* the state of CallService for the poller
  edits,
  seenRows,      \* history: rowCount when the candidate's record was looked up
  hidden         \* history: the row the candidate was compared with, if one was found

pollVars    == <<poller, agenda, online, subject, found, candidate>>
stopVars    == <<ticker, context, stopper>>
targetVars  == <<target, due>>
editVars    == <<editor, editorTarget, editorDue, edits>>
serviceSide == <<radarCall, radarResult>>
radarHist   == <<seenRows, hidden>>
radarVars   == <<pollVars, stopVars, targetVars, editVars, serviceSide, radarHist>>
pollingVars == <<queueVars, radarVars>>

Hub == INSTANCE CallService WITH
  Users <- {"radar"}, service <- radarCall, outcome <- radarResult, restarted <- FALSE

RadarInit ==
  /\ QueueInit
  /\ poller = "off" /\ ticker = FALSE /\ context = TRUE /\ stopper = "idle"
  /\ target = [t \in Targets |-> "active"]
  /\ due \in [Targets -> BOOLEAN]
  /\ agenda = {} /\ online = FALSE /\ subject = NoTarget
  /\ found = {} /\ candidate = NoVideo
  /\ editor = "idle" /\ editorTarget = NoTarget /\ editorDue = FALSE /\ edits = 0
  /\ radarCall = [u \in {"radar"} |-> "idle"] /\ radarResult = [u \in {"radar"} |-> "none"]
  /\ seenRows = 0 /\ hidden = 0

-----------------------------------------------------------------------------
(* Start and Stop: each is called once, at the start and at the end of the *)
(* program                                                                 *)

RadarStart ==
  /\ poller = "off" /\ stopper = "idle"
  /\ ticker' = TRUE
  /\ poller' = "sleeping"
  /\ UNCHANGED <<queueVars, agenda, online, subject, found, candidate, context, stopper, targetVars,
                 editVars, serviceSide, radarHist>>

\* The ticker is forgotten under the lock, the context cancelled after it.
StopForgets ==
  /\ stopper = "idle" /\ ticker
  /\ ticker' = FALSE
  /\ stopper' = "cancelling"
  /\ UNCHANGED <<queueVars, pollVars, context, targetVars, editVars, serviceSide, radarHist>>

StopCancels ==
  /\ stopper = "cancelling"
  /\ context' = FALSE
  /\ stopper' = "waiting"
  /\ UNCHANGED <<queueVars, pollVars, ticker, targetVars, editVars, serviceSide, radarHist>>

StopReturns ==
  /\ stopper = "waiting" /\ poller = "returned"
  /\ stopper' = "returned"
  /\ UNCHANGED <<queueVars, pollVars, ticker, context, targetVars, editVars, serviceSide, radarHist>>

-----------------------------------------------------------------------------
(* The poller                                                              *)

\* The select evaluates s.ticker.C on every round: with the ticker forgotten
\* the goroutine panics, and the program with it.
PollSelect ==
  /\ poller = "selecting"
  /\ poller' = IF ticker THEN "waiting" ELSE "crashed"
  /\ UNCHANGED <<queueVars, agenda, online, subject, found, candidate, stopVars, targetVars, editVars,
                 serviceSide, radarHist>>

PollReturns ==
  /\ poller = "waiting" /\ ~context
  /\ poller' = "returned"
  /\ UNCHANGED <<queueVars, agenda, online, subject, found, candidate, stopVars, targetVars, editVars,
                 serviceSide, radarHist>>

\* The first ten seconds are over, or the ticker fires: checkTargets reads the
\* active targets and whether a page is connected.
PollChecks ==
  /\ poller \in {"sleeping", "waiting"}
  /\ agenda' = {t \in Targets : target[t] = "active" /\ due[t]}
  /\ online' \in (IF agenda' = {} THEN {FALSE} ELSE BOOLEAN)
  /\ poller' = IF agenda' = {} THEN "selecting" ELSE "checking"
  /\ UNCHANGED <<queueVars, subject, found, candidate, stopVars, targetVars, editVars, serviceSide,
                 radarHist>>

\* UpdateLastCheckTime of the next target; without a page an error is logged.
CheckBegins(t) ==
  /\ poller = "checking" /\ t \in agenda
  /\ agenda' = agenda \ {t}
  /\ subject' = t
  /\ due' = [due EXCEPT ![t] = IF target[t] = "none" THEN @ ELSE FALSE]
  /\ poller' = IF online THEN "asking" ELSE "logging"
  /\ UNCHANGED <<queueVars, online, found, candidate, stopVars, target, editVars, serviceSide,
                 radarHist>>

CheckCalls ==
  /\ poller = "asking"
  /\ Hub!Begin("radar")
  /\ poller' = "called"
  /\ UNCHANGED <<queueVars, agenda, online, subject, found, candidate, stopVars, targetVars, editVars,
                 radarHist>>

CheckAnswered ==
  /\ Hub!Answer("radar")
  /\ UNCHANGED <<queueVars, pollVars, stopVars, targetVars, editVars, radarHist>>

\* Mutant of CheckReturns: CallAPI has no timeout.
ReturnsWithAnswer ==
  /\ poller = "called" /\ radarResult["radar"] # "none"
  /\ Hub!Return("radar")
  /\ found' \in SUBSET Videos
  /\ poller' = IF found' = {} THEN "logging" ELSE "scanning"
  /\ UNCHANGED <<queueVars, agenda, online, subject, candidate, stopVars, targetVars, editVars,
                 radarHist>>

\* CallAPI returns: an error, an answer that says nothing usable, or videos.
CheckReturns ==
  /\ poller = "called"
  /\ Hub!Return("radar")
  /\ found' \in (IF radarResult["radar"] = "none" THEN {{}} ELSE SUBSET Videos)
  /\ poller' = IF found' = {} THEN "logging" ELSE "scanning"
  /\ UNCHANGED <<queueVars, agenda, online, subject, candidate, stopVars, targetVars, editVars,
                 radarHist>>

NextVideo(v) ==
  /\ found' = found \ {v}
  /\ candidate' = NoVideo /\ seenRows' = 0 /\ hidden' = 0
  /\ poller' = IF found' = {} THEN "logging" ELSE "scanning"

\* The record of a video decides, and without one the queue does.
ScanRecord(v) ==
  /\ poller = "scanning" /\ v \in found
  /\ IF record[v] \in {"completed", "in_progress"} THEN NextVideo(v)
     ELSE /\ candidate' = v /\ seenRows' = rowCount
          /\ poller' = "comparing"
          /\ UNCHANGED <<found, hidden>>
  /\ UNCHANGED <<queueVars, agenda, online, subject, stopVars, targetVars, editVars, serviceSide>>

RowsOf(v) == {i \in Rows : There(i) /\ rowVideo[i] = v}

\* Mutant of LookedUp: the newest row instead of the oldest.
LookedUpNewest(v) ==
  IF RowsOf(v) = {} THEN 0 ELSE CHOOSE i \in RowsOf(v) : \A j \in RowsOf(v) : j <= i

\* GetByVideoID takes the first row it finds, without an order: SQLite reads the
\* table by row id, so this is the oldest.
LookedUp(v) ==
  IF RowsOf(v) = {} THEN 0 ELSE CHOOSE i \in RowsOf(v) : \A j \in RowsOf(v) : i <= j

\* A pending, downloading or completed row is enough; one that is paused or has
\* failed is not.  A video without an address is passed over.
ScanQueue ==
  /\ poller = "comparing"
  /\ LET i == LookedUp(candidate) IN
     \/ NextVideo(candidate)
     \/ /\ i # 0 => rowStatus[i] \in {"paused", "failed"}
        /\ hidden' = i
        /\ poller' = "adding"
        /\ UNCHANGED <<found, candidate, seenRows>>
  /\ UNCHANGED <<queueVars, agenda, online, subject, stopVars, targetVars, editVars, serviceSide>>

ScanAdds ==
  /\ poller = "adding"
  /\ Insert(candidate)
  /\ NextVideo(candidate)
  /\ UNCHANGED <<handlerVars, events, unrecorded, agenda, online, subject, stopVars, targetVars,
                 editVars, serviceSide>>

\* AddToQueue fails, which is only logged; so does the video when rows run out.
ScanAddFails ==
  /\ poller = "adding"
  /\ NextVideo(candidate)
  /\ UNCHANGED <<queueVars, agenda, online, subject, stopVars, targetVars, editVars, serviceSide>>

\* AddLog; the foreign key refuses the log of a target that was deleted.
CheckLogs ==
  /\ poller = "logging"
  /\ subject' = NoTarget
  /\ poller' = IF agenda = {} THEN "selecting" ELSE "checking"
  /\ UNCHANGED <<queueVars, agenda, online, found, candidate, stopVars, targetVars, editVars,
                 serviceSide, radarHist>>

-----------------------------------------------------------------------------
(* Time, and the console's requests on the targets                         *)

\* An interval has passed since last_check_time.
ComesDue(t) ==
  /\ edits < MaxEdits /\ ~due[t]
  /\ due' = [due EXCEPT ![t] = TRUE]
  /\ edits' = edits + 1
  /\ UNCHANGED <<queueVars, pollVars, stopVars, target, editor, editorTarget, editorDue, serviceSide,
                 radarHist>>

\* AddTarget; a target that was deleted may be added again, under a new id.
TargetAdded(t) ==
  /\ edits < MaxEdits /\ target[t] = "none" /\ subject # t /\ t \notin agenda /\ editorTarget # t
  /\ target' = [target EXCEPT ![t] = "active"]
  /\ due' = [due EXCEPT ![t] = TRUE]
  /\ edits' = edits + 1
  /\ UNCHANGED <<queueVars, pollVars, stopVars, editor, editorTarget, editorDue, serviceSide, radarHist>>

\* DeleteTarget: its log rows go with it.
TargetDeleted(t) ==
  /\ edits < MaxEdits /\ target[t] # "none"
  /\ target' = [target EXCEPT ![t] = "none"]
  /\ due' = [due EXCEPT ![t] = FALSE]
  /\ edits' = edits + 1
  /\ UNCHANGED <<queueVars, pollVars, stopVars, editor, editorTarget, editorDue, serviceSide,
                 radarHist>>

\* UpdateTargetStatus.
TargetToggled(t) ==
  /\ edits < MaxEdits /\ target[t] # "none"
  /\ target' = [target EXCEPT ![t] = IF @ = "active" THEN "paused" ELSE "active"]
  /\ edits' = edits + 1
  /\ UNCHANGED <<queueVars, pollVars, stopVars, due, editor, editorTarget, editorDue, serviceSide,
                 radarHist>>

\* UpdateTarget reads last_check_time to keep it, and then writes every column.
EditReads(t) ==
  /\ edits < MaxEdits /\ editor = "idle" /\ target[t] # "none"
  /\ editor' = "writing" /\ editorTarget' = t /\ editorDue' = due[t]
  /\ edits' = edits + 1
  /\ UNCHANGED <<queueVars, pollVars, stopVars, targetVars, serviceSide, radarHist>>

EditWrites ==
  /\ editor = "writing"
  /\ \/ /\ target[editorTarget] # "none"
        /\ \E status \in {"active", "paused"} : target' = [target EXCEPT ![editorTarget] = status]
        /\ due' = [due EXCEPT ![editorTarget] = editorDue]
     \/ /\ target[editorTarget] = "none"
        /\ UNCHANGED targetVars
  /\ editor' = "idle" /\ editorTarget' = NoTarget /\ editorDue' = FALSE
  /\ UNCHANGED <<queueVars, pollVars, stopVars, edits, serviceSide, radarHist>>

-----------------------------------------------------------------------------
PollStep ==
  \/ PollSelect \/ PollReturns \/ PollChecks \/ CheckCalls \/ CheckReturns
  \/ ScanQueue \/ ScanAdds \/ ScanAddFails \/ CheckLogs
  \/ \E t \in Targets : CheckBegins(t)
  \/ \E v \in Videos : ScanRecord(v)
StopStep == StopForgets \/ StopCancels \/ StopReturns
TargetStep == \/ EditWrites
              \/ \E t \in Targets : \/ ComesDue(t) \/ TargetAdded(t) \/ TargetDeleted(t)
                                    \/ TargetToggled(t) \/ EditReads(t)

\* Nothing runs on after the panic of the poller.
RadarNext ==
  /\ poller # "crashed"
  /\ \/ RadarStart \/ PollStep \/ CheckAnswered \/ StopStep \/ TargetStep
     \/ QueueStep /\ UNCHANGED radarVars

RadarSpec == RadarInit /\ [][RadarNext]_pollingVars

\* The goroutines of the poller and of Stop run on, and CallAPI has a timeout
\* of 30 seconds.  Time, the page and the console owe nothing.
RadarFairness ==
  /\ WF_pollingVars(PollStep)
  /\ WF_pollingVars(StopCancels \/ StopReturns)

-----------------------------------------------------------------------------
RadarTypeOK ==
  /\ poller \in {"off", "sleeping", "selecting", "waiting", "checking", "asking", "called",
                 "scanning", "comparing", "adding", "logging", "returned", "crashed"}
  /\ ticker \in BOOLEAN /\ context \in BOOLEAN
  /\ stopper \in {"idle", "cancelling", "waiting", "returned"}
  /\ target \in [Targets -> {"none", "active", "paused"}] /\ due \in [Targets -> BOOLEAN]
  /\ agenda \subseteq Targets /\ online \in BOOLEAN /\ subject \in Targets \cup {NoTarget}
  /\ found \subseteq Videos /\ candidate \in Videos \cup {NoVideo}
  /\ editor \in {"idle", "writing"} /\ editorTarget \in Targets \cup {NoTarget}
  /\ editorDue \in BOOLEAN /\ edits \in 0..MaxEdits
  /\ radarCall["radar"] \in {"idle", "busy"} /\ radarResult["radar"] \in {"none", "own"}
  /\ seenRows \in 0..MaxRows /\ hidden \in 0..MaxRows

\* The radar queues a video that waits in the queue already only if that row came
\* while it was looking, or an older row of the video that was paused or had
\* failed stands before it: radar_service.go:301 sees the oldest row only, and
\* from then on queues the video anew on every check until its record is there.
RequeueExplained ==
  [][ScanAdds =>
       \A i \in RowsOf(candidate) :
         rowStatus[i] \in Live => i > seenRows \/ hidden \in 1..i]_pollingVars

\* Stop returns however many targets are left of the round, or the program ends
\* by the panic that awaits a poller that was in the middle of one.
RadarStops == stopper # "idle" ~> stopper = "returned" \/ poller = "crashed"
=============================================================================
