--------------------------- MODULE DownloadQueue ----------------------------
(***************************************************************************)
(* The download queue: src/internal/services/queue_service.go over the     *)
(* tables of src/internal/database/queue_repository.go and                 *)
(* download_repository.go, called by the console's handlers                *)
(* (src/internal/handlers/console_api.go), each request in a goroutine of  *)
(* its own.  One SQL statement is one step; between two of them another    *)
(* request, or the end of the program, may come.                           *)
(*                                                                         *)
(* A row is named by its place in the order of insertion.  The queue's     *)
(* table keeps no video unique; the records' table does, because everyone  *)
(* writes a record under the id of its video.                              *)
(*                                                                         *)
(* Abstracted: what a row says beyond its video and status; priorities,    *)
(* which only order the list that is shown; the broadcasts to the console; *)
(* the operations of queue_service.go nothing calls but the chunked        *)
(* downloader, which nothing starts.  Rows a former version left behind    *)
(* may have any status.                                                    *)
(***************************************************************************)
EXTENDS Integers, FiniteSets

CONSTANTS
  Videos,
  NoVideo,
  Finishers,     \* requests to complete a row that may run at once
  Togglers,      \* requests to pause or resume a row that may run at once
  MaxRows,       \* bound: rows ever inserted
  MaxEvents      \* bound: rows failed or removed, records made or deleted from elsewhere

ASSUME DownloadQueueAssumption ==
  /\ NoVideo \notin Videos
  /\ {MaxRows, MaxEvents} \subseteq Nat

Rows == 1..MaxRows
Live == {"pending", "downloading"}
Statuses == Live \cup {"paused", "completed", "failed"}
RecordStatuses == {"completed", "in_progress", "failed"}

VARIABLES
  rowCount,      \* rows inserted so far
  rowVideo, rowStatus,   \* download_queue; status "none" before the insert and after the delete
  record,        \* download_records: the status of a video's record, or "none"
  finish, finishRow,     \* where a CompleteDownload is, and its row
  toggle, toggleRow,     \* where a Pause or Resume is: the status it will write, or "idle"
  events,
  unrecorded     \* history: completed rows whose record is known to be missing, see CompletedIsRecorded

tableVars   == <<rowCount, rowVideo, rowStatus, record>>
handlerVars == <<finish, finishRow, toggle, toggleRow>>
queueVars   == <<tableVars, handlerVars, events, unrecorded>>

\* One row of a former run may be there, and a record of any status.
QueueInit ==
  /\ rowCount \in {0, 1} /\ rowCount <= MaxRows
  /\ \E v \in Videos, s \in Statuses :
       /\ rowVideo = [i \in Rows |-> IF i <= rowCount THEN v ELSE NoVideo]
       /\ rowStatus = [i \in Rows |-> IF i <= rowCount THEN s ELSE "none"]
  /\ \E v \in Videos, s \in RecordStatuses \cup {"none"} :
       record = [w \in Videos |-> IF w = v THEN s ELSE "none"]
  /\ finish = [f \in Finishers |-> "idle"] /\ finishRow = [f \in Finishers |-> 0]
  /\ toggle = [g \in Togglers |-> "idle"] /\ toggleRow = [g \in Togglers |-> 0]
  /\ events = 0
  /\ unrecorded = {i \in Rows : rowStatus[i] = "completed" /\ record[rowVideo[i]] # "completed"}

There(i) == rowStatus[i] # "none"

-----------------------------------------------------------------------------
(* One statement each                                                      *)

\* QueueRepository.Add, one video at a time.
Insert(v) ==
  /\ rowCount < MaxRows
  /\ rowCount' = rowCount + 1
  /\ rowVideo' = [rowVideo EXCEPT ![rowCount + 1] = v]
  /\ rowStatus' = [rowStatus EXCEPT ![rowCount + 1] = "pending"]
  /\ UNCHANGED record

\* HandleQueueAdd.
QueueAdd(v) ==
  /\ Insert(v)
  /\ UNCHANGED <<handlerVars, events, unrecorded>>

\* HandleQueueFail: SetError, whatever the status was.
QueueFail(i) ==
  /\ events < MaxEvents /\ There(i)
  /\ rowStatus' = [rowStatus EXCEPT ![i] = "failed"]
  /\ events' = events + 1
  /\ unrecorded' = unrecorded \ {i}
  /\ UNCHANGED <<rowCount, rowVideo, record, handlerVars>>

\* HandleQueueRemove.
QueueRemove(i) ==
  /\ events < MaxEvents /\ There(i)
  /\ rowStatus' = [rowStatus EXCEPT ![i] = "none"]
  /\ events' = events + 1
  /\ unrecorded' = unrecorded \ {i}
  /\ UNCHANGED <<rowCount, rowVideo, record, handlerVars>>

-----------------------------------------------------------------------------
(* Pause and Resume: a look at the status, then UpdateStatus               *)

ToggleLook(g, i) ==
  /\ toggle[g] = "idle"
  /\ rowStatus[i] \in {"downloading", "paused"}
  /\ toggle' = [toggle EXCEPT ![g] = IF rowStatus[i] = "paused" THEN "pending" ELSE "paused"]
  /\ toggleRow' = [toggleRow EXCEPT ![g] = i]
  /\ UNCHANGED <<tableVars, finish, finishRow, events, unrecorded>>

ToggleWrite(g) ==
  /\ toggle[g] # "idle"
  /\ LET i == toggleRow[g] IN
     IF There(i)
     THEN /\ rowStatus' = [rowStatus EXCEPT ![i] = toggle[g]]
          /\ unrecorded' = unrecorded \ {i}
     ELSE UNCHANGED <<rowStatus, unrecorded>>
  /\ toggle' = [toggle EXCEPT ![g] = "idle"]
  /\ toggleRow' = [toggleRow EXCEPT ![g] = 0]
  /\ UNCHANGED <<rowCount, rowVideo, record, finish, finishRow, events>>

-----------------------------------------------------------------------------
(* CompleteDownload                                                        *)

FinishTurns(f, pc) ==
  /\ finish' = [finish EXCEPT ![f] = pc]
  /\ finishRow' = [finishRow EXCEPT ![f] = IF pc = "idle" THEN 0 ELSE @]

\* The row is read; a completed one is left alone.
FinishReads(f, i) ==
  /\ finish[f] = "idle"
  /\ There(i) /\ rowStatus[i] # "completed"
  /\ finish' = [finish EXCEPT ![f] = "updating"]
  /\ finishRow' = [finishRow EXCEPT ![f] = i]
  /\ UNCHANGED <<tableVars, toggle, toggleRow, events, unrecorded>>

\* Update writes every column of what was read, with the status completed; an
\* error, or no such row any more, ends the request.
FinishUpdates(f) ==
  /\ finish[f] = "updating"
  /\ \/ /\ There(finishRow[f])
        /\ rowStatus' = [rowStatus EXCEPT ![finishRow[f]] = "completed"]
        /\ FinishTurns(f, "looking")
     \/ /\ UNCHANGED rowStatus
        /\ FinishTurns(f, "idle")
  /\ UNCHANGED <<rowCount, rowVideo, record, toggle, toggleRow, events, unrecorded>>

\* Mutant of FinishLooks: any record that exists will do.
FinishTrustsRecord(f) ==
  /\ finish[f] = "looking"
  /\ FinishTurns(f, IF record[rowVideo[finishRow[f]]] = "none" THEN "creating" ELSE "idle")
  /\ UNCHANGED <<tableVars, toggle, toggleRow, events, unrecorded>>

\* Is there a record of the video, and is it completed?
FinishLooks(f) ==
  /\ finish[f] = "looking"
  /\ LET found == record[rowVideo[finishRow[f]]]
     IN  FinishTurns(f, CASE found = "none" -> "creating"
                          [] found = "completed" -> "idle"
                          [] OTHER -> "mending")
  /\ UNCHANGED <<tableVars, toggle, toggleRow, events, unrecorded>>

CompletedRows(v) == {i \in Rows : rowVideo[i] = v /\ rowStatus[i] = "completed"}

\* The record is updated; the error, also that it is gone, is ignored.
FinishMends(f) ==
  /\ finish[f] = "mending"
  /\ LET v == rowVideo[finishRow[f]] IN
     \/ /\ record[v] # "none"
        /\ record' = [record EXCEPT ![v] = "completed"]
        /\ unrecorded' = unrecorded \ CompletedRows(v)
     \/ /\ UNCHANGED record
        /\ unrecorded' = unrecorded \cup CompletedRows(v)
  /\ FinishTurns(f, "idle")
  /\ UNCHANGED <<rowCount, rowVideo, rowStatus, toggle, toggleRow, events>>

\* INSERT OR REPLACE under the id of the video; an error is only printed.
FinishCreates(f) ==
  /\ finish[f] = "creating"
  /\ LET v == rowVideo[finishRow[f]] IN
     \/ /\ record' = [record EXCEPT ![v] = "completed"]
        /\ unrecorded' = unrecorded \ CompletedRows(v)
     \/ /\ UNCHANGED record
        /\ unrecorded' = unrecorded \cup CompletedRows(v)
  /\ FinishTurns(f, "idle")
  /\ UNCHANGED <<rowCount, rowVideo, rowStatus, toggle, toggleRow, events>>

-----------------------------------------------------------------------------
(* The records from elsewhere, and the end of the program                  *)

\* A batch, a page's download or the record interface writes a record.
RecordMade(v) ==
  /\ events < MaxEvents
  /\ record' = [record EXCEPT ![v] = "completed"]
  /\ events' = events + 1
  /\ unrecorded' = unrecorded \ CompletedRows(v)
  /\ UNCHANGED <<rowCount, rowVideo, rowStatus, handlerVars>>

\* The console deletes it, or the clean-up of old records does.
RecordDeleted(v) ==
  /\ events < MaxEvents /\ record[v] # "none"
  /\ record' = [record EXCEPT ![v] = "none"]
  /\ events' = events + 1
  /\ unrecorded' = unrecorded \cup CompletedRows(v)
  /\ UNCHANGED <<rowCount, rowVideo, rowStatus, handlerVars>>

\* The tables stay, the requests are gone; rows they had completed may lack a record.
QueueRestart ==
  /\ events < MaxEvents
  /\ events' = events + 1
  /\ unrecorded' = unrecorded \cup
       {i \in Rows : rowStatus[i] = "completed" /\ record[rowVideo[i]] # "completed"}
  /\ finish' = [f \in Finishers |-> "idle"] /\ finishRow' = [f \in Finishers |-> 0]
  /\ toggle' = [g \in Togglers |-> "idle"] /\ toggleRow' = [g \in Togglers |-> 0]
  /\ UNCHANGED tableVars

FinishStep(f) == \/ FinishUpdates(f) \/ FinishLooks(f) \/ FinishMends(f) \/ FinishCreates(f)
                 \/ \E i \in Rows : FinishReads(f, i)

QueueStep ==
  \/ \E v \in Videos : QueueAdd(v) \/ RecordMade(v) \/ RecordDeleted(v)
  \/ \E i \in Rows : QueueFail(i) \/ QueueRemove(i)
  \/ \E g \in Togglers : ToggleWrite(g) \/ \E i \in Rows : ToggleLook(g, i)
  \/ \E f \in Finishers : FinishStep(f)

QueueNext == QueueStep \/ QueueRestart

QueueSpec == QueueInit /\ [][QueueNext]_queueVars

-----------------------------------------------------------------------------
QueueTypeOK ==
  /\ rowCount \in 0..MaxRows
  /\ rowVideo \in [Rows -> Videos \cup {NoVideo}]
  /\ rowStatus \in [Rows -> Statuses \cup {"none"}]
  /\ \A i \in Rows : There(i) => i <= rowCount /\ rowVideo[i] # NoVideo
  /\ record \in [Videos -> RecordStatuses \cup {"none"}]
  /\ finish \in [Finishers -> {"idle", "updating", "looking", "mending", "creating"}]
  /\ toggle \in [Togglers -> {"idle", "pending", "paused"}]
  /\ finishRow \in [Finishers -> 0..MaxRows] /\ toggleRow \in [Togglers -> 0..MaxRows]
  /\ events \in 0..MaxEvents /\ unrecorded \subseteq Rows

\* A request that has completed a row of v has yet to look for the record, or write it.
OnItsWay(v) == \E f \in Finishers : finish[f] \in {"looking", "mending", "creating"}
                                   /\ rowVideo[finishRow[f]] = v

\* A completed row has a completed record of its video, whichever requests ran
\* at once, once those for the video are through, unless its record was deleted,
\* could not be written (queue_service.go:290 only prints that) or the program
\* ended between the two tables.  Nothing makes up for it later: CompleteDownload
\* returns at once for a completed row.
CompletedIsRecorded ==
  \A i \in Rows : rowStatus[i] = "completed" =>
    record[rowVideo[i]] = "completed" \/ i \in unrecorded \/ OnItsWay(rowVideo[i])
=============================================================================
