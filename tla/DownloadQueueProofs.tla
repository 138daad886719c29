------------------------ MODULE DownloadQueueProofs -------------------------
(***************************************************************************)
(* CompletedIsRecorded of DownloadQueue, for any videos, requests and      *)
(* bounds; of Radar, that it uses the queue as any client does, and        *)
(* RequeueExplained; and the types of both.                                *)
(*                                                                         *)
(* The argument: the row a CompleteDownload has read was inserted before,  *)
(* so that its video does not change any more; and whichever request is    *)
(* between the two tables when a row becomes completed or a record goes is *)
(* either still on its way or has left the row among the unrecorded.       *)
(* For the radar: a row of the candidate is there from before the look at  *)
(* the queue, and then not older than the oldest, or it came after it.     *)
(***************************************************************************)
EXTENDS Radar, WellFoundedInduction, TLAPS

\* The row a request works on has been inserted.
RowsKnown == \A f \in Finishers : finish[f] # "idle" => finishRow[f] \in 1..rowCount

Inv == QueueTypeOK /\ RowsKnown /\ CompletedIsRecorded

LEMMA InitInv == QueueInit => Inv
<1> SUFFICES ASSUME QueueInit PROVE Inv
  OBVIOUS
<1> USE DownloadQueueAssumption DEF Rows
<1>1. PICK v \in Videos, s \in Statuses :
        /\ rowVideo = [i \in Rows |-> IF i <= rowCount THEN v ELSE NoVideo]
        /\ rowStatus = [i \in Rows |-> IF i <= rowCount THEN s ELSE "none"]
  BY DEF QueueInit
<1>2. PICK u \in Videos, t \in RecordStatuses \cup {"none"} :
        record = [w \in Videos |-> IF w = u THEN t ELSE "none"]
  BY DEF QueueInit
<1>3. rowCount \in 0..MaxRows
  BY DEF QueueInit
<1>4. QueueTypeOK
  BY <1>1, <1>2, <1>3 DEF QueueInit, QueueTypeOK, There
<1>5. RowsKnown /\ CompletedIsRecorded
  BY <1>1 DEF QueueInit, RowsKnown, CompletedIsRecorded
<1> QED BY <1>4, <1>5 DEF Inv

\* Rows come, fail, pause, go on and go.
LEMMA RowKeepsInv ==
  ASSUME Inv,
         \/ \E v \in Videos : QueueAdd(v)
         \/ \E i \in Rows : QueueFail(i) \/ QueueRemove(i)
         \/ \E g \in Togglers : ToggleWrite(g) \/ \E i \in Rows : ToggleLook(g, i)
  PROVE  Inv'
<1> USE DownloadQueueAssumption DEF Rows, tableVars, handlerVars
<1>1. ASSUME NEW v \in Videos, QueueAdd(v)
      PROVE  Inv'
  <2>1. /\ rowCount < MaxRows /\ rowCount' = rowCount + 1 /\ record' = record
        /\ rowVideo' = [rowVideo EXCEPT ![rowCount + 1] = v]
        /\ rowStatus' = [rowStatus EXCEPT ![rowCount + 1] = "pending"]
        /\ UNCHANGED <<finish, finishRow, toggle, toggleRow, events, unrecorded>>
    BY <1>1 DEF QueueAdd, Insert
  <2>2. QueueTypeOK'
    BY <2>1 DEF Inv, QueueTypeOK, Statuses, Live, There
  <2>3. RowsKnown' /\ \A f \in Finishers : finish[f] # "idle" => finishRow[f] # rowCount + 1
    BY <2>1 DEF Inv, QueueTypeOK, RowsKnown
  <2>4. rowCount + 1 \in Rows /\ \A f \in Finishers : finish[f] # "idle" => finishRow[f] \in Rows
    BY <2>1 DEF Inv, QueueTypeOK, RowsKnown
  <2>5. \A j \in Rows \ {rowCount + 1} : rowVideo'[j] = rowVideo[j] /\ rowStatus'[j] = rowStatus[j]
    BY <2>1 DEF Inv, QueueTypeOK
  <2>6. \A w : OnItsWay(w) => OnItsWay(w)'
    BY <2>1, <2>3, <2>4, <2>5 DEF OnItsWay
  <2>7. rowStatus'[rowCount + 1] # "completed"
    BY <2>1, <2>4 DEF Inv, QueueTypeOK
  <2>8. CompletedIsRecorded'
    BY <2>1, <2>5, <2>6, <2>7 DEF Inv, CompletedIsRecorded
  <2> QED BY <2>2, <2>3, <2>8 DEF Inv
<1>2. ASSUME NEW i \in Rows, QueueFail(i) \/ QueueRemove(i)
      PROVE  Inv'
  <2>1. /\ \E s \in {"failed", "none"} : rowStatus' = [rowStatus EXCEPT ![i] = s]
        /\ events' \in 0..MaxEvents /\ unrecorded' = unrecorded \ {i} /\ There(i)
        /\ UNCHANGED <<rowCount, rowVideo, record, finish, finishRow, toggle, toggleRow>>
    BY <1>2 DEF QueueFail, QueueRemove, Inv, QueueTypeOK
  <2>2. QueueTypeOK'
    BY <2>1 DEF Inv, QueueTypeOK, Statuses, Live, There
  <2>3. RowsKnown' /\ \A w : OnItsWay(w)' = OnItsWay(w)
    BY <2>1 DEF Inv, RowsKnown, OnItsWay
  <2>4. CompletedIsRecorded'
    BY <2>1, <2>3 DEF Inv, QueueTypeOK, CompletedIsRecorded
  <2> QED BY <2>2, <2>3, <2>4 DEF Inv
<1>3. ASSUME NEW g \in Togglers, ToggleWrite(g)
      PROVE  Inv'
  <2> DEFINE i == toggleRow[g]
  <2>1. /\ toggle[g] \in {"pending", "paused"} /\ i \in 0..MaxRows
        /\ UNCHANGED <<rowCount, rowVideo, record, finish, finishRow, events>>
        /\ toggle' = [toggle EXCEPT ![g] = "idle"] /\ toggleRow' = [toggleRow EXCEPT ![g] = 0]
    BY <1>3 DEF ToggleWrite, Inv, QueueTypeOK
  <2>2. \/ There(i) /\ rowStatus' = [rowStatus EXCEPT ![i] = toggle[g]]
           /\ unrecorded' = unrecorded \ {i}
        \/ UNCHANGED <<rowStatus, unrecorded>>
    BY <1>3 DEF ToggleWrite
  <2>3. QueueTypeOK'
    <3>1. rowStatus' \in [Rows -> Statuses \cup {"none"}]
      BY <2>1, <2>2 DEF Inv, QueueTypeOK, Statuses, Live, There
    <3>2. \A j \in Rows : There(j)' => There(j)
      BY <2>1, <2>2 DEF Inv, QueueTypeOK, There
    <3>3. toggle' \in [Togglers -> {"idle", "pending", "paused"}] /\ unrecorded' \subseteq Rows
      BY <2>1, <2>2 DEF Inv, QueueTypeOK
    <3>4. toggleRow' \in [Togglers -> 0..MaxRows]
      BY <2>1 DEF Inv, QueueTypeOK
    <3>5. \A j \in Rows : There(j)' => j <= rowCount' /\ rowVideo'[j] # NoVideo
      BY <2>1, <3>2 DEF Inv, QueueTypeOK
    <3> QED BY <2>1, <3>1, <3>3, <3>4, <3>5 DEF Inv, QueueTypeOK
  <2>4. RowsKnown' /\ \A w : OnItsWay(w)' = OnItsWay(w)
    BY <2>1 DEF Inv, RowsKnown, OnItsWay
  <2>5. CompletedIsRecorded'
    BY <2>1, <2>2, <2>4 DEF Inv, QueueTypeOK, CompletedIsRecorded
  <2> QED BY <2>3, <2>4, <2>5 DEF Inv
<1>4. ASSUME NEW g \in Togglers, NEW i \in Rows, ToggleLook(g, i)
      PROVE  Inv'
  BY <1>4 DEF ToggleLook, Inv, QueueTypeOK, RowsKnown, CompletedIsRecorded, There, OnItsWay
<1> QED BY <1>1, <1>2, <1>3, <1>4

\* CompleteDownload.
LEMMA FinishKeepsInv ==
  ASSUME Inv, NEW f \in Finishers, FinishStep(f)
  PROVE  Inv'
<1> USE DownloadQueueAssumption DEF Rows, tableVars, handlerVars
<1>1. ASSUME NEW i \in Rows, FinishReads(f, i)
      PROVE  Inv'
  <2>1. i \in 1..rowCount
    BY <1>1 DEF FinishReads, Inv, QueueTypeOK
  <2>2. /\ finish[f] = "idle" /\ finish' = [finish EXCEPT ![f] = "updating"]
        /\ finishRow' = [finishRow EXCEPT ![f] = i]
        /\ UNCHANGED <<rowCount, rowVideo, rowStatus, record, toggle, toggleRow, events, unrecorded>>
    BY <1>1 DEF FinishReads
  <2>3. QueueTypeOK' /\ RowsKnown'
    BY <2>1, <2>2 DEF Inv, QueueTypeOK, RowsKnown, There
  <2>4. \A w : OnItsWay(w) => OnItsWay(w)'
    BY <2>2 DEF OnItsWay, Inv, QueueTypeOK
  <2>5. CompletedIsRecorded'
    BY <2>2, <2>4 DEF Inv, CompletedIsRecorded
  <2> QED BY <2>3, <2>5 DEF Inv
<1>2. CASE FinishUpdates(f)
  <2> DEFINE i == finishRow[f]
  <2>1. finish[f] = "updating" /\ i \in 1..rowCount /\ i \in Rows
        /\ UNCHANGED <<rowCount, rowVideo, record, toggle, toggleRow, events, unrecorded>>
    BY <1>2 DEF FinishUpdates, Inv, QueueTypeOK, RowsKnown
  <2>2. CASE There(i) /\ rowStatus' = [rowStatus EXCEPT ![i] = "completed"] /\ finishRow' = finishRow
             /\ finish' = [finish EXCEPT ![f] = "looking"]
    <3>1. QueueTypeOK'
      BY <2>1, <2>2 DEF Inv, QueueTypeOK, Statuses, Live, There
    <3>2. RowsKnown'
      BY <2>1, <2>2 DEF Inv, QueueTypeOK, RowsKnown
    <3>3. (\A w : OnItsWay(w) => OnItsWay(w)') /\ OnItsWay(rowVideo[i])'
      BY <2>1, <2>2 DEF Inv, QueueTypeOK, OnItsWay
    <3>4. \A j \in Rows : j # i => rowStatus'[j] = rowStatus[j]
      BY <2>2 DEF Inv, QueueTypeOK
    <3>5. ASSUME NEW j \in Rows, rowStatus'[j] = "completed"
          PROVE  record'[rowVideo[j]] = "completed" \/ j \in unrecorded' \/ OnItsWay(rowVideo[j])'
      <4>1. CASE j = i
        BY <2>1, <2>2, <3>3, <4>1
      <4>2. CASE j # i
        <5>1. record[rowVideo[j]] = "completed" \/ j \in unrecorded \/ OnItsWay(rowVideo[j])
          BY <3>4, <3>5, <4>2 DEF Inv, CompletedIsRecorded
        <5> QED BY <2>1, <3>3, <5>1
      <4> QED BY <4>1, <4>2
    <3>6. CompletedIsRecorded'
      BY <2>1, <3>5 DEF CompletedIsRecorded
    <3> QED BY <3>1, <3>2, <3>6 DEF Inv
  <2>3. CASE rowStatus' = rowStatus /\ finish' = [finish EXCEPT ![f] = "idle"]
             /\ finishRow' = [finishRow EXCEPT ![f] = 0]
    <3>1. QueueTypeOK' /\ RowsKnown'
      BY <2>1, <2>3 DEF Inv, QueueTypeOK, RowsKnown, There
    <3>2. \A w : OnItsWay(w) => OnItsWay(w)'
      BY <2>1, <2>3 DEF OnItsWay, Inv, QueueTypeOK
    <3>3. CompletedIsRecorded'
      BY <2>1, <2>3, <3>2 DEF Inv, CompletedIsRecorded
    <3> QED BY <3>1, <3>3 DEF Inv
  <2>4. finishRow \in [Finishers -> 0..MaxRows]
    BY DEF Inv, QueueTypeOK
  <2> QED BY <1>2, <2>2, <2>3, <2>4 DEF FinishUpdates, FinishTurns
<1>3. CASE FinishLooks(f)
  <2> DEFINE v == rowVideo[finishRow[f]]
  <2>1. finish[f] = "looking" /\ finishRow[f] \in 1..rowCount
        /\ UNCHANGED <<rowCount, rowVideo, rowStatus, record, toggle, toggleRow, events, unrecorded>>
    BY <1>3 DEF FinishLooks, Inv, RowsKnown
  <2>2. finishRow \in [Finishers -> 0..MaxRows]
    BY DEF Inv, QueueTypeOK
  <2>3. CASE record[v] = "completed" /\ finish' = [finish EXCEPT ![f] = "idle"]
             /\ finishRow' = [finishRow EXCEPT ![f] = 0]
    <3>1. QueueTypeOK' /\ RowsKnown'
      BY <2>1, <2>3 DEF Inv, QueueTypeOK, RowsKnown, There
    <3>2. \A w : OnItsWay(w) => OnItsWay(w)' \/ record[w] = "completed"
      BY <2>1, <2>3 DEF OnItsWay, Inv, QueueTypeOK
    <3>3. CompletedIsRecorded'
      BY <2>1, <2>3, <3>2 DEF Inv, CompletedIsRecorded
    <3> QED BY <3>1, <3>3 DEF Inv
  <2>4. CASE finishRow' = finishRow /\ \E pc \in {"creating", "mending"} :
               finish' = [finish EXCEPT ![f] = pc]
    <3>1. QueueTypeOK' /\ RowsKnown'
      BY <2>1, <2>4 DEF Inv, QueueTypeOK, RowsKnown, There
    <3>2. \A w : OnItsWay(w) => OnItsWay(w)'
      BY <2>1, <2>4 DEF OnItsWay, Inv, QueueTypeOK
    <3>3. CompletedIsRecorded'
      BY <2>1, <2>4, <3>2 DEF Inv, CompletedIsRecorded
    <3> QED BY <3>1, <3>3 DEF Inv
  <2>5. \/ record[v] = "completed" /\ FinishTurns(f, "idle")
        \/ FinishTurns(f, "creating") \/ FinishTurns(f, "mending")
    BY <1>3 DEF FinishLooks
  <2> QED BY <2>2, <2>3, <2>4, <2>5 DEF FinishTurns
<1>4. CASE FinishMends(f) \/ FinishCreates(f)
  <2> DEFINE v == rowVideo[finishRow[f]]
  <2>1. /\ finish[f] \in {"mending", "creating"} /\ finishRow[f] \in 1..rowCount
        /\ finish' = [finish EXCEPT ![f] = "idle"] /\ finishRow' = [finishRow EXCEPT ![f] = 0]
        /\ UNCHANGED <<rowCount, rowVideo, rowStatus, toggle, toggleRow, events>>
    BY <1>4 DEF FinishMends, FinishCreates, FinishTurns, Inv, RowsKnown
  <2>2. \/ record' = [record EXCEPT ![v] = "completed"] /\ unrecorded' = unrecorded \ CompletedRows(v)
        \/ record' = record /\ unrecorded' = unrecorded \cup CompletedRows(v)
    BY <1>4 DEF FinishMends, FinishCreates
  <2>3. record' \in [Videos -> RecordStatuses \cup {"none"}] /\ unrecorded' \subseteq Rows
    BY <2>2 DEF Inv, QueueTypeOK, RecordStatuses, CompletedRows
  <2>4. QueueTypeOK' /\ RowsKnown'
    BY <2>1, <2>3 DEF Inv, QueueTypeOK, RowsKnown, There
  <2>5. \A w : w # v /\ OnItsWay(w) => OnItsWay(w)'
    BY <2>1 DEF OnItsWay, Inv, QueueTypeOK
  <2>6. ASSUME NEW j \in Rows, rowStatus'[j] = "completed"
        PROVE  record'[rowVideo[j]] = "completed" \/ j \in unrecorded' \/ OnItsWay(rowVideo[j])'
    <3>1. rowVideo[j] \in Videos /\ rowStatus[j] = "completed"
      BY <2>1, <2>6 DEF Inv, QueueTypeOK, There
    <3>2. CASE rowVideo[j] = v
      BY <2>2, <3>1, <3>2 DEF Inv, QueueTypeOK, CompletedRows
    <3>3. CASE rowVideo[j] # v
      <4>1. record'[rowVideo[j]] = record[rowVideo[j]] /\ (j \in unrecorded => j \in unrecorded')
        BY <2>2, <3>1, <3>3 DEF Inv, QueueTypeOK, CompletedRows
      <4>2. record[rowVideo[j]] = "completed" \/ j \in unrecorded \/ OnItsWay(rowVideo[j])
        BY <3>1 DEF Inv, CompletedIsRecorded
      <4> QED BY <2>1, <2>5, <3>3, <4>1, <4>2
    <3> QED BY <3>2, <3>3
  <2>7. CompletedIsRecorded'
    BY <2>1, <2>6 DEF CompletedIsRecorded
  <2> QED BY <2>4, <2>7 DEF Inv
<1> QED BY <1>1, <1>2, <1>3, <1>4 DEF FinishStep

\* The records, written and deleted from elsewhere, and the end of the program.
LEMMA RecordKeepsInv ==
  ASSUME Inv, (\E v \in Videos : RecordMade(v) \/ RecordDeleted(v)) \/ QueueRestart
  PROVE  Inv'
<1> USE DownloadQueueAssumption DEF Rows, tableVars, handlerVars
<1>1. ASSUME NEW v \in Videos, RecordMade(v) \/ RecordDeleted(v)
      PROVE  Inv'
  <2>1. /\ events' \in 0..MaxEvents
        /\ UNCHANGED <<rowCount, rowVideo, rowStatus, finish, finishRow, toggle, toggleRow>>
    BY <1>1 DEF RecordMade, RecordDeleted, Inv, QueueTypeOK
  <2>2. \/ record' = [record EXCEPT ![v] = "completed"] /\ unrecorded' = unrecorded \ CompletedRows(v)
        \/ record' = [record EXCEPT ![v] = "none"] /\ unrecorded' = unrecorded \cup CompletedRows(v)
    BY <1>1 DEF RecordMade, RecordDeleted
  <2>3. QueueTypeOK' /\ RowsKnown'
    BY <2>1, <2>2 DEF Inv, QueueTypeOK, RowsKnown, There, RecordStatuses, CompletedRows
  <2>4. \A w : OnItsWay(w)' = OnItsWay(w)
    BY <2>1 DEF OnItsWay
  <2>5. ASSUME NEW j \in Rows, rowStatus'[j] = "completed"
        PROVE  record'[rowVideo[j]] = "completed" \/ j \in unrecorded' \/ OnItsWay(rowVideo[j])'
    <3>1. rowVideo[j] \in Videos /\ rowStatus[j] = "completed"
      BY <2>1, <2>5 DEF Inv, QueueTypeOK, There
    <3>2. record[rowVideo[j]] = "completed" \/ j \in unrecorded \/ OnItsWay(rowVideo[j])
      BY <3>1 DEF Inv, CompletedIsRecorded
    <3>3. CASE rowVideo[j] = v
      BY <2>2, <3>1, <3>3 DEF Inv, QueueTypeOK, CompletedRows
    <3>4. CASE rowVideo[j] # v
      <4>1. record'[rowVideo[j]] = record[rowVideo[j]] /\ (j \in unrecorded => j \in unrecorded')
        BY <2>2, <3>1, <3>4 DEF Inv, QueueTypeOK, CompletedRows
      <4> QED BY <2>1, <2>4, <3>2, <4>1
    <3> QED BY <3>3, <3>4
  <2>6. CompletedIsRecorded'
    BY <2>1, <2>5 DEF CompletedIsRecorded
  <2> QED BY <2>3, <2>6 DEF Inv
<1>2. CASE QueueRestart
  <2>1. QueueTypeOK' /\ RowsKnown'
    <3>1. /\ events < MaxEvents /\ events' = events + 1
          /\ unrecorded' = unrecorded \cup
               {i \in Rows : rowStatus[i] = "completed" /\ record[rowVideo[i]] # "completed"}
      BY <1>2 DEF QueueRestart
    <3>2. /\ finish' = [f \in Finishers |-> "idle"] /\ finishRow' = [f \in Finishers |-> 0]
          /\ toggle' = [g \in Togglers |-> "idle"] /\ toggleRow' = [g \in Togglers |-> 0]
          /\ UNCHANGED <<rowCount, rowVideo, rowStatus, record>>
      BY <1>2 DEF QueueRestart
    <3>3. unrecorded' \subseteq Rows
      BY <3>1 DEF Inv, QueueTypeOK
    <3>4. events' \in 0..MaxEvents
      BY <3>1 DEF Inv, QueueTypeOK
    <3> QED BY <3>2, <3>3, <3>4 DEF Inv, QueueTypeOK, RowsKnown, There
  <2>2. CompletedIsRecorded'
    BY <1>2 DEF QueueRestart, CompletedIsRecorded
  <2> QED BY <2>1, <2>2 DEF Inv
<1> QED BY <1>1, <1>2

\* The invariant is inductive.
LEMMA StepInv == Inv /\ [QueueNext]_queueVars => Inv'
<1> SUFFICES ASSUME Inv, [QueueNext]_queueVars PROVE Inv'
  OBVIOUS
<1>1. CASE UNCHANGED queueVars
  BY <1>1 DEF queueVars, tableVars, handlerVars, Inv, QueueTypeOK, RowsKnown, CompletedIsRecorded, There, OnItsWay
<1>2. CASE QueueNext
  BY <1>2, RowKeepsInv, FinishKeepsInv, RecordKeepsInv DEF QueueNext, QueueStep
<1> QED BY <1>1, <1>2

\* In every behaviour of the queue's handlers a completed row has a completed
\* record, is about to get one, or is known to lack it.
THEOREM CompletedAreRecorded == QueueSpec => [](QueueTypeOK /\ CompletedIsRecorded)
<1>1. Inv => QueueTypeOK /\ CompletedIsRecorded
  BY DEF Inv
<1> QED BY <1>1, InitInv, StepInv, PTL DEF QueueSpec

-----------------------------------------------------------------------------
(* The radar.                                                              *)

\* A set of natural numbers that is not empty has a least element.
LEMMA Least ==
  ASSUME NEW S, S \subseteq Nat, S # {}
  PROVE  \E n \in S : \A m \in S : n <= m
<1> DEFINE R == {ss \in Nat \X Nat : ss[1] < ss[2]}
<1>1. IsWellFoundedOn(R, Nat)
  BY NatLessThanWellFounded DEF OpToRel
<1>2. ASSUME NEW m \in Nat, NEW n \in Nat, m < n
      PROVE  <<m, n>> \in R
  BY <1>2
<1> HIDE DEF R
<1>3. PICK n \in S : \A m \in S : ~(<<m, n>> \in R)
  BY <1>1, WFMin
<1>4. ASSUME NEW m \in S
      PROVE  n <= m
  <2>1. m \in Nat /\ n \in Nat /\ ~(<<m, n>> \in R)
    BY <1>3
  <2>2. ~(m < n)
    BY <1>2, <2>1, Zenon
  <2> QED BY <2>1, <2>2
<1> QED BY <1>4

\* GetByVideoID finds the oldest row of the video, if there is one.
LEMMA LookedUpIsOldest ==
  ASSUME NEW v
  PROVE  \/ RowsOf(v) = {} /\ LookedUp(v) = 0
         \/ LookedUp(v) \in RowsOf(v) /\ \A j \in RowsOf(v) : LookedUp(v) <= j
<1>1. RowsOf(v) \subseteq Nat
  BY DownloadQueueAssumption DEF RowsOf, Rows
<1>2. CASE RowsOf(v) = {}
  BY <1>2 DEF LookedUp
<1>3. CASE RowsOf(v) # {}
  <2>1. \E i \in RowsOf(v) : \A j \in RowsOf(v) : i <= j
    BY <1>1, <1>3, Least
  <2>2. LookedUp(v) = CHOOSE i \in RowsOf(v) : \A j \in RowsOf(v) : i <= j
    BY <1>3 DEF LookedUp
  <2> QED BY <2>1, <2>2
<1> QED BY <1>2, <1>3

\* What the queue's handlers leave of the rows the radar may have looked at:
\* a row that is there was there, of the same video, or it is new.
RowsRemain ==
  /\ rowCount <= rowCount'
  /\ \A i \in Rows : rowStatus'[i] # "none" =>
       \/ rowStatus[i] # "none" /\ rowVideo'[i] = rowVideo[i]
       \/ i > rowCount

LEMMA HandlersLeaveRows ==
  ASSUME Inv, [QueueNext]_queueVars
  PROVE  RowsRemain
<1> USE DownloadQueueAssumption DEF Rows, tableVars
<1>1. rowCount \in Nat /\ rowVideo \in [Rows -> Videos \cup {NoVideo}]
      /\ rowStatus \in [Rows -> Statuses \cup {"none"}]
  BY DEF Inv, QueueTypeOK
<1>2. CASE UNCHANGED tableVars
  BY <1>1, <1>2 DEF RowsRemain
<1>3. ASSUME NEW v \in Videos, QueueAdd(v)
      PROVE  RowsRemain
  <2>1. /\ rowCount' = rowCount + 1
        /\ rowVideo' = [rowVideo EXCEPT ![rowCount + 1] = v]
        /\ rowStatus' = [rowStatus EXCEPT ![rowCount + 1] = "pending"]
    BY <1>3 DEF QueueAdd, Insert
  <2> QED BY <1>1, <2>1 DEF RowsRemain
<1>4. ASSUME NEW i \in Rows, rowStatus[i] # "none", NEW s, rowStatus' = [rowStatus EXCEPT ![i] = s],
             UNCHANGED <<rowCount, rowVideo>>
      PROVE  RowsRemain
  BY <1>1, <1>4 DEF RowsRemain
<1>5. CASE rowStatus' = rowStatus /\ UNCHANGED <<rowCount, rowVideo>>
  BY <1>1, <1>5 DEF RowsRemain
<1>6. ASSUME NEW i \in Rows, QueueFail(i) \/ QueueRemove(i)
      PROVE  RowsRemain
  BY <1>4, <1>6 DEF QueueFail, QueueRemove, There
<1>7. ASSUME NEW g \in Togglers, ToggleWrite(g)
      PROVE  RowsRemain
  <2>1. toggleRow[g] \in 0..MaxRows /\ UNCHANGED <<rowCount, rowVideo>>
    BY <1>7 DEF ToggleWrite, Inv, QueueTypeOK
  <2>2. CASE toggleRow[g] \in Rows
    BY <1>4, <1>5, <1>7, <2>1, <2>2 DEF ToggleWrite, There
  <2>3. CASE toggleRow[g] \notin Rows
    <3>1. rowStatus' = rowStatus \/ \E s : rowStatus' = [rowStatus EXCEPT ![toggleRow[g]] = s]
      BY <1>7 DEF ToggleWrite
    <3>2. rowStatus' = rowStatus
      BY <1>1, <2>3, <3>1
    <3> QED BY <1>5, <2>1, <3>2
  <2> QED BY <2>2, <2>3
<1>8. ASSUME NEW f \in Finishers, FinishUpdates(f)
      PROVE  RowsRemain
  <2>1. finishRow[f] \in Rows /\ UNCHANGED <<rowCount, rowVideo>>
    BY <1>1, <1>8 DEF FinishUpdates, Inv, RowsKnown, QueueTypeOK
  <2> QED BY <1>4, <1>5, <1>8, <2>1 DEF FinishUpdates, There
<1>9. ASSUME NEW v \in Videos, RecordMade(v) \/ RecordDeleted(v)
      PROVE  RowsRemain
  BY <1>5, <1>9 DEF RecordMade, RecordDeleted
<1>10. ASSUME NEW g \in Togglers, NEW i \in Rows, ToggleLook(g, i)
       PROVE  RowsRemain
  BY <1>2, <1>10 DEF ToggleLook
<1>11. ASSUME NEW f \in Finishers, FinishStep(f), ~FinishUpdates(f)
       PROVE  RowsRemain
  BY <1>5, <1>11 DEF FinishStep, FinishReads, FinishLooks, FinishMends, FinishCreates
<1>12. CASE QueueRestart \/ UNCHANGED queueVars
  BY <1>2, <1>12 DEF QueueRestart, queueVars
<1> QED BY <1>3, <1>6, <1>7, <1>8, <1>9, <1>10, <1>11, <1>12 DEF QueueNext, QueueStep

\* What the radar knows of the rows of its candidate: those there are came after
\* it began to look, or are not older than the one it compared the video with.
RadarInv ==
  /\ poller \in {"comparing", "adding"} => candidate \in Videos /\ seenRows \in 0..rowCount
  /\ poller = "adding" => hidden \in 0..MaxRows /\
       \A i \in RowsOf(candidate) : i > seenRows \/ hidden \in 1..i

\* A step of the radar is one of the queue, or leaves the queue alone.
LEMMA RadarStepOfQueue ==
  ASSUME RadarInv, [RadarNext]_pollingVars
  PROVE  [QueueNext]_queueVars
<1>1. CASE UNCHANGED pollingVars
  BY <1>1 DEF pollingVars
<1>2. CASE QueueStep
  BY <1>2 DEF QueueNext
<1>3. CASE ScanAdds
  <2>1. QueueAdd(candidate) /\ candidate \in Videos
    BY <1>3 DEF ScanAdds, QueueAdd, RadarInv
  <2> QED BY <2>1 DEF QueueNext, QueueStep
<1>4. CASE RadarStart \/ CheckAnswered \/ StopStep
  BY <1>4 DEF RadarStart, CheckAnswered, StopStep, StopForgets, StopCancels, StopReturns
<1>5. CASE TargetStep
  BY <1>5 DEF TargetStep, ComesDue, TargetAdded, TargetDeleted, TargetToggled, EditReads, EditWrites
<1>6. CASE PollStep /\ ~ScanAdds
  BY <1>6 DEF PollStep, PollSelect, PollReturns, PollChecks, CheckCalls, CheckReturns,
       ScanQueue, ScanAddFails, CheckLogs, CheckBegins, ScanRecord
<1> QED BY <1>1, <1>2, <1>3, <1>4, <1>5, <1>6 DEF RadarNext

LEMMA RadarInitInv == RadarInit => RadarInv
BY DEF RadarInit, RadarInv

LEMMA RadarStepInv ==
  ASSUME Inv, RadarInv, [RadarNext]_pollingVars
  PROVE  RadarInv'
<1> USE DownloadQueueAssumption
<1>1. rowCount \in Nat /\ rowCount' \in Nat /\ RowsRemain
  <2>1. [QueueNext]_queueVars
    BY RadarStepOfQueue
  <2>2. Inv' /\ RowsRemain
    BY <2>1, StepInv, HandlersLeaveRows
  <2> QED BY <2>2 DEF Inv, QueueTypeOK
\* The radar itself stands still.
<1>2. CASE UNCHANGED <<pollVars, radarHist>>
  <2>1. /\ poller' = poller /\ candidate' = candidate
        /\ seenRows' = seenRows /\ hidden' = hidden
    BY <1>2 DEF pollVars, radarHist
  <2>2. poller' \in {"comparing", "adding"} => candidate' \in Videos /\ seenRows' \in 0..rowCount'
    BY <1>1, <2>1 DEF RadarInv, RowsRemain
  <2>3. ASSUME poller' = "adding", NEW i \in RowsOf(candidate)'
        PROVE  i > seenRows \/ hidden \in 1..i
    <3>1. i \in Rows /\ rowStatus'[i] # "none" /\ rowVideo'[i] = candidate
      BY <2>1 DEF RowsOf, There
    <3>2. i \in RowsOf(candidate) \/ i > rowCount
      BY <1>1, <3>1 DEF RowsRemain, RowsOf, There
    <3>3. i \in Nat /\ seenRows \in 0..rowCount
      BY <2>1, <2>3, <3>1 DEF Rows, RadarInv
    <3> QED BY <1>1, <2>1, <2>3, <3>2, <3>3 DEF RadarInv
  <2> QED BY <2>1, <2>2, <2>3 DEF RadarInv
\* It is on to something else than a candidate.
<1>3. CASE poller' \notin {"comparing", "adding"}
  BY <1>3 DEF RadarInv
<1>4. ASSUME NEW v \in Videos, ScanRecord(v), ~NextVideo(v)
      PROVE  RadarInv'
  <2>1. poller' = "comparing" /\ candidate' = v /\ seenRows' = rowCount /\ rowCount' = rowCount
    BY <1>4 DEF ScanRecord, queueVars, tableVars
  <2> QED BY <1>1, <2>1 DEF RadarInv
<1>5. CASE ScanQueue /\ ~NextVideo(candidate)
  <2> DEFINE i == LookedUp(candidate)
  <2>1. /\ poller = "comparing" /\ poller' = "adding" /\ hidden' = i
        /\ UNCHANGED <<candidate, seenRows, rowCount, rowVideo, rowStatus>>
    BY <1>5 DEF ScanQueue, queueVars, tableVars
  <2>2. RowsOf(candidate)' = RowsOf(candidate)
    BY <2>1 DEF RowsOf, There
  <2>3. RowsOf(candidate) \subseteq 1..MaxRows
    BY DEF RowsOf, Rows
  <2>4. i \in 0..MaxRows /\ \A j \in RowsOf(candidate) : i \in 1..j
    <3> HIDE DEF i
    <3>1. \/ RowsOf(candidate) = {} /\ i = 0
          \/ i \in RowsOf(candidate) /\ \A j \in RowsOf(candidate) : i <= j
      BY LookedUpIsOldest DEF i
    <3> QED BY <2>3, <3>1
  <2> HIDE DEF i
  <2> QED BY <2>1, <2>2, <2>4 DEF RadarInv
<1>6. ASSUME NEW v, NextVideo(v)
      PROVE  RadarInv'
  BY <1>3, <1>6 DEF NextVideo
<1>7. CASE ScanAdds \/ ScanAddFails
  BY <1>6, <1>7 DEF ScanAdds, ScanAddFails
<1>8. CASE PollSelect \/ PollReturns \/ PollChecks \/ CheckCalls \/ CheckReturns \/ CheckLogs
           \/ (\E t \in Targets : CheckBegins(t)) \/ RadarStart
  BY <1>3, <1>8 DEF PollSelect, PollReturns, PollChecks, CheckCalls, CheckReturns, CheckLogs, CheckBegins,
       RadarStart
<1>9. CASE CheckAnswered \/ StopStep \/ TargetStep
  BY <1>2, <1>9 DEF CheckAnswered, StopStep, StopForgets, StopCancels, StopReturns, TargetStep, ComesDue,
       TargetAdded, TargetDeleted, TargetToggled, EditReads, EditWrites
<1>10. CASE UNCHANGED radarVars \/ UNCHANGED pollingVars
  BY <1>2, <1>10 DEF radarVars, pollingVars
<1> QED BY <1>4, <1>5, <1>6, <1>7, <1>8, <1>9, <1>10 DEF RadarNext, PollStep

\* The radar, its requests to the hub and those on its targets do nothing to the
\* tables that a request of the console might not do: the queue beside them is
\* the queue of DownloadQueue.
THEOREM RadarUsesQueue == RadarSpec => QueueSpec
<1>1. RadarInit => QueueInit
  BY DEF RadarInit
<1>2. Inv /\ RadarInv /\ [RadarNext]_pollingVars => Inv' /\ RadarInv' /\ [QueueNext]_queueVars
  BY RadarStepInv, RadarStepOfQueue, StepInv
<1> QED BY <1>1, <1>2, InitInv, RadarInitInv, PTL DEF RadarSpec, QueueSpec

\* Whatever else happens to the queue meanwhile, the radar queues a video that
\* waits in the queue already only if the row came after it began to look, or
\* behind an older row of the video that was paused or had failed.
THEOREM RequeuesExplained == RadarSpec => RequeueExplained
<1>1. ASSUME RadarInv, ScanAdds
      PROVE  \A i \in RowsOf(candidate) : rowStatus[i] \in Live => i > seenRows \/ hidden \in 1..i
  BY <1>1 DEF ScanAdds, RadarInv
<1>2. Inv /\ RadarInv /\ [RadarNext]_pollingVars => Inv' /\ RadarInv'
  BY RadarStepInv, RadarStepOfQueue, StepInv
<1>3. RadarInit => Inv /\ RadarInv
  BY InitInv, RadarInitInv DEF RadarInit
<1> QED BY <1>1, <1>2, <1>3, PTL DEF RadarSpec, RequeueExplained

-----------------------------------------------------------------------------
(* The types of the radar.                                                 *)

\* Where the poller is, what it has in hand, and what is asked of it.
Pollers == {"off", "sleeping", "selecting", "waiting", "checking", "asking", "called",
            "scanning", "comparing", "adding", "logging", "returned", "crashed"}
PollTypes ==
  /\ poller \in Pollers /\ ticker \in BOOLEAN /\ context \in BOOLEAN
  /\ stopper \in {"idle", "cancelling", "waiting", "returned"}
  /\ agenda \subseteq Targets /\ online \in BOOLEAN /\ subject \in Targets \cup {NoTarget}
  /\ found \subseteq Videos /\ candidate \in Videos \cup {NoVideo}
  /\ seenRows \in 0..MaxRows /\ hidden \in 0..MaxRows
CallTypes ==
  /\ radarCall \in [{"radar"} -> {"idle", "busy"}]
  /\ radarResult \in [{"radar"} -> {"none", "own"}]
TargetTypes ==
  /\ target \in [Targets -> {"none", "active", "paused"}] /\ due \in [Targets -> BOOLEAN]
  /\ editor \in {"idle", "writing"} /\ editorTarget \in Targets \cup {NoTarget}
  /\ editorDue \in BOOLEAN /\ edits \in 0..MaxEdits
  /\ editor = "writing" => editorTarget \in Targets
RadarTypes == PollTypes /\ CallTypes /\ TargetTypes

LEMMA RadarInitTypes == RadarInit => RadarTypes
<1> SUFFICES ASSUME RadarInit PROVE RadarTypes
  OBVIOUS
<1> USE DownloadQueueAssumption, RadarAssumption DEF RadarInit
<1>1. PollTypes
  <2>1. ticker \in BOOLEAN /\ context \in BOOLEAN /\ online \in BOOLEAN
    BY Zenon
  <2>2. seenRows \in 0..MaxRows /\ hidden \in 0..MaxRows
    OBVIOUS
  <2>3. /\ poller = "off" /\ stopper = "idle" /\ agenda = {} /\ subject = NoTarget
        /\ found = {} /\ candidate = NoVideo
    OBVIOUS
  <2> HIDE DEF RadarInit
  <2> QED BY <2>1, <2>2, <2>3 DEF PollTypes, Pollers
<1>2. CallTypes
  BY DEF CallTypes
<1>3. TargetTypes
  <2>1. due \in [Targets -> BOOLEAN] /\ editorDue \in BOOLEAN
    BY Zenon
  <2>2. target = [t \in Targets |-> "active"] /\ editor = "idle" /\ editorTarget = NoTarget /\ edits \in 0..MaxEdits
    OBVIOUS
  <2> HIDE DEF RadarInit
  <2> QED BY <2>1, <2>2 DEF TargetTypes
<1> QED BY <1>1, <1>2, <1>3 DEF RadarTypes

\* The row a video is compared with, if there is one.
LEMMA LookedUpType == ASSUME NEW v PROVE LookedUp(v) \in 0..MaxRows
<1>1. (RowsOf(v) = {} /\ LookedUp(v) = 0) \/ LookedUp(v) \in RowsOf(v)
  BY LookedUpIsOldest
<1>2. RowsOf(v) \subseteq 1..MaxRows
  BY DEF RowsOf, Rows
<1> QED BY <1>1, <1>2, DownloadQueueAssumption

\* The next video of the answer.
LEMMA NextVideoTypes ==
  ASSUME PollTypes, NEW v, NextVideo(v)
  PROVE  /\ poller' \in Pollers /\ found' \subseteq Videos /\ candidate' \in Videos \cup {NoVideo}
         /\ seenRows' \in 0..MaxRows /\ hidden' \in 0..MaxRows
<1> USE DownloadQueueAssumption
<1>1. poller' \in Pollers /\ found' \subseteq Videos
  BY DEF NextVideo, PollTypes, Pollers
<1>2. candidate' = NoVideo /\ seenRows' = 0 /\ hidden' = 0
  BY DEF NextVideo
<1> QED BY <1>1, <1>2

\* The poller.
LEMMA PollKeepsTypes ==
  ASSUME QueueTypeOK, RadarTypes, PollStep
  PROVE  RadarTypes'
<1> USE DownloadQueueAssumption, RadarAssumption
<1>1. PollTypes /\ CallTypes /\ TargetTypes
  BY DEF RadarTypes
<1>2. CASE UNCHANGED <<stopVars, targetVars, editVars, serviceSide>> /\ PollTypes'
  <2>1. CallTypes'
    BY <1>1, <1>2 DEF serviceSide, CallTypes
  <2>2. TargetTypes'
    BY <1>1, <1>2 DEF targetVars, editVars, TargetTypes
  <2> QED BY <1>2, <2>1, <2>2 DEF RadarTypes
<1>3. CASE PollSelect \/ PollReturns
  <2>1. /\ UNCHANGED <<agenda, online, subject, found, candidate, stopVars, targetVars, editVars, serviceSide, radarHist>>
        /\ poller' \in Pollers
    BY <1>3 DEF PollSelect, PollReturns, Pollers
  <2>2. PollTypes'
    BY <1>1, <2>1 DEF PollTypes, stopVars, radarHist
  <2> QED BY <1>2, <2>1, <2>2
<1>4. CASE PollChecks
  <2>1. /\ UNCHANGED <<subject, found, candidate, stopVars, targetVars, editVars, serviceSide, radarHist>>
        /\ poller' \in Pollers /\ agenda' \subseteq Targets
    BY <1>4 DEF PollChecks, Pollers
  <2>2. online' \in BOOLEAN
    BY <1>4 DEF PollChecks
  <2>3. PollTypes'
    BY <1>1, <2>1, <2>2 DEF PollTypes, stopVars, radarHist
  <2> QED BY <1>2, <2>1, <2>3
<1>5. ASSUME NEW t \in Targets, CheckBegins(t)
      PROVE  RadarTypes'
  <2>1. /\ UNCHANGED <<online, found, candidate, stopVars, target, editVars, serviceSide, radarHist>>
        /\ poller' \in Pollers /\ agenda' \subseteq agenda /\ subject' = t
    BY <1>5 DEF CheckBegins, Pollers
  <2>2. PollTypes'
    BY <1>1, <2>1 DEF PollTypes, stopVars, radarHist
  <2>3. due' \in [Targets -> BOOLEAN]
    BY <1>1, <1>5 DEF CheckBegins, TargetTypes
  <2>4. TargetTypes'
    BY <1>1, <2>1, <2>3 DEF TargetTypes, editVars
  <2>5. CallTypes'
    BY <1>1, <2>1 DEF CallTypes, serviceSide
  <2> QED BY <2>2, <2>4, <2>5 DEF RadarTypes
<1>6. CASE CheckCalls \/ CheckReturns
  <2>1. /\ UNCHANGED <<agenda, online, subject, candidate, stopVars, targetVars, editVars, radarHist>>
        /\ poller' \in Pollers /\ (found' = found \/ found' \subseteq Videos)
    BY <1>6 DEF CheckCalls, CheckReturns, Pollers
  <2>2. PollTypes'
    BY <1>1, <2>1 DEF PollTypes, stopVars, radarHist
  <2>3. CallTypes'
    BY <1>1, <1>6 DEF CheckCalls, CheckReturns, Hub!Begin, Hub!Return, CallTypes
  <2>4. TargetTypes'
    BY <1>1, <2>1 DEF TargetTypes, targetVars, editVars
  <2> QED BY <2>2, <2>3, <2>4 DEF RadarTypes
<1>7. ASSUME NEW v \in Videos, ScanRecord(v)
      PROVE  RadarTypes'
  <2>1. UNCHANGED <<agenda, online, subject, stopVars, targetVars, editVars, serviceSide>>
    BY <1>7 DEF ScanRecord
  <2>2. /\ poller' \in Pollers /\ found' \subseteq Videos /\ candidate' \in Videos \cup {NoVideo}
        /\ seenRows' \in 0..MaxRows /\ hidden' \in 0..MaxRows
    <3>1. CASE NextVideo(v)
      BY <1>1, <3>1, NextVideoTypes
    <3>2. CASE ~NextVideo(v)
      BY <1>1, <1>7, <3>2 DEF ScanRecord, QueueTypeOK, PollTypes, Pollers
    <3> QED BY <3>1, <3>2
  <2>3. PollTypes'
    BY <1>1, <2>1, <2>2 DEF PollTypes, stopVars
  <2> QED BY <1>2, <2>1, <2>3
<1>8. CASE ScanQueue \/ ScanAdds \/ ScanAddFails
  <2>1. UNCHANGED <<agenda, online, subject, stopVars, targetVars, editVars, serviceSide>>
    BY <1>8 DEF ScanQueue, ScanAdds, ScanAddFails
  <2>2. /\ poller' \in Pollers /\ found' \subseteq Videos /\ candidate' \in Videos \cup {NoVideo}
        /\ seenRows' \in 0..MaxRows /\ hidden' \in 0..MaxRows
    <3>1. CASE NextVideo(candidate)
      BY <1>1, <3>1, NextVideoTypes
    <3>2. CASE ~NextVideo(candidate)
      <4>1. hidden' = LookedUp(candidate) /\ poller' = "adding" /\ UNCHANGED <<found, candidate, seenRows>>
        BY <1>8, <3>2 DEF ScanQueue, ScanAdds, ScanAddFails
      <4> QED BY <1>1, <4>1, LookedUpType DEF PollTypes, Pollers
    <3> QED BY <3>1, <3>2
  <2>3. PollTypes'
    BY <1>1, <2>1, <2>2 DEF PollTypes, stopVars
  <2> QED BY <1>2, <2>1, <2>3
<1>9. CASE CheckLogs
  <2>1. /\ UNCHANGED <<agenda, online, found, candidate, stopVars, targetVars, editVars, serviceSide, radarHist>>
        /\ poller' \in Pollers /\ subject' = NoTarget
    BY <1>9 DEF CheckLogs, Pollers
  <2>2. PollTypes'
    BY <1>1, <2>1 DEF PollTypes, stopVars, radarHist
  <2> QED BY <1>2, <2>1, <2>2
<1> QED BY <1>3, <1>4, <1>5, <1>6, <1>7, <1>8, <1>9 DEF PollStep

\* The requests on its targets, and time.
LEMMA TargetsKeepTypes ==
  ASSUME RadarTypes, TargetStep
  PROVE  RadarTypes'
<1> USE RadarAssumption
<1>1. PollTypes /\ CallTypes /\ TargetTypes
  BY DEF RadarTypes
<1>2. UNCHANGED <<pollVars, stopVars, serviceSide, radarHist>>
  BY DEF TargetStep, ComesDue, TargetAdded, TargetDeleted, TargetToggled, EditReads, EditWrites
<1>3. PollTypes' /\ CallTypes'
  BY <1>1, <1>2 DEF PollTypes, CallTypes, pollVars, stopVars, serviceSide, radarHist
<1>4. edits' \in 0..MaxEdits
  BY <1>1 DEF TargetStep, ComesDue, TargetAdded, TargetDeleted, TargetToggled, EditReads, EditWrites, TargetTypes
<1>5. ASSUME NEW t \in Targets, ComesDue(t) \/ TargetAdded(t) \/ TargetDeleted(t) \/ TargetToggled(t)
      PROVE  TargetTypes'
  <2>1. UNCHANGED <<editor, editorTarget, editorDue>>
    BY <1>5 DEF ComesDue, TargetAdded, TargetDeleted, TargetToggled
  <2>2. target' \in [Targets -> {"none", "active", "paused"}]
    BY <1>1, <1>5 DEF ComesDue, TargetAdded, TargetDeleted, TargetToggled, TargetTypes
  <2>3. due' \in [Targets -> BOOLEAN]
    BY <1>1, <1>5 DEF ComesDue, TargetAdded, TargetDeleted, TargetToggled, TargetTypes
  <2> QED BY <1>1, <1>4, <2>1, <2>2, <2>3 DEF TargetTypes
<1>6. ASSUME NEW t \in Targets, EditReads(t)
      PROVE  TargetTypes'
  <2>1. editor' = "writing" /\ editorTarget' = t /\ UNCHANGED <<target, due>>
    BY <1>6 DEF EditReads, targetVars
  <2>2. editorDue' \in BOOLEAN
    BY <1>1, <1>6 DEF EditReads, TargetTypes
  <2> QED BY <1>1, <1>4, <2>1, <2>2 DEF TargetTypes
<1>7. ASSUME EditWrites
      PROVE  TargetTypes'
  <2>1. editor' = "idle" /\ editorTarget' = NoTarget
    BY <1>7 DEF EditWrites
  <2>2. editorDue' \in BOOLEAN
    BY <1>7 DEF EditWrites
  <2>3. editorTarget \in Targets
    BY <1>1, <1>7 DEF EditWrites, TargetTypes
  <2>4. target' \in [Targets -> {"none", "active", "paused"}]
    BY <1>1, <1>7, <2>3 DEF EditWrites, TargetTypes, targetVars
  <2>5. due' \in [Targets -> BOOLEAN]
    <3>1. editorDue \in BOOLEAN /\ due \in [Targets -> BOOLEAN]
      BY <1>1 DEF TargetTypes
    <3>2. due' = [due EXCEPT ![editorTarget] = editorDue] \/ due' = due
      BY <1>7 DEF EditWrites, targetVars
    <3> QED BY <2>3, <3>1, <3>2
  <2> QED BY <1>4, <2>1, <2>2, <2>4, <2>5 DEF TargetTypes
<1>8. TargetTypes'
  BY <1>5, <1>6, <1>7 DEF TargetStep
<1> QED BY <1>3, <1>8 DEF RadarTypes

LEMMA RadarStepTypes ==
  ASSUME QueueTypeOK, RadarTypes, [RadarNext]_pollingVars
  PROVE  RadarTypes'
<1>1. PollTypes /\ CallTypes /\ TargetTypes
  BY DEF RadarTypes
<1>2. CASE UNCHANGED radarVars
  BY <1>1, <1>2 DEF radarVars, pollVars, stopVars, targetVars, editVars, serviceSide, radarHist,
                    RadarTypes, PollTypes, CallTypes, TargetTypes
<1>3. CASE RadarStart \/ StopStep
  <2>1. /\ UNCHANGED <<agenda, online, subject, found, candidate, targetVars, editVars, serviceSide, radarHist>>
        /\ poller' \in {poller, "sleeping"} /\ stopper' \in {stopper, "cancelling", "waiting", "returned"}
    BY <1>3 DEF RadarStart, StopStep, StopForgets, StopCancels, StopReturns, pollVars
  <2>2. ticker' \in BOOLEAN /\ context' \in BOOLEAN
    BY <1>1, <1>3 DEF RadarStart, StopStep, StopForgets, StopCancels, StopReturns, PollTypes
  <2>3. PollTypes'
    BY <1>1, <2>1, <2>2 DEF PollTypes, Pollers, radarHist
  <2>4. CallTypes' /\ TargetTypes'
    BY <1>1, <2>1 DEF CallTypes, TargetTypes, targetVars, editVars, serviceSide
  <2> QED BY <2>3, <2>4 DEF RadarTypes
<1>4. CASE CheckAnswered
  <2>1. UNCHANGED <<pollVars, stopVars, targetVars, editVars, radarHist>>
    BY <1>4 DEF CheckAnswered
  <2>2. CallTypes'
    BY <1>1, <1>4 DEF CheckAnswered, Hub!Answer, CallTypes
  <2>3. PollTypes' /\ TargetTypes'
    BY <1>1, <2>1 DEF PollTypes, TargetTypes, pollVars, stopVars, targetVars, editVars, radarHist
  <2> QED BY <2>2, <2>3 DEF RadarTypes
<1> QED BY <1>2, <1>3, <1>4, PollKeepsTypes, TargetsKeepTypes DEF RadarNext, pollingVars

\* The types of Radar, and of the queue beside it.
THEOREM RadarTypesHold == RadarSpec => [](QueueTypeOK /\ RadarTypeOK)
<1>1. Inv /\ RadarTypes => QueueTypeOK /\ RadarTypeOK
  BY DEF Inv, RadarTypes, PollTypes, Pollers, CallTypes, TargetTypes, RadarTypeOK
<1>2. RadarInit => Inv /\ RadarTypes /\ RadarInv
  BY InitInv, RadarInitInv, RadarInitTypes DEF RadarInit
<1>3. Inv /\ RadarInv /\ RadarTypes /\ [RadarNext]_pollingVars => Inv' /\ RadarInv' /\ RadarTypes'
  BY RadarStepInv, RadarStepOfQueue, StepInv, RadarStepTypes DEF Inv
<1> QED BY <1>1, <1>2, <1>3, PTL DEF RadarSpec
=============================================================================
