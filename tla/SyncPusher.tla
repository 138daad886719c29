----------------------------- MODULE SyncPusher -----------------------------
(***************************************************************************)
(* The pusher of src/internal/cloud/sync_pusher.go beside the connector    *)
(* whose connection it writes to.  At once and on every tick a goroutine   *)
(* of its own sends the browse records updated since lastBrowseSync, then  *)
(* the download records updated since lastDownloadSync, a batch of each;   *)
(* after a successful write the mark becomes the time of day.  Nothing     *)
(* keeps two such goroutines apart, and the cloud acknowledges nothing.    *)
(*                                                                         *)
(* Time is the number of stores so far: a record's updated_at is the store *)
(* that wrote it, and a mark lies between two stores.  A record is named   *)
(* by that store, so that an update of it is another record to send.       *)
(*                                                                         *)
(* Abstracted: the contents of the records; a torn read of a mark, which   *)
(* is an unsynchronised time.Time, beyond its old and its new value.       *)
(***************************************************************************)
EXTENDS Connector, FiniteSetsExt

CONSTANTS
  Records,       \* rows of browse_history and download_records
  KindOf,        \* which of the two
  Pushes,        \* push goroutines that may run at once
  BatchSize,     \* the LIMIT of the query, 1 to 1000
  MaxStores,     \* bound: stores and updates of records
  MaxTicks       \* bound: pushes begun

ASSUME SyncPusherAssumption ==
  /\ KindOf \in [Records -> {"browse", "download"}]
  /\ BatchSize \in Nat \ {0} /\ {MaxStores, MaxTicks} \subseteq Nat

Kinds == {"browse", "download"}

VARIABLES
  pusher,        \* Start: "starting", "running", or "stopped"
  stopSignal,    \* stopChan is closed
  clock,         \* stores so far
  updatedAt,     \* of each record, 0 for one that is not there yet
  mark,          \* lastBrowseSync and lastDownloadSync
  push,          \* where a push goroutine is: "idle", "reading", "querying", "sending", "marking"
  pushKind, since, asked, batch,   \* its table, its query, when it was run, and what it returned
  ticks,
  received,      \* history: what the cloud got
  excused        \* history: why some may never get there, see LossesExplained

pushVars == <<push, pushKind, since, asked, batch>>
storeVars == <<clock, updatedAt>>
syncVars == <<pusher, stopSignal, storeVars, mark, pushVars, ticks, received, excused>>
cloudVars == <<connectorVars, syncVars>>

SyncInit ==
  /\ pusher = "starting" /\ stopSignal = FALSE
  /\ clock = 0 /\ updatedAt = [r \in Records |-> 0]
  /\ mark = [k \in Kinds |-> 0]
  /\ push = [p \in Pushes |-> "idle"]
  /\ pushKind = [p \in Pushes |-> "browse"]
  /\ since = [p \in Pushes |-> 0] /\ asked = [p \in Pushes |-> 0]
  /\ batch = [p \in Pushes |-> {}]
  /\ ticks = 0 /\ received = {} /\ excused = {}

CloudInit == ConnectorInit /\ SyncInit

\* A browse record or a download record is saved, or saved again.
Store(r) ==
  /\ clock < MaxStores
  /\ clock' = clock + 1
  /\ updatedAt' = [updatedAt EXCEPT ![r] = clock']
  /\ UNCHANGED <<connectorVars, pusher, stopSignal, mark, pushVars, ticks, received, excused>>

-----------------------------------------------------------------------------
(* Start, Stop                                                             *)

\* go sp.pushSyncData()
Spawn == \E p \in Pushes :
  /\ ticks < MaxTicks
  /\ push[p] = "idle"
  /\ push' = [push EXCEPT ![p] = "reading"]
  /\ pushKind' = [pushKind EXCEPT ![p] = "browse"]
  /\ ticks' = ticks + 1

PusherStart ==
  /\ pusher = "starting"
  /\ pusher' = "running"
  /\ Spawn
  /\ UNCHANGED <<connectorVars, stopSignal, storeVars, mark, since, asked, batch, received, excused>>

PusherTick ==
  /\ pusher = "running"
  /\ Spawn
  /\ UNCHANGED <<connectorVars, pusher, stopSignal, storeVars, mark, since, asked, batch, received,
                 excused>>

PusherEnds ==
  /\ pusher = "running" /\ stopSignal
  /\ pusher' = "stopped"
  /\ UNCHANGED <<connectorVars, stopSignal, storeVars, mark, pushVars, ticks, received, excused>>

\* Connector.Stop; the pusher's Stop does nothing before Start has begun.
CloudStop ==
  /\ ConnectorStop
  /\ stopSignal' = (pusher = "running")
  /\ UNCHANGED <<pusher, storeVars, mark, pushVars, ticks, received, excused>>

-----------------------------------------------------------------------------
(* pushSyncData: pushBrowseHistory, then pushDownloadRecords, whatever     *)
(* became of the first                                                     *)

PushTurns(p) ==
  /\ push' = [push EXCEPT ![p] = IF pushKind[p] = "browse" THEN "reading" ELSE "idle"]
  /\ pushKind' = [pushKind EXCEPT ![p] = IF @ = "browse" THEN "download" ELSE "browse"]
  /\ since' = [since EXCEPT ![p] = 0]
  /\ asked' = [asked EXCEPT ![p] = 0]
  /\ batch' = [batch EXCEPT ![p] = {}]

PushReads(p) ==
  /\ push[p] = "reading"
  /\ since' = [since EXCEPT ![p] = mark[pushKind[p]]]
  /\ push' = [push EXCEPT ![p] = "querying"]
  /\ UNCHANGED <<connectorVars, pusher, stopSignal, storeVars, mark, pushKind, asked, batch, ticks,
                 received, excused>>

Updated(kind, after) == {updatedAt[r] : r \in {q \in Records : KindOf[q] = kind}} \ (0..after)

\* GetRecordsSince: updated_at > since ORDER BY updated_at ASC LIMIT.
FirstBatch(stamps) == {s \in stamps : Cardinality({t \in stamps : t < s}) < BatchSize}

PushQueries(p) ==
  /\ push[p] = "querying"
  /\ LET found == FirstBatch(Updated(pushKind[p], since[p])) IN
     IF found = {} THEN PushTurns(p)
     ELSE /\ batch' = [batch EXCEPT ![p] = found]
          /\ asked' = [asked EXCEPT ![p] = clock]
          /\ push' = [push EXCEPT ![p] = "sending"]
          /\ UNCHANGED <<pushKind, since>>
  /\ UNCHANGED <<connectorVars, pusher, stopSignal, storeVars, mark, ticks, received, excused>>

\* The query fails.
PushQueryFails(p) ==
  /\ push[p] = "querying"
  /\ PushTurns(p)
  /\ UNCHANGED <<connectorVars, pusher, stopSignal, storeVars, mark, ticks, received, excused>>

\* Mutant of PushSends: the error of send is only logged.
PushSendsAnyway(p) ==
  /\ push[p] = "sending"
  /\ SendAndForget
  /\ received' = IF Written /\ socket[conn] = "up" THEN received \cup batch[p] ELSE received
  /\ excused' = IF Written /\ socket[conn] = "silent" THEN excused \cup batch[p] ELSE excused
  /\ push' = [push EXCEPT ![p] = "marking"]
  /\ UNCHANGED <<loop, retryCount, conn, cancelled, loopVars, commandVars, pusher, stopSignal,
                 storeVars, mark, pushKind, since, asked, batch, ticks>>

\* connector.send: what is written to a silent link is excused.
PushSends(p) ==
  /\ push[p] = "sending"
  /\ \/ /\ Written /\ UNCHANGED socket
        /\ received' = IF socket[conn] = "up" THEN received \cup batch[p] ELSE received
        /\ excused' = IF socket[conn] = "silent" THEN excused \cup batch[p] ELSE excused
        /\ push' = [push EXCEPT ![p] = "marking"]
        /\ UNCHANGED <<pushKind, since, asked, batch>>
     \/ /\ WriteFails
        /\ PushTurns(p)
        /\ UNCHANGED <<received, excused>>
  /\ UNCHANGED <<loop, retryCount, conn, cancelled, loopVars, commandVars, pusher, stopSignal,
                 storeVars, mark, ticks>>

\* The mark becomes time.Now().  Excused is what was stored since the query,
\* and, if the batch was full, what is newer than the batch.
PushMarks(p) ==
  /\ push[p] = "marking"
  /\ mark' = [mark EXCEPT ![pushKind[p]] = clock]
  /\ LET full == Cardinality(batch[p]) = BatchSize
     IN  excused' = excused \cup
           Updated(pushKind[p], IF full THEN Max(batch[p]) ELSE asked[p])
  /\ PushTurns(p)
  /\ UNCHANGED <<connectorVars, pusher, stopSignal, storeVars, ticks, received>>

PushStep(p) == PushReads(p) \/ PushQueries(p) \/ PushQueryFails(p) \/ PushSends(p) \/ PushMarks(p)

CloudNext ==
  \/ ConnectorStep /\ UNCHANGED syncVars
  \/ CloudStop
  \/ /\ loop # "panicked"
     /\ \/ PusherStart \/ PusherTick \/ PusherEnds
        \/ \E p \in Pushes : PushStep(p)
        \/ \E r \in Records : Store(r)

CloudSpec == CloudInit /\ [][CloudNext]_cloudVars

-----------------------------------------------------------------------------
SyncTypeOK ==
  /\ pusher \in {"starting", "running", "stopped"} /\ stopSignal \in BOOLEAN
  /\ clock \in 0..MaxStores /\ updatedAt \in [Records -> 0..MaxStores]
  /\ mark \in [Kinds -> 0..MaxStores]
  /\ push \in [Pushes -> {"idle", "reading", "querying", "sending", "marking"}]
  /\ pushKind \in [Pushes -> Kinds]
  /\ since \in [Pushes -> 0..MaxStores] /\ asked \in [Pushes -> 0..MaxStores]
  /\ batch \in [Pushes -> SUBSET (1..MaxStores)]
  /\ ticks \in 0..MaxTicks /\ received \subseteq 1..MaxStores /\ excused \subseteq 1..MaxStores

\* A record behind the mark will not be asked for again.  Every one of them has
\* reached the cloud, with however many pushes at once and however many of them
\* failing, except by the three ways the code has of losing one: it was stored
\* between a query and the mark set for it (sync_pusher.go:143), it did not fit
\* into a full batch (HasMore is sent, and never acted on), or it was written to
\* a link that had fallen silent (nothing is acknowledged).
LossesExplained ==
  \A r \in Records : updatedAt[r] \in 1..mark[KindOf[r]] =>
    updatedAt[r] \in received \cup excused
=============================================================================
