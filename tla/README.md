# TLA+ verification of wx_channel

wx_channel is a desktop program for the video pages of WeChat Channels. A
man-in-the-middle proxy injects scripts into the pages, a web console drives
downloads, an API bridge lets Go code call functions of the open pages, and a
second executable, the "comment POC", collects comments under a temporary
certificate. This directory models the parts of it in which goroutines,
processes, pages or failures meet, checks the models with TLC and proves some
of the results for all values of their constants with TLAPS.

## 1. Inventory

All paths are below `src/`. The module that models a component is in bold; one
without is not modelled.

| Component | State | Operations | Interacts with | What is hard | What makes it correct |
|---|---|---|---|---|---|
| Batch downloader `internal/handlers/batch.go` (**BatchDownload**) | `tasks`, `running`, `cancelFunc`; files; download records | `batch_start`, `batch_cancel`, `batch_resume`, `batch_clear`; one run with workers | Gopeed engine, file system, database | four kinds of goroutine share the handler; cancel and clear race the start and the end of a run | one run at a time; done means on disk; nothing left running or lost; each run ends |
| API hub `internal/websocket` and `inject/api_client.js` (**ApiHub**, **CallService**) | registry, pending requests, per connection queues and load | `CallAPI`, broadcast, register, unregister | pages, HTTP handlers, radar, connector | late answers, reconnects, restarts, full queues, close against send | the answer is one's own; nothing leaks; load is true; dead connections go; a call ends |
| POC runtime `internal/poc/runtime.go` (**PocRuntime**) | machine changes, `state.json`, receipts | run, deferred clean-up, offline clean-up | certificate store, proxy, driver, bridge, operator | death between a step and its note; failing clean-up steps | nothing left that is not noted; receipts are true; repeating restores |
| Cloud connector `internal/cloud/connector.go` (**Connector**) | link, retry count, a heartbeat and a metrics loop per link, commands | connect, read, back off, heartbeat, command, stop | cloud hub, API hub | silent links, loops that outlive their link, answers on another link, back-off arithmetic | a lost link is replaced; a healthy one kept; a command answered once |
| Sync pusher `internal/cloud/sync_pusher.go` (**SyncPusher**) | two marks, push goroutines | push at once and on each tick | database, connector | overlapping pushes, records stored between query and mark | what is behind the mark has reached the cloud |
| Radar `internal/services/radar_service.go` (**Radar**) | ticker, context, targets, the round | start, stop, check; edits of targets | API hub, queue, console | stop against the poller; check then add | no video queued twice; stop returns |
| Download queue `internal/services/queue_service.go` (**DownloadQueue**) | rows and records in SQLite | add, fail, pause, resume, complete, remove | console, radar | two tables, no transaction; requests at once; restart between | a completed row has its record |
| Console hub `internal/handlers/websocket.go` (**ConsoleHub**) | clients, `send` channels, broadcast queue | broadcast, register, unregister, ping, greeting | console pages | lock exchange while ranging; sends on closed channels | nothing is closed twice; who is gone leaves |
| POC bridge `internal/poc/bridge.go`, `wait.go` (**PocBridge**) | one connection, pending calls, waiters | `Call`, state, answer, close | page, collector, operator | no time limit; disconnect, restart of the page, close during a call | nobody sleeps for ever; an honest page is kept |
| Uploads `internal/handlers/upload.go` (**Uploads**) | parts, directories, files, semaphores | init, chunk, complete, save | pages, file system | any order and repetition of requests; merge against chunk | the file is the parts |
| Single downloads `internal/handlers/upload.go` (**SingleDownload**) | `activeDownloads`, temporary and final files, records | download, cancel | Gopeed engine, file system, database | test then store; cancel deletes the entry of a download that goes on | one download of a video at a time; recorded means on disk |
| Comment collector `internal/poc/comments.go`, `search.go` (**CommentPages**, **WorkSearch**) | checkpoint, comments, marks, limits | pages of comments, of replies, of search results | bridge, store | interruption and continuation; a source that repeats or omits markers | nothing lost without a mark; limits hold; search bounded |
| Chunked downloader `internal/services/chunked_downloader.go` | active downloads | start, pause, resume, cancel | queue | resume by count; constructed nowhere | completed means complete |
| Certificate smoke test `internal/poc/certificate_smoke.go` (**CertSmoke**) | the certificate, its files, `state.json`, the receipt | run, finalize, the offline clean-up | certificate store, operator | steps that fail, a death between any two, the clean-up beside it | the root and its key never outlive their note |
| POC batch `internal/poc/ltaoo_batch.go` | draft, receipt | run, finalize | collector, scripts | publication after a clean-up receipt | nothing is published before it |

Listed in `PROJECT.json` and not planned: the console's database requests, search and
sharing (stateless translations), page injection (text processing),
configuration, logging and storage, the user interface, the PowerShell scripts
and the vendored SunnyNet library.

How they meet. The connector, the radar and the console's search call pages through
`Hub.CallAPI`: `CallService` is what they rely on, `ApiHub` implements it (checked and
proved), `Connector` and `Radar` instantiate it. The radar writes the rows the
console's requests change, so `Radar` extends `DownloadQueue`. The pusher writes to
the connector's link, so `SyncPusher` extends `Connector`. The collectors call their
page through the bridge one call at a time, and `PocBridge` has the collector as its
caller; `CommentPages` and `WorkSearch` see of it only that a call fails.

`PROJECT.json` "hazards" lists what is hard to test, each at its line, with the
properties that would catch it.

## 2. Plan

Done, in this order: BatchDownload; ApiHub; PocRuntime; Connector, SyncPusher and
Radar over DownloadQueue, with CallService and its refinement; ConsoleHub and
PocBridge, both asked who may close a channel or a connection and who still uses it;
Uploads and SingleDownload; CommentPages and WorkSearch; CertSmoke.

Left, the most useful first:

1. The POC batch's draft and receipt.
2. The console's clean-up of files and records, beside the downloads that write them.
3. Pure algorithms as recursive functions, checked against reference definitions:
   the key stream position of `NewDecryptReader`, chunk counts, `sanitizeFilename`.
4. The chunked downloader, should it ever be constructed.

## 3. The modules

### BatchDownload

A step is what the code does between two points at which another goroutine may
act: a critical section of `h.mu`, a channel operation, an engine call, a test of
the context, a file operation.

| Variables | Code |
|---|---|
| `batches`, `cur` | the arrays `h.tasks` has pointed to, and which one it points to; a worker keeps a pointer into its array after `h.tasks` was replaced |
| `running`, `cancelFunc`, `ctx` | the fields of that name; the context of each run |
| `runPc`, `run`, `wk` | the goroutine of `startBatchDownload` with its task channel; its workers |
| `engine` | the transfers of Gopeed (external): unused, running, pause, done, error, gone |
| `tmpFiles`, `disk`, `records` | temporary and final files, download records |
| `reqPc`, `req` | the HTTP request being served, between its critical sections |

| Actions | Code |
|---|---|
| `StartCheck`, `StartClean`, `StartInstall` | `HandleBatchStart`: busy test, old artifacts, new tasks and `go` |
| `CancelLock`, `CancelPause`, `CancelCtx` | `HandleBatchCancel`: locked section, pausing transfers, `cancel()` |
| `Resume` | `HandleBatchResume` |
| `ClearLock`, `ClearCancel`, `ClearWait`, `ClearDrop`, `ClearClean` | `HandleBatchClear` with its 5 s of polling |
| `RunnerBegin` ... `RunnerFinish`, `DispatchX` | `startBatchDownload` |
| `WorkerX` | the worker loop, `downloadVideo` and `downloadVideoOnce`, one action per step of an attempt |
| `EngineEnds` | a transfer ends by itself |

Nothing is assumed on timing: a request may come before a new run has set
`cancelFunc`, and a run may outlast the 5 s a clear waits. Two history variables say
what that costs: `cut`, the runs a clear dropped the tasks of without waiting for
their end, and `strays`, the transfers and files their workers have created since.
Several deletions in a row (`StartClean`, `ClearClean`) are one step, and so is the
end of a download from the rename on (`WorkerMove`). Left out: a failing database in
`saveDownloadRecord`, progress figures, the read-only handlers, a configuration changed
during a run, a file or a record removed by hand.

### ApiHub

The registry and `Run` (`clients`, `lastClient`, `hubOp`, which is what `Run`
received and has not applied yet), the table of pending requests and their
channels (`requests`, `chan`, `reqSeq`), per connection the client (`closed`,
`ready`, `active`, `outbox`), its pumps (`reader`, `writer`), its answer queue and
workers (`queue`, `task`; slot 0 is `ReadPump` itself, which delivers when the
queue is full), the callers of `CallAPI` (`callPc`, `callConn`, `callId`, `answer`)
and the pages (`link`, `uplink`, `work`).

`CallSelect`, `CallEnrol`, `CallSend`, `CallReceive`/`CallTimeout`, `CallForget`,
`CallReturn` are `CallAPI` in order; the last two are its deferred calls, the
deletion of the entry and the close of the channel being two steps because a
worker may have looked the channel up before. `WorkerTake` looks a channel up,
`Deliver` sends on it, waits for room, gives up, or panics because the channel is closed (a
worker recovers, `ReadPump` does not and takes its connection down). `HubReceive`,
`HubRegister`, `HubUnregister` are `Run`. `Dial`, `PageState`, `PagePing`,
`PageAnswer`, `PageDrop` are `api_client.js` and `ServeHTTP`; a page answers on
the socket it has by then. `Restart` ends the program and starts it again, with
ids from 1.

`LeastConnection` is the configured selector: the default one, or any of the
other three, of which each connection that supports the key may be the choice. The key is
one key; bodies, JSON errors, time stamps and the authentication of the upgrade are
left out.

### PocRuntime

`present` is what the job has left on the machine: secrets, certificate, bridge,
proxy, driver. `hasState`, `saved`, `runtimeDir`, `litter` are `.poc-runtime/<job>`;
`receipt` and `manifest` what a reader is told. `pc`, `known`, `errs` are
`Runtime.Run` and its memory, `cpc`, `loaded`, `cerrs` the offline clean-up.
Each step of `Run` and each note of it (`Note`, which may fail) is an action;
`CleanupX` is `cleanupState`, `CleanerX` is `runPlatformCleanup` with
`cleanupPersistedRuntime`; `Crash` and `CleanerCrash` end a process between any
two steps, listeners with it, and may leave the temporary file of a write.

A process may die anywhere, also between a change of the machine and the note of it; a
clean-up may start while the run is alive and has no listener, which its port check does not
notice. What is lost sight of that way is collected in the history variable `slipped`, at
four points: the check after an import that reported an error fails as well
(`Imported`); the run dies with a change not noted, or whose note could not be written
(`Crash`); the last note of a clean-up is lost after such a one (`CleanupKeep`); a clean-up
began beside the live run, and what the run had not noted yet is taken from under it
or stays behind its receipt (`CleanerStart`). `unsaid` remembers which notes were lost.

The bounds `MaxFaults` (deaths and lost notes of the run), `MaxOverlaps` and `MaxCleanerDeaths` are for
TLC only; the theorems hold for all their values. Other failures of steps are unlimited. Left out:
`Runtime.Cleanup`, which only tests call, several jobs at once, what the preflight looks at.

### CallService

The promise of `Hub.CallAPI` to a goroutine that calls it: it is inside or not
(`service`), it gets at most one answer (`outcome`), its own, or an old one if the program was
restarted. `ApiHub` implements it (`CallsImplemented`) under the mapping of
`Inside` (a caller whose `callPc` is not idle), `Outcome` (its `answer`, compared
with the request it made) and `Restarted`. `Connector` and `Radar` take the
service's actions `Begin`, `Answer` and `Return` by INSTANCE, over `commandCall` and `radarCall`.

### Connector, SyncPusher

| Variables | Code |
|---|---|
| `loop`, `retryCount`, `conn`, `cancelled` | `connectLoop` with `connect` and `handleConnection`; `c.retryCount`, `c.conn`, `c.ctx` |
| `socket` | each link dialled: a link may fall silent, when writes succeed and only the read's deadline of 150 s notices |
| `beat`, `missed`; `meter` | `heartbeatLoop` and `metricsLoop` of each link, which outlive it until their context is seen |
| `command`, `source`, `answered` | the goroutine of a command, the link it came over, its answer on whatever link is current |
| `pusher`, `mark`, `push`, `since`, `asked`, `batch` | `Start`, `lastBrowseSync` and `lastDownloadSync`, each `pushSyncData` from its read of the mark to its write |
| `clock`, `updatedAt`, `received` | the stores of records so far, what the cloud has got |

`DialFails`, `BackoffEnds`, `DialSucceeds`, `Serve`, `ReadFails`, `ReadExpires`,
`PauseEnds`, `ConnectorStop` are the loop. `HasJitter` is the arithmetic of
`calculateBackoff` in 64 bits: the shift by `retryCount - 1` leaves the range at the
35th failure, the comparison with the maximum passes what is negative or zero, and
`rand.Int63n` panics on it. `BeatX`, `MeterX`, `CommandX` are the other goroutines,
`PushReads`, `PushQueries`, `PushSends`, `PushMarks` a push of one table after the other. A
tick that is ready together with the end of its context may still be taken (`LateTick`). That a
heartbeat in progress is over before the pause ends is an assumption on timing (`PauseEnds`): its
write fails at once, but nothing waits for it.

### DownloadQueue, Radar

`rowVideo` and `rowStatus` are `download_queue`, a row named by its place in the order
of insertion; `record` is `download_records`. `QueueAdd`, `QueueFail`, `QueueRemove`,
`ToggleLook`/`ToggleWrite` (pause and resume read the row, then write it) and
`FinishReads` ... `FinishCreates` (`CompleteDownload`: the row, then the record, looked up,
mended or created) are one SQL statement each; `RecordMade` and `RecordDeleted` are the other
writers of records; `QueueRestart` ends the program between two statements.

The radar's `poller` runs `PollSelect`, `PollChecks`, and for each target of its
`agenda` `CheckBegins`, `CheckCalls`, `CheckReturns`, then for each video
`ScanRecord`, `ScanQueue`, `ScanAdds`, then `CheckLogs`. `StopForgets`, `StopCancels`,
`StopReturns` are `Stop`, which sets the ticker to nil before it cancels. `TargetX`,
`EditReads` and `EditWrites` are the console's requests on targets.

### ConsoleHub

`viewers`, `backlog`, `todo` are `Run` (`RunRegisters`, `RunUnregisters`, `RunTakes` and one
`RunOffers` for each client of the range); `open`, `buffered`, `done`, `wire` a client's
channel, context and socket; `viewerReader`, `viewerWriter`, `greeting` its three goroutines. A send on
a closed channel is recorded in `crash`, with its cause, and ends the program.

### PocBridge

`attached`, `usable`, `closed`, `pending`, `slot` are the fields of `BridgeServer`; `reader` is
`handleWebSocket` of each page, `writing` the holder of `writeMu`, `caller` the
collector with `Call` and its one retry, `waiter` the goroutines of `WaitReady`. `PageX` are the
page, which may be wrong (`faulty` remembers it); `Detach` also
fails what is pending; `Interrupt` is the end of the run's context, `BridgeCloses` the clean-up's `Close`.

### Uploads, SingleDownload

`Uploads`: directories, part files, the two semaphores (counted by who is in), files
and records, with an action for each file operation of `upload_chunk`, `complete_upload` and `save_video`.
`SingleDownload`: `AskerLooks`, `AskerPasses` (Load), `AskerEnters` (Store and `go`),
then `TransferX` and `DownloadX` in the goroutine, whose deferred `Departs` deletes
whatever the map holds by then; `CancelFires` and `CancelDeletes` are
`cancel_download`. All files have one name here, the case in which they meet.

### CommentPages, WorkSearch

Sequential programs whose difficulty is interruption and a source that owes
nothing. `CommentPages` follows `CollectComments` page by page over a given source, with its
checkpoint after each page; `Fail` and `Die` end a collector anywhere, `Collect`
starts one on what the last has saved. `WorkSearch` follows `CollectWorks` over a source that may answer
anything; a marker is the class the code puts it in, and a checkpoint may fail to be
written. `CommentPages` leaves out reply limits that are both zero, with which there are no replies at all.

### CertSmoke

`smoke` is where `CertificateSmoke.Run` is, with its deferred `finalize` from `removing` on;
`trusted` the certificate store, `smokeSecrets` the CA's files, `smokeNote` what
`state.json` says, `smokeReceipt` and `onDisk` the receipt in hand and written.
`SmokeX` are its steps, each of which may fail or be the last (`SmokeDies`); `SweepX` is the
clean-up command of the same job. The test opens no listener, so that command's port check
finds nothing: `overtaken` remembers that it began while the test ran.

## 4. What the runs show

| Run | Instance | Result |
|---|---|---|
| `batch_one_console` | one request at a time, 2 videos, 2 workers, resume on or off, 2 runs, 1 transfer, 1 attempt | `TypeOK`, `OneRunner`, `QuietMeansSettled`, `NoIndexPanic`, `CancelTakesEffect` hold in 2.0 million states, with cancels and clears before a run has set `cancelFunc` and clears that give up |
| `batch_any_timing` | one request at a time, 1 video, 1 worker, 2 attempts, 2 runs, 2 transfers, fairness | `DoneIsOnDisk`, `StoredOnce`, `StopWithoutResume`, `ArtifactsOwned`, `DoneIsFinal` hold in 120 thousand states, and `RunEnds` unless the program panicked |
| `batch_two_starts` | two requests at once | `OneRunner` is violated: both pass the busy test |
| `batch_cancel_leaves_transfer` | one console, resume on | `TransfersStop` is violated: a transfer created between the locked part of cancel and `cancel()` runs on |
| `batch_same_name` | two videos of one file name | `DoneIsOnDisk` is violated: one rename replaces the other's file |
| `hub_reconnect` | a page that reconnects once, 2 callers, 2 calls, 1 restart, capacities 1 (channels 2), any selector | `TypeOK`, `OwnAnswer`, `NothingLeaks`, `LoadIsCalls`, `RegistryFollowsPumps` hold in 1.5 million states, and `CallsImplemented`, the refinement |
| `hub_ends` | one connection, 2 callers, 2 calls, 1 notice, fairness | `ClosedLeaves` and `CallEnds` hold |
| `poc_one_fault` | one fault of the run, one death of the clean-up, one clean-up begun beside the live run, any failing steps | `TypeOK`, `NothingForgotten`, `ReceiptExplained` hold in 0.48 million states, and `CleanupRestores` under fairness |
| `poc_receipt` | no fault, but the import reports an error although it went in and the check after it fails too | `ReceiptHonest` is violated: a receipt says clean, `state.json` is gone, the trusted root stays |
| `services` | MCServices: one scenario for each service, see below | `HealthyLinkKept`, `CommandsAnswered`, `LossesExplained`, `RequeueExplained`, `CompletedIsRecorded`, `CrashExplained`, `DamageExplained`, `DownloadsApart`, `SleepersCanWake`, `HonestPageKept`, `NothingLostSilently`, `SearchBounded`, `SmokeAccounted` and the types hold in 1.6 million states |
| `settles` | MCSettles: connector, radar and console hub, fairness | `LostLinkReplaced`, `RadarStops`, `GoneViewerLeaves` hold |
| `cloud_backoff` | no cloud, 40 failures | `RetriesForever` is violated: the back-off panics after the 35th failure in a row, about an hour without the cloud |

The bounds. Two actors of a kind meet in every way two goroutines can; two runs
are needed for what a later batch sees of an earlier one, and no property relates
three. Capacities of 1 make full queues common, where 50 and 256 would hide them;
the response channel keeps its capacity of 2, which the last part of `NothingLeaks` is about. One restart is
enough for ids to come twice. Two attempts are enough for an attempt to follow a
failed one. More faults of the POC add nothing of a new kind, and the theorems cover any number.

The scenarios of `services`. The services meet only through what the modules
already share, so a state of all of them together would show nothing more than each alone, and
would not be finite in practice. The variable `scenario` picks one, from all its initial states; the
others stay as they begin. The connector and the radar are in two scenarios each.

| Scenario | Bounds | Why they are enough |
|---|---|---|
| link | 2 links, 2 commands, metrics, Stop, 1 failed dial | the heartbeat of an old link meets a new one; two commands answer across a change of link. Failures beyond the first only lengthen a sleep (`cloud_backoff` counts them) |
| sync | 2 rows, one in each table, 3 stores, 2 pushes at once, batches of 1 | a full batch, a store between query and mark, an overlap |
| queue | 2 rows, 1 video, 2 completions, 1 pause or resume, 2 events, restart | what each pair of requests may do between two statements |
| radar, targets | 1 video, 3 rows with one event; 2 targets, 2 edits, Stop | a row from before, one from the look, one added |
| console | 2 clients, 1 broadcaster (and ticker), capacities 1 | full buffers, a broadcast over two clients, one of them slow or gone |
| uploads | 1 upload of 2 parts, 3 chunk requests, 2 merges, 1 save | a part sent twice beside the other; merge against merge, against chunk, against save |
| single | 3 requests, 1 cancel, 2 videos | a download goes on after its cancel while a second one runs and a third is let in by the first one's `Delete`; the second may be forced or for the other video, the third comes only if all are for one |
| bridge | 2 connections, 2 calls, 1 report of a state beyond the first | an answer of a page that was replaced; the retry of a call |
| comments | 3 pages, the last one empty, 3 comments with 3, 2 and no replies, 24 sets of limits, 3 collectors | each limit met, exceeded and out of reach; an interruption at every page, and one of the continuation |
| smoke | 1 test, any number of clean-ups | exact: one certificate, one job |
| search | 3 works, limit 2, 4 pages, 2 without progress, 1 account a page, 2 tries | each end of a search, and one after a failed try |

`CHECK_DEADLOCK FALSE` stands where the program may stop: bounded calls and
restarts used up, a panic, a finished job.

Found with the same modules, without a run of its own:
- a cancel in the first moments of a run, before it has set `cancelFunc`, does nothing and
  says it did; a clear in that moment, or one that gives up after 5 s, drops the tasks under
  the run, whose goroutine may then index nil and whose worker may create a transfer nobody
  deletes. `CancelTakesEffect`, `NoIndexPanic` and `ArtifactsOwned` name these cases and show that
  there is no other;
- the strict form of `OwnAnswer`, without the exception for answers from before a restart, fails;
- a late answer delivered by `ReadPump` itself panics and drops a healthy connection;
- the POC runtime loses sight of a change at the four points of section 3 and at no
  other (`NothingForgotten`, `ReceiptExplained`); a death
  between the removal of `state.json` and of its directory, or a temporary file
  left in it, makes every later clean-up report an error although nothing is left.

Found while modelling the services; where a property names the exception, it
says that there is no other:
- sync: a record that does not fit into a batch is never sent, since the mark passes
  it and `HasMore` is never acted on; so is one stored between a query and its mark, and one
  written to a silent link (`LossesExplained`);
- radar: a paused or failed older row hides a newer one that waits, so that the radar adds the
  video again on each check (`RequeueExplained`); `s.ticker.C` is read while `Stop` sets
  it to nil, which panics (`RadarStops`); `UpdateTarget` writes back what it read (a
  lost update), as pause and resume do with a row;
- queue: a completed row whose record could not be written never gets it
  (`CompletedIsRecorded`);
- console hub: a pong to a client that was given up as slow, and a greeting to one
  that is gone, send on a closed channel and end the program (`CrashExplained`);
- bridge: a late or repeated answer closes the page's connection; no wait but that of
  the context limits `Call`, and the wait for `writeMu` is not covered by the 5 s of a
  write; the human wait resolves at once if the page is visible and has the method;
- uploads: a chunk that breaks off leaves a part that a later merge takes, since a
  merge looks only whether parts are there; a chunk refused for its checksum does not. A
  refused merge leaves an empty file; a merge and a save may choose the same name.
  With `upload_merge_concurrency` above 1 two merges of an upload break
  `DamageExplained`. The flow in `web/docs/API.md` sends complete before the chunks are up;
- single downloads: two requests that pass the test before either is entered run at
  once and write one temporary file; `cancel_download` deletes the entry of a download that still
  ends, whose deferred `Delete` then removes the entry of a newer one, so that a
  later cancel finds nothing and answers success; a cancel after the transfer has no effect
  (`DownloadsApart`);
- comments: why a collection is partial or truncated is not in the checkpoint, so a
  continued one returns unmarked; only what all its collectors said together is complete
  (`NothingLostSilently` counts that). After a continuation a source that repeats
  its marker is not noticed. And where a page shows exactly as many replies to a comment as a limit
  allows, and the source says there are more, `comments.go:176` does not queue the comment, and nothing marks
  the work as truncated, though the design has a work record whether it was
  (`docs/superpowers/specs/2026-07-28-wechat-channel-comment-poc-design.md:249`): with one comment, one reply shown of
  three and `RepliesPerComment` 1 the result says complete. `NothingLostSilently` excuses these replies only;
- certificate smoke test: a clean-up started while it runs may remove `state.json`
  between the note and the import; a death then leaves a trusted root nobody knows of
  (`SmokeAccounted` excuses only tests overtaken so). A death before the first note leaves the
  key's file, which the clean-up command refuses to remove without a `state.json`;
- search: a feed cut short on an earlier page is forgotten, and the search ends as
  `source_exhausted`; one without a marker is saved as incomplete but returned as exhausted.

## 5. Fairness

- BatchDownload: weak fairness of each run and each worker, that is, of
  goroutines that can go on. The engine owes nothing: an attempt ends by the
  timeout of its context, and requests need not come.
- ApiHub: weak fairness of the hub, the pumps, the workers, and of a call that has
  begun, whose timeout is a timer. Pages owe nothing.
- PocRuntime: the operator repeats the clean-up (weak fairness of the command's
  steps), and each command that undoes something works some time if tried again
  and again (strong fairness). Without the second nothing could be promised, as the
  clean-up has no other means. The run owes nothing.
- Connector: weak fairness of `connectLoop` and the heartbeat loops: sleeps, dials,
  reads and writes have timers or deadlines; strong fairness of the end of the 3 s pause, which
  ticks 10 s apart cannot hold up. The cloud owes nothing, so
  `LostLinkReplaced` allows for the bound on links.
- Radar: weak fairness of the poller, whose call has a timeout of 30 s, and of `Stop`.
- ConsoleHub: weak fairness of what goes on by itself (offers of a broadcast, the
  statistics' ticker, a reader whose socket is gone, a writer), strong fairness of the cases
  of `Run`'s select and of the senders that wait for it, as Go picks among ready cases at random and
  serves blocked senders in order; a write to a silent socket fails in the end, by its
  10 s deadline. Pages owe nothing.

## 6. Theorems

BatchDownloadProofs, for all videos, lists, file names, workers, retries, runs and
transfers: every safety property a run checks of BatchDownload. A theorem names the
assumptions it needs as hypotheses, and the invariants build on each other, a
theorem using the layers it needs.

| Theorem | Needs | Invariant and argument |
|---|---|---|
| `DoneOnDisk` | `DistinctNames` | `Shape`: types, and every worker's pointer leads to a task of its array, which no request shortens. `DiskInv`: a path has the name of the video it is chosen for, a worker calls a task done only after its rename, and only a rename under the same name takes a file away. Any number of requests at a time |
| `OneRunnerWhenSerial` | `SerialClients` | `ControlInv`: why a run keeps the handler busy (`running` from the `go` statement to a cancel, `cancelFunc` from the run's first step to its last) and that nothing runs between a start's busy test and its `go` |
| `QuietSettled`, `FinishedStays` | `SerialClients` | `CrewInv`: each index goes from dispatcher to channel to one worker, at most once. `TaskInv`: a task called downloading is in a worker's hands, an index handed out is not done, and workers hold tasks of the current array only |
| `TypesHold` | `SerialClients` | `WorkInv`: between `WorkerPrepare` and `WorkerCreated` nobody else changes the worker's task, so it still has its TempPath when the transfer is made |
| `CancelTold` | `SerialClients` | `CancelStops`: the run whose `cancelFunc` a cancel read is the only one active until it answers; a cancel that found none met a run that was still to make its first step |
| `NoPanic` | `SerialClients` | `Orderly`: a clear drops the array under no active run but those in `cut`, so for any other an index below the length a dispatcher read is below the present one |
| `ArtifactsKept` | `SerialClients` | `OwnInv`: whose each transfer and temporary file is, a stray of a run in `cut` included, and what a cleaning request still has on its list |
| `IdleAfterRun` | `SerialClients` | `NoResume`: with resume off a task's transfer is the one its worker is at, so the worker that gives up deletes it |
| `OneFilePerVideo` | `SerialClients`, `NeverForced`, `DistinctVideos` | `OnceInv`: a video without a record has no file, and one worker at most is downloading it; file and record are written by one step, `WorkerMove` |

The hypotheses. `SerialClients`: one request at a time, the console's own use
(`batch_two_starts` shows the property lost without it). `DistinctNames`: no two videos
share a file name (`batch_same_name`). `NeverForced`, `DistinctVideos`: a forced download is
meant to store again, and two tasks of one video may both find no record. No theorem assumes anything of
the timing of runs, clears and cancels.
`batch_one_console` satisfies all of them. `NoPathAssumption` says that the empty string is no path.

`TypeCorrect`, `AnswersAreOwn` (ApiHubProofs). For all callers, pages,
connections and capacities. The inductive invariant follows a call's number through every place
its request or answer can be: outboxes, uplinks, the pages' work, queues, workers, channels. A message with id `i` of this process belongs to the
call `i`, because `reqSeq` and the calls made before the restart add up to the
calls made; so what a channel made for `i` holds is the answer to that call or one from before the restart.

`TypeCorrect`, `LeftIsNamed`, `ReceiptsAreTrue`, `GivenUpWhenClean`
(PocRuntimeProofs). For any number of faults of the run, of deaths of the clean-up and of clean-ups beside
the live run, without a hypothesis. The invariant says what the run's memory knows at each phase
(`RunKnows`, `UndoneInOrder`), that `state.json` names it unless the note of it was lost (`StateFollows`), what
a clean-up command still has to undo (`CleanerKnows`), and what the receipts
claim (`ReceiptsTrue`), each but for what has slipped; a thing slips only by one of the four actions
of section 3. `DiscardedWhenClean` is proved without a run of its own. The strict
`ReceiptHonest` is false, as `poc_receipt` shows.

`ImplementsCalls` (ApiHubProofs). Every step of the hub is a step of `CallService` or a
stutter under the mapping of section 3. Of the invariant above it needs that the
answer in a caller's hand is the one to its request, and that a caller that enters has none.

`RegistryFollows`, `LoadCounts`, `NothingIsLeaked` (ApiHubProofs), for all callers, pages,
connections and capacities. `PumpInv` says for each place of a reader whether its client
is registered and what the hub has in its hand, and that ReadPump hands an answer over itself only
while it reads. `LoadInv` is `LoadIsCalls` with the set of calls finite, so that the
counter is positive whenever it is lowered. `TableOfCalls` gives each id one call, fresh because
`reqSeq` is above every id in use. The last part of `NothingLeaks`, that there is room for whoever
has an answer to hand over, needs more: there is one copy of each message among
all outboxes, sockets, pages, queues, workers and channels (`CopyInv`, with one lemma per step that carries a
message), the request of an enrolled call is nowhere yet (`Fresh`), and
among messages with one id there is at most one for each process (`BaseInv`). So a channel never needs more
places than there were processes: the hypothesis `MaxRestarts < ChanCap`, which the code's
capacity of 2 meets for the one restart of the runs. It is tight: with a capacity of 1 and one
restart TLC finds a worker that waits, because the page still works on a call of the process before.

`HealthyLinksAreKept`, `CommandsAreAnswered` (ConnectorProofs). For any links,
failures and commands. `connectLoop` dials only when the link before is closed, so at most the
current one is up; a heartbeat about to close is under way only while the loop serves or
pauses, when no healthy link can take its place; a command whose own link is
up answers on that link. `LinksKeptBesidePusher` says both of the composition with SyncPusher,
whose steps write frames to the current link and touch nothing else of the connector.

`LossesAreExplained` (ConnectorProofs). For any records, batch size, links and pushes
at once. `SyncInv`: times are given out in order, a mark only grows, and what a push has read lies
above the mark it read; so a record behind a mark that moves was behind it before, is in the batch that
moves it, fell out of a batch that was full (`Cut`: the batch is the oldest of what was asked for), or was
stored after the query and is excused. That the batch holds the oldest needs least elements,
which `Least` gets from the well-foundedness of the naturals.

`CompletedAreRecorded` (DownloadQueueProofs). For any videos, requests and rows. The
row a completion has read was inserted before, so its video is settled; a request between
the two tables is on its way, or leaves its row among the unrecorded.

`RadarUsesQueue`, `RequeuesExplained` (DownloadQueueProofs). For any videos, rows and
requests. Each step of the radar leaves the tables alone or is a `QueueAdd`, so `RadarSpec`
implements `QueueSpec`. `RadarInv`: when it adds, each row of the candidate came after `seenRows`, what the
table held when it began to look, or is not older than `hidden`, the oldest then; that there is an
oldest comes from `Least`.

`CrashesAreExplained` (ConsoleHubProofs). For any clients, broadcasters and capacities. Only
the step that takes a client out of the registry closes its channel, and no client
comes back; so a channel closed is that of a client given up as slow or whose
reader has ended, and a reader about to pong has not ended.

`SleepersWake`, `HonestPagesAreKept` (PocBridgeProofs). For any connections, calls
and reports. Only the attached page has a reader, so a call that waits is
enrolled for the page it went to, whose end fails it; what an honest page still owes is the one
call in progress, pending and with an empty channel until its answer is in it.

`SearchesAreBounded` (PocBridgeProofs). For any finite set of works, limits and answers of
the source. The invariant adds up a debt: a page pays for its own request and for one to each account it
listed, those not yet asked included (`Owed`), and each further page of a feed is paid for by the new work the
page before it brought; the works are bounded by the limit, which `AcceptsAdds` proves of every
page, whatever is on it.

`DownloadsStayApart` (SingleDownloadProofs). For any requests, videos and cancels. A
download of a video that has not slipped is the one its entry names, so no second
one passes the test while it runs; so its temporary file is its own and whole when moved, and a
name that is not contested is free when it is renamed to, so no recorded file is replaced.

`DamagesAreExplained` (SingleDownloadProofs). For any uploads, parts, chunks, merges and
saves, under `OneMerge` (`MergeCap = 1`, the default of `upload_merge_concurrency`; with more, two merges may take one
name and write into one file). `CutInv`: a part that is not whole is being written by the request that created it, or
its upload is damaged. `WholeInv`: so what a merge has copied is whole or damaged. `FileInv`: whoever has created
its file is the last to have created it, unless a save took the name; the one engaged merge is
alone between choosing a name and creating the file.

`CommentsAccounted` (PocBridgeProofs). For any pages, replies, limits and number of collectors,
ended anywhere and begun again. As long as nothing has been told (`told`): each comment of the pages before the
marker is in hand (`Taken`), and stays so, for what is in hand only grows (`Grows`). Each comment in hand has its
replies in hand, is still to be asked for them, or has reached a limit (`Known`, `Settled`). `PointInv` says the
same of the checkpoint, so that a collector begun from it loses nothing. Each page is taken by a recursive function on its places,
`TakeReplies` and `TakeComments`; that the function exists, and that what each step preserves is preserved by the
page, are arguments by a least counterexample.

`SmokesAccounted` (PocRuntimeProofs). Whichever steps fail and whoever dies. `NotedInv`: unless the clean-up began
beside the test, `state.json` claims the certificate before it is installed and until it has been seen gone, and the
clean-up takes the note back only when nothing is left of what it names; `ForeignInv`: who claims a certificate did not
find it there; `ReceiptInv` and `WrittenInv`: what a receipt says was seen, and nothing comes back after it.

`CloudTypesHold`, `ConnectorTypesHold` (ConnectorProofs) and `RadarTypesHold` (DownloadQueueProofs) are type
correctness where it needs an argument: a heartbeat that runs has missed two at most, because a link
that is about to be served has had none (`CountInv`); stamps asked for come after a stamp, so they begin at 1
(`StampInv`); an edit that writes has read a target. The types of ConsoleHub, DownloadQueue, PocBridge, WorkSearch,
CommentPages, SingleDownload, CertSmoke and, with one merge at a time, Uploads are part of the theorems above.

Assumptions on constants are the named ASSUMEs of the modules, which TLC evaluates
in every run. Only model-checked: `ServicesTypeOK`, each part of which is a theorem
of its component, since it says which component a scenario of the run is about; and everything under
fairness (`RunEnds`, `CallEnds`, `ClosedLeaves`, `CleanupRestores`, `LostLinkReplaced`,
`RadarStops`, `GoneViewerLeaves`), since the prover has no ENABLED and no fairness. What a recursive operator
computes for every input cannot be proved, since no prover instantiates the library's induction
theorems; arguments by a least counterexample among the naturals are possible, and four modules use one.

## 7. Not modelled

- Chunked downloader: nothing constructs it. `downloadVideoWithRetry` and
  `downloadWithHeaders` of `upload.go` have no caller.
- POC batch: planned. `save_cover` writes one picture in one step and
  `upload_status` reads.
- Console API, search and sharing, decryption, configuration, database, page injection, start and
  stop: sequential translations of a request, a page or a file, in which no two
  actors meet but through what is modelled; their faults are a unit test's.
- SunnyNet (`pkg/sunnynet`) is a vendored proxy with its own copies of `crypto/tls` and
  a websocket library. It makes up most of the Go lines, which is why the lines the
  map names are a small part of all.

## 8. Files

`X.tla` is a component, `XProofs.tla` its theorems (those of WorkSearch and CommentPages are in
PocBridgeProofs, of CertSmoke in PocRuntimeProofs, of Uploads in SingleDownloadProofs, of Radar in
DownloadQueueProofs, of SyncPusher in ConnectorProofs). `MCBatch`, `MCApiHub`, `MCServices` and
`MCSettles` give the constants values for TLC and compose; a `.cfg` has the name of
its run. Definitions that begin with "Mutant of" in their comment are
plausible bugs of the definition below them; each property is checked to fail when
its mutant takes the definition's place. `PROJECT.json` maps each definition to
the lines it models.
