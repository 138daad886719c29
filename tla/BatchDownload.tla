--------------------------- MODULE BatchDownload ---------------------------
(***************************************************************************)
(* The batch downloader: BatchHandler (internal/handlers/batch.go), the    *)
(* Gopeed engine as GopeedService wraps it, the files on disk and the      *)
(* download records.  Four kinds of process share the handler's fields:    *)
(*   - the requests batch_start, batch_cancel, batch_resume, batch_clear,  *)
(*     one goroutine each (Clients);                                       *)
(*   - one goroutine per run, startBatchDownload, which dispatches;        *)
(*   - the run's workers, each downloading one video at a time;            *)
(*   - the engine, which finishes or fails its transfers on its own.       *)
(* A step is what the code does between two points at which another        *)
(* goroutine may act: a critical section of h.mu, a channel operation, a   *)
(* call of the engine, a test of the context, a file operation.            *)
(***************************************************************************)
EXTENDS Integers, Sequences, FiniteSets

CONSTANTS
  Clients,       \* the concurrent HTTP requests
  Videos,        \* the video ids a client may ask for
  Name,          \* Name[v]: the file name downloadVideo builds for video v
  Lists,         \* the lists of videos a batch_start may carry
  Forces,        \* the values of forceRedownload a client may send
  Workers,       \* the worker goroutines of one run (DownloadConcurrency)
  MaxRetries,    \* attempts per task (DownloadRetryCount)
  ResumeModes,   \* the values config.DownloadResumeEnabled may have
  MaxRuns,       \* bound: runs started in a behaviour
  MaxTransfers,  \* bound: transfers created in the engine
  NoPath         \* "" in TempPath, FinalPath and a record's FilePath

ASSUME CountsAssumption ==
  /\ MaxRetries \in Nat \ {0}
  /\ MaxRuns \in Nat
  /\ MaxTransfers \in Nat
ASSUME ListsAssumption == Lists \subseteq Seq(Videos) \ {<<>>}
ASSUME FlagsAssumption ==
  /\ Forces \subseteq BOOLEAN /\ ResumeModes \subseteq BOOLEAN

VARIABLES
  resumable,   \* the configuration's DownloadResumeEnabled
  batches,     \* every array h.tasks has pointed to: runs keep pointers into old ones
  cur,         \* h.tasks: an index of batches, 0 for nil
  running,     \* h.running
  cancelFunc,  \* h.cancelFunc: the run whose context it cancels, 0 for nil
  runPc,       \* where each run's dispatcher is
  ctx,         \* each run's context
  run,         \* each dispatcher's locals and its taskChan
  wk,          \* each worker's locals
  engine,      \* the engine's transfers
  tmpFiles,    \* the temporary files on disk
  disk,        \* the finished files on disk, <<path, video>>
  records,     \* the download record of each video: its FilePath
  reqPc,       \* where each request being served is
  req,         \* its locals: list, force, the run to stop, what is left to clean or pause
  crashed,     \* a goroutine without recover panicked: the process is gone
  cut,         \* history: the runs going on that a batch_clear did not wait for
  strays       \* history: what their workers have created since, as artifacts

control == <<cur, running, cancelFunc, runPc, ctx>>
files   == <<engine, tmpFiles, disk, records>>
history == <<cut, strays>>
vars    == <<resumable, batches, control, run, wk, files, reqPc, req, crashed, history>>

Runs      == 1..MaxRuns
Transfers == 1..MaxTransfers
NoRun     == 0
NoId      == 0

\* "name.mp4", "name(1).mp4", "name(1)(1).mp4", ...
Paths     == [name: {Name[v] : v \in Videos}, copy: Seq(Nat)]
TempPaths == Paths \X Videos  \* BuildTempDownloadPath(final, id)
PathOf(v) == [name |-> Name[v], copy |-> <<>>]
ASSUME NoPathAssumption == NoPath \notin Paths \cup TempPaths

Task == [video: Videos, status: {"pending", "downloading", "done", "failed"},
         gid: Transfers \cup {NoId},
         temp: TempPaths \cup {NoPath}, final: Paths \cup {NoPath}]

NewTask(v) == [video |-> v, status |-> "pending", gid |-> NoId,
               temp |-> NoPath, final |-> NoPath]

Tasks == IF cur = 0 THEN <<>> ELSE batches[cur]  \* h.tasks

\* Mutant of Busy: a run that is winding down does not count.
BusyFlagOnly == running

Busy == running \/ cancelFunc # NoRun

FreeWorker == [pc |-> "idle", gen |-> 0, idx |-> 0, try |-> 0,
               gid |-> NoId, dest |-> NoPath, result |-> "none"]
NewReq     == [list |-> <<>>, force |-> FALSE, stop |-> NoRun, left |-> {}]
NewRun     == [force |-> FALSE, len |-> 0, next |-> 1, sent |-> 0, chan |-> <<>>]

Init ==
  /\ resumable \in ResumeModes
  /\ batches = <<>> /\ cur = 0
  /\ running = FALSE /\ cancelFunc = NoRun
  /\ runPc = [r \in Runs |-> "none"]
  /\ ctx = [r \in Runs |-> "live"]
  /\ run = [r \in Runs |-> NewRun]
  /\ wk = [x \in Runs \X Workers |-> FreeWorker]
  /\ engine = [e \in Transfers |-> [st |-> "unused", temp |-> NoPath]]
  /\ tmpFiles = {} /\ disk = {}
  /\ records = [v \in Videos |-> NoPath]
  /\ reqPc = [c \in Clients |-> "idle"]
  /\ req = [c \in Clients |-> NewReq]
  /\ crashed = FALSE
  /\ cut = {} /\ strays = {}

----------------------------------------------------------------------------
(* Shared pieces of the code.                                              *)

\* cleanupTaskArtifacts(gid, temp, true) for each of a set of artifacts:
\* the engine forgets the transfer and its file, and TempPath is removed.
Delete(ids) ==
  engine' = [e \in Transfers |-> IF e \in ids THEN [st |-> "gone", temp |-> NoPath]
                                              ELSE engine[e]]

Clean(arts) ==
  LET ids == {a.gid : a \in arts} \ {NoId}
  IN  /\ Delete(ids)
      /\ tmpFiles' = tmpFiles \ ({a.temp : a \in arts} \cup {engine[e].temp : e \in ids})

Artifacts(s) == {[gid |-> s[i].gid, temp |-> s[i].temp] : i \in DOMAIN s}

\* go h.startBatchDownload(force)
Spawn(force) ==
  \E r \in Runs :
    /\ runPc[r] = "none"
    /\ \A q \in Runs : q < r => runPc[q] # "none"
    /\ runPc' = [runPc EXCEPT ![r] = "spawned"]
    /\ run' = [run EXCEPT ![r].force = force]

Stored(p) == \E f \in disk : f[1] = p

\* GenerateUniquePath: the first of name, name(1), name(2), ... not on disk,
\* as the set of the one path it is.
CopyOf(p, k) == IF k = 0 THEN p ELSE [p EXCEPT !.copy = Append(@, k)]
UniquePath(p) ==
  LET free == {k \in 0..Cardinality(disk) : ~Stored(CopyOf(p, k))}
  IN  {CopyOf(p, k) : k \in {n \in free : \A j \in free : n <= j}}

----------------------------------------------------------------------------
(* The requests.                                                           *)

Accepting(c) == reqPc[c] = "idle"

\* A bound, not code: requests that start a run stop when MaxRuns is used up.
RunLeft == \E r \in Runs : runPc[r] = "none"

Answer(c) == reqPc' = [reqPc EXCEPT ![c] = "idle"] /\ req' = [req EXCEPT ![c] = NewReq]

\* HandleBatchStart, first half: under RLock, busy and a copy of the old tasks.
StartCheck(c) ==
  /\ Accepting(c) /\ RunLeft
  /\ ~Busy
  /\ \E list \in Lists, force \in Forces :
       req' = [req EXCEPT ![c] = [list |-> list, force |-> force,
                                  stop |-> NoRun, left |-> Artifacts(Tasks)]]
  /\ reqPc' = [reqPc EXCEPT ![c] = "startClean"]
  /\ UNCHANGED <<batches, control, run, wk, files, crashed>>

\* The old tasks' artifacts, outside the lock.  The loop over them is one step,
\* here and in ClearClean: a step of others between two of its deletions counts as
\* coming before or after all of them.
StartClean(c) ==
  /\ reqPc[c] = "startClean"
  /\ Clean(req[c].left)
  /\ reqPc' = [reqPc EXCEPT ![c] = "startInstall"]
  /\ req' = [req EXCEPT ![c].left = {}]
  /\ UNCHANGED <<batches, control, run, wk, disk, records, crashed>>

\* An array no worker points into any more is garbage.
Holding(x)     == wk[x].pc \notin {"idle", "picked", "exit"}
Collect(g)     == IF \E x \in Runs \X Workers : Holding(x) /\ wk[x].gen = g
                    THEN batches[g] ELSE <<>>

\* Under Lock, without looking at busy again: the new tasks, and the run.
StartInstall(c) ==
  /\ reqPc[c] = "startInstall"
  /\ batches' = Append([g \in DOMAIN batches |-> Collect(g)],
                       [i \in DOMAIN req[c].list |-> NewTask(req[c].list[i])])
  /\ cur' = Len(batches) + 1
  /\ running' = TRUE
  /\ Spawn(req[c].force)
  /\ Answer(c)
  /\ UNCHANGED <<cancelFunc, ctx, wk, files, crashed>>

\* Mutant of Interrupted: every task that has been begun.
InterruptedBegun(live) == {i \in DOMAIN Tasks : live /\ Tasks[i].status # "pending"}

\* The tasks batch_cancel puts back: the ones being downloaded.
Interrupted(live) == {i \in DOMAIN Tasks : live /\ Tasks[i].status = "downloading"}

\* HandleBatchCancel, under Lock (with nothing to cancel it changes nothing).
CancelLock(c) ==
  LET live == running /\ cancelFunc # NoRun
      hit  == Interrupted(live)
  IN  /\ Accepting(c) /\ Busy
      /\ running' = (running /\ ~live)
      /\ batches' = IF cur = 0 THEN batches ELSE
           [batches EXCEPT ![cur] = [i \in DOMAIN @ |->
              IF i \in hit THEN [@[i] EXCEPT !.status = "pending"] ELSE @[i]]]
      /\ reqPc' = [reqPc EXCEPT ![c] = "cancel"]
      /\ req' = [req EXCEPT ![c] = [NewReq EXCEPT !.stop = cancelFunc,
                   !.left = {a \in Artifacts(Tasks) : /\ resumable /\ a.gid # NoId
                                                      /\ \E i \in hit : Tasks[i].gid = a.gid}]]
      /\ UNCHANGED <<cur, cancelFunc, runPc, ctx, run, wk, files, crashed>>

\* PauseTask for one of the collected ids.
CancelPause(c) ==
  /\ reqPc[c] = "cancel"
  /\ \E a \in req[c].left :
       /\ engine' = [engine EXCEPT ![a.gid].st = IF @ = "running" THEN "pause" ELSE @]
       /\ req' = [req EXCEPT ![c].left = @ \ {a}]
  /\ UNCHANGED <<batches, control, run, wk, tmpFiles, disk, records, reqPc, crashed>>

\* Mutant of CancelCtx: with resume enabled pausing the transfers is enough.
CancelCtxPauseOnly(c) ==
  /\ reqPc[c] = "cancel" /\ req[c].left = {}
  /\ ctx' = [r \in Runs |-> IF r = req[c].stop /\ ~resumable THEN "cancelled" ELSE ctx[r]]
  /\ Answer(c)
  /\ UNCHANGED <<batches, cur, running, cancelFunc, runPc, run, wk, files, crashed>>

\* cancel(), if the locked section found one; the answer says it is cancelled.
CancelCtx(c) ==
  /\ reqPc[c] = "cancel" /\ req[c].left = {}
  /\ ctx' = [r \in Runs |-> IF r = req[c].stop THEN "cancelled" ELSE ctx[r]]
  /\ Answer(c)
  /\ UNCHANGED <<batches, cur, running, cancelFunc, runPc, run, wk, files, crashed>>

\* HandleBatchResume, all of it under Lock.  Its second case, a failed task
\* whose Error is the cancellation text, is left out: no code writes that text.
Resume(c) ==
  /\ Accepting(c)
  /\ \E i \in DOMAIN Tasks : Tasks[i].status = "pending"
  /\ ~Busy
  /\ running' = TRUE
  /\ \E force \in Forces : Spawn(force)
  /\ UNCHANGED <<batches, cur, cancelFunc, ctx, wk, files, reqPc, req, crashed>>

\* Mutant of ClearLock: the run is neither cancelled nor waited for.
ClearLockAtOnce(c) ==
  /\ Accepting(c)
  /\ running' = (running /\ cancelFunc = NoRun)
  /\ reqPc' = [reqPc EXCEPT ![c] = "clearDrop"]
  /\ req' = [req EXCEPT ![c] = [NewReq EXCEPT !.stop = cancelFunc]]
  /\ UNCHANGED <<batches, cur, cancelFunc, runPc, ctx, run, wk, files, crashed>>

\* HandleBatchClear, the first locked section.
ClearLock(c) ==
  /\ Accepting(c)
  /\ running' = (running /\ cancelFunc = NoRun)
  /\ reqPc' = [reqPc EXCEPT ![c] = IF cancelFunc # NoRun THEN "clearCancel" ELSE "clearDrop"]
  /\ req' = [req EXCEPT ![c] = [NewReq EXCEPT !.stop = cancelFunc]]
  /\ UNCHANGED <<batches, cur, cancelFunc, runPc, ctx, run, wk, files, crashed>>

ClearCancel(c) ==
  /\ reqPc[c] = "clearCancel"
  /\ ctx' = [ctx EXCEPT ![req[c].stop] = "cancelled"]
  /\ reqPc' = [reqPc EXCEPT ![c] = "clearWait"]
  /\ UNCHANGED <<batches, cur, running, cancelFunc, runPc, run, wk, files, req, crashed>>

\* The polling loop ends: not busy any more, or five seconds have passed; a run
\* may outlast them.
ClearWait(c) ==
  /\ reqPc[c] = "clearWait"
  /\ reqPc' = [reqPc EXCEPT ![c] = "clearDrop"]
  /\ UNCHANGED <<batches, control, run, wk, files, req, crashed>>

\* The second locked section: h.tasks = nil.
ClearDrop(c) ==
  /\ reqPc[c] = "clearDrop"
  /\ reqPc' = [reqPc EXCEPT ![c] = "clearClean"]
  /\ req' = [req EXCEPT ![c].left = Artifacts(Tasks)]
  /\ cur' = 0
  /\ UNCHANGED <<batches, running, cancelFunc, runPc, ctx, run, wk, files, crashed>>

ClearClean(c) ==
  /\ reqPc[c] = "clearClean"
  /\ Clean(req[c].left)
  /\ Answer(c)
  /\ UNCHANGED <<batches, control, run, wk, disk, records, crashed>>

Request(c) ==
  \/ StartCheck(c) \/ StartClean(c) \/ StartInstall(c)
  \/ CancelLock(c) \/ CancelPause(c) \/ CancelCtx(c)
  \/ Resume(c)
  \/ ClearLock(c) \/ ClearCancel(c) \/ ClearWait(c) \/ ClearDrop(c) \/ ClearClean(c)

----------------------------------------------------------------------------
(* startBatchDownload, the dispatcher of run r.                            *)

RunnerBegin(r) ==
  /\ runPc[r] = "spawned"
  /\ cancelFunc' = r
  /\ runPc' = [runPc EXCEPT ![r] = "setup"]
  /\ UNCHANGED <<batches, cur, running, ctx, run, wk, files, reqPc, req, crashed>>

\* The downloads directory; then the channel, its workers and the range of the
\* loop, all sized by h.tasks as it is now.  The channel never fills up.
RunnerSetup(r) ==
  /\ runPc[r] = "setup"
  /\ \/ runPc' = [runPc EXCEPT ![r] = "finish"] /\ UNCHANGED run
     \/ /\ runPc' = [runPc EXCEPT ![r] = "dispatch"]
        /\ run' = [run EXCEPT ![r].len = Len(Tasks)]
  /\ UNCHANGED <<batches, cur, running, cancelFunc, ctx, wk, files, reqPc, req, crashed>>

Dispatching(r) == runPc[r] = "dispatch" /\ run[r].next <= run[r].len

\* h.tasks[i] with i beyond the slice h.tasks is by now.
DispatchPanic(r) ==
  /\ Dispatching(r) /\ run[r].next > Len(Tasks)
  /\ crashed' = TRUE
  /\ UNCHANGED <<batches, control, run, wk, files, reqPc, req>>

DispatchSkip(r) ==
  /\ Dispatching(r) /\ run[r].next <= Len(Tasks)
  /\ Tasks[run[r].next].status # "pending"
  /\ run' = [run EXCEPT ![r].next = @ + 1]
  /\ UNCHANGED <<batches, control, wk, files, reqPc, req, crashed>>

\* The select: with the context cancelled both of its cases are ready.  The
\* status is read under RLock just before it.
DispatchSend(r) ==
  /\ Dispatching(r) /\ run[r].next <= Len(Tasks)
  /\ Tasks[run[r].next].status = "pending"
  /\ run' = [run EXCEPT ![r].next = @ + 1, ![r].sent = @ + 1,
                        ![r].chan = Append(@, run[r].next)]
  /\ UNCHANGED <<batches, control, wk, files, reqPc, req, crashed>>

DispatchStop(r) ==
  /\ Dispatching(r) /\ run[r].next <= Len(Tasks)
  /\ Tasks[run[r].next].status = "pending"
  /\ ctx[r] = "cancelled"
  /\ runPc' = [runPc EXCEPT ![r] = "wait"]
  /\ UNCHANGED <<batches, cur, running, cancelFunc, ctx, run, wk, files, reqPc, req, crashed>>

\* close(taskChan); with nothing sent the run ends without waiting.
DispatchEnd(r) ==
  /\ runPc[r] = "dispatch" /\ run[r].next > run[r].len
  /\ runPc' = [runPc EXCEPT ![r] = IF run[r].sent = 0 THEN "finish" ELSE "wait"]
  /\ UNCHANGED <<batches, cur, running, cancelFunc, ctx, run, wk, files, reqPc, req, crashed>>

\* wg.Wait()
RunnerWait(r) ==
  /\ runPc[r] = "wait"
  /\ \A w \in Workers : wk[<<r, w>>].pc = "exit"
  /\ runPc' = [runPc EXCEPT ![r] = "finish"]
  /\ UNCHANGED <<batches, cur, running, cancelFunc, ctx, run, wk, files, reqPc, req, crashed>>

\* The deferred function.
RunnerFinish(r) ==
  /\ runPc[r] = "finish"
  /\ running' = FALSE
  /\ cancelFunc' = NoRun
  /\ ctx' = [ctx EXCEPT ![r] = "cancelled"]
  /\ runPc' = [runPc EXCEPT ![r] = "done"]
  /\ run' = [run EXCEPT ![r] = NewRun]
  /\ UNCHANGED <<batches, cur, wk, files, reqPc, req, crashed>>

Runner(r) ==
  \/ RunnerBegin(r) \/ RunnerSetup(r)
  \/ DispatchPanic(r) \/ DispatchSkip(r) \/ DispatchSend(r) \/ DispatchStop(r)
  \/ DispatchEnd(r) \/ RunnerWait(r) \/ RunnerFinish(r)

----------------------------------------------------------------------------
(* A worker x = <<r, w>> of run r: the loop of startBatchDownload and, for  *)
(* one task, downloadVideo and downloadVideoOnce.  x holds a pointer to a   *)
(* task, <<gen, idx>>, which stays valid when h.tasks is replaced.          *)

TaskOf(x)     == batches[wk[x].gen][wk[x].idx]
SetTask(x, t) == batches' = [batches EXCEPT ![wk[x].gen][wk[x].idx] = t]
At(x, pc)     == wk[x].pc = pc
Goto(x, pc)   == wk' = [wk EXCEPT ![x].pc = pc]
Settle(x, res) == wk' = [wk EXCEPT ![x].pc = "settle", ![x].result = res]

\* range taskChan, then the test of the context.
WorkerTake(x) ==
  /\ At(x, "idle") /\ run[x[1]].chan # <<>>
  /\ run' = [run EXCEPT ![x[1]].chan = Tail(@)]
  /\ wk' = [wk EXCEPT ![x] =
       IF ctx[x[1]] = "cancelled" THEN [FreeWorker EXCEPT !.pc = "exit"]
       ELSE [FreeWorker EXCEPT !.pc = "picked", !.idx = Head(run[x[1]].chan)]]
  /\ UNCHANGED <<batches, control, files, reqPc, req, crashed>>

\* Mutant of Closed: the early return on a cancelled context forgets close.
ClosedAtEnd(r) == runPc[r] \in {"wait", "finish"} /\ run[r].next > run[r].len

\* taskChan has been closed.
Closed(r) == runPc[r] \in {"wait", "finish"}

WorkerExit(x) ==
  /\ At(x, "idle") /\ run[x[1]].chan = <<>> /\ Closed(x[1])
  /\ Goto(x, "exit")
  /\ UNCHANGED <<batches, control, run, files, reqPc, req, crashed>>

\* Under Lock: &h.tasks[taskIdx] of whatever h.tasks is now.
WorkerMark(x) ==
  /\ At(x, "picked") /\ wk[x].idx <= Len(Tasks)
  /\ batches' = [batches EXCEPT ![cur][wk[x].idx].status = "downloading"]
  /\ wk' = [wk EXCEPT ![x].pc = "begin", ![x].gen = cur]
  /\ UNCHANGED <<control, run, files, reqPc, req, crashed>>

WorkerPanic(x) ==
  /\ At(x, "picked") /\ wk[x].idx > Len(Tasks)
  /\ crashed' = TRUE
  /\ UNCHANGED <<batches, control, run, wk, files, reqPc, req>>

\* Mutant of AlreadyStored: the check is left out.
NeverStored(x) == FALSE

\* The test that lets downloadVideo skip: a record whose file is on disk.
AlreadyStored(x) == ~run[x[1]].force /\ Stored(records[TaskOf(x).video])

\* A record whose file is on disk ends the task, and so does the author's
\* directory when it cannot be made; otherwise FinalPath is chosen once, beside
\* a file that already has the name unless the download is forced.
WorkerBegin(x) ==
  LET t == TaskOf(x)
  IN  /\ At(x, "begin")
      /\ IF AlreadyStored(x)
           THEN Settle(x, "ok") /\ UNCHANGED batches
           ELSE \/ Settle(x, "failed") /\ UNCHANGED batches
                \/ /\ wk' = [wk EXCEPT ![x].pc = "try", ![x].try = 1]
                   /\ \E p \in IF t.final # NoPath THEN {t.final}
                              ELSE IF run[x[1]].force THEN {PathOf(t.video)}
                              ELSE UniquePath(PathOf(t.video)) :
                        SetTask(x, [t EXCEPT !.final = p])
      /\ UNCHANGED <<control, run, files, reqPc, req, crashed>>

\* The loop over retry: the context is tested before each attempt and during
\* the backoff; TempPath is built when there is none.
WorkerTry(x) ==
  LET t == TaskOf(x)
  IN  /\ At(x, "try")
      /\ IF ctx[x[1]] = "cancelled"
           THEN Settle(x, "paused") /\ UNCHANGED batches
           ELSE /\ Goto(x, "prepare")
                /\ SetTask(x, [t EXCEPT !.temp = IF @ = NoPath THEN <<t.final, t.video>> ELSE @])
      /\ UNCHANGED <<control, run, files, reqPc, req, crashed>>

Status(id) == IF id = NoId THEN "none" ELSE engine[id].st

\* Mutant of NextAttempt: one attempt too many.
OneMoreAttempt(x) ==
  IF wk[x].try <= MaxRetries
    THEN wk' = [wk EXCEPT ![x].pc = "try", ![x].try = @ + 1, ![x].dest = NoPath]
    ELSE Settle(x, "failed")

\* An attempt failed: the next one, or the task has failed.
NextAttempt(x) ==
  IF wk[x].try < MaxRetries
    THEN wk' = [wk EXCEPT ![x].pc = "try", ![x].try = @ + 1, ![x].dest = NoPath]
    ELSE Settle(x, "failed")

\* The transfer the task already has is looked at: resumed if it is paused,
\* dropped if it failed or the engine has lost it, waited for otherwise.
WorkerPrepare(x) ==
  LET t  == TaskOf(x)
      st == Status(t.gid)
  IN  /\ At(x, "prepare")
      /\ \/ /\ st = "none"
            /\ Goto(x, "create") /\ UNCHANGED <<batches, engine, tmpFiles>>
         \/ /\ resumable /\ st \in {"gone", "error"}
            /\ Clean({[gid |-> t.gid, temp |-> t.temp]})
            /\ SetTask(x, [t EXCEPT !.gid = NoId])
            /\ Goto(x, "create")
         \/ /\ resumable /\ st = "pause"
            /\ engine' = [engine EXCEPT ![t.gid].st = "running"]
            /\ Goto(x, "wait") /\ UNCHANGED <<batches, tmpFiles>>
         \/ /\ resumable /\ st = "pause"        \* ContinueTask fails
            /\ NextAttempt(x) /\ UNCHANGED <<batches, engine, tmpFiles>>
         \/ /\ st \in {"running", "done"} \/ (~resumable /\ st # "none")
            /\ Goto(x, "wait") /\ UNCHANGED <<batches, engine, tmpFiles>>
      /\ UNCHANGED <<control, run, disk, records, reqPc, req, crashed>>

\* createTask: os.Remove(tmpPath), then CreateTask, which may fail.
WorkerCreate(x) ==
  LET t == TaskOf(x)
  IN  /\ At(x, "create")
      /\ \/ /\ tmpFiles' = tmpFiles \ {t.temp}
            /\ NextAttempt(x) /\ UNCHANGED engine
         \/ \E e \in Transfers :
              /\ engine[e].st = "unused"
              /\ \A d \in Transfers : d < e => engine[d].st # "unused"
              /\ engine' = [engine EXCEPT ![e] = [st |-> "running", temp |-> t.temp]]
              /\ tmpFiles' = tmpFiles \cup {t.temp}
              /\ wk' = [wk EXCEPT ![x].pc = "created", ![x].gid = e]
      /\ UNCHANGED <<batches, control, run, disk, records, reqPc, req, crashed>>

\* task.GopeedTaskID = taskID
WorkerCreated(x) ==
  /\ At(x, "created")
  /\ SetTask(x, [TaskOf(x) EXCEPT !.gid = wk[x].gid])
  /\ wk' = [wk EXCEPT ![x].pc = "wait", ![x].gid = NoId]
  /\ UNCHANGED <<control, run, files, reqPc, req, crashed>>

\* Mutant of Drop: the task forgets a transfer that stays in the engine.
DropIdOnly(x, keepTemp) ==
  /\ UNCHANGED <<engine, tmpFiles>>
  /\ SetTask(x, [TaskOf(x) EXCEPT !.gid = NoId, !.temp = IF keepTemp THEN @ ELSE NoPath])

\* Every failure but a pause drops the transfer, its file and the task's id.
Drop(x, keepTemp) ==
  LET t == TaskOf(x)
  IN  /\ Clean({[gid |-> t.gid, temp |-> t.temp]})
      /\ SetTask(x, [t EXCEPT !.gid = NoId, !.temp = IF keepTemp THEN @ ELSE NoPath])

\* WaitTask returns: the context was cancelled; the attempt's timeout passed or
\* a poll saw the transfer failed or gone, which is the same to the caller; or
\* a poll saw it paused or done.
WorkerWait(x) ==
  LET st == Status(TaskOf(x).gid)
  IN  /\ At(x, "wait")
      /\ \/ /\ ctx[x[1]] = "cancelled"
            /\ Settle(x, "paused")
            /\ IF resumable THEN UNCHANGED <<batches, engine, tmpFiles>> ELSE Drop(x, FALSE)
         \/ Drop(x, FALSE) /\ NextAttempt(x)
         \/ /\ st = "pause"
            /\ Settle(x, "paused") /\ UNCHANGED <<batches, engine, tmpFiles>>
         \/ /\ st = "done"
            /\ Goto(x, "check") /\ UNCHANGED <<batches, engine, tmpFiles>>
      /\ UNCHANGED <<control, run, disk, records, reqPc, req, crashed>>

\* os.Stat, DecryptFileInPlace and the look for a free path of
\* MoveFileToAvailablePath; the first two may fail.
WorkerCheck(x) ==
  LET t == TaskOf(x)
  IN  /\ At(x, "check")
      /\ \/ /\ t.temp \in tmpFiles
            /\ \E p \in UniquePath(t.final) :
                 wk' = [wk EXCEPT ![x].pc = "move", ![x].dest = p]
            /\ UNCHANGED <<batches, engine, tmpFiles>>
         \/ Drop(x, TRUE) /\ NextAttempt(x)
      /\ UNCHANGED <<control, run, disk, records, reqPc, req, crashed>>

\* os.Rename, which replaces a file that has come to be there, DeleteTask that
\* keeps the file, and saveDownloadRecord, which keeps a record that exists: one
\* step, as after the rename only this worker's own task and record follow.
WorkerMove(x) ==
  LET t == TaskOf(x)
  IN  /\ At(x, "move")
      /\ IF t.temp \in tmpFiles
           THEN /\ disk' = {f \in disk : f[1] # wk[x].dest} \cup {<<wk[x].dest, t.video>>}
                /\ tmpFiles' = tmpFiles \ {t.temp}
                /\ Delete({t.gid})
                /\ SetTask(x, [t EXCEPT !.gid = NoId, !.temp = NoPath, !.final = wk[x].dest])
                /\ records' = IF records[t.video] # NoPath THEN records
                              ELSE [records EXCEPT ![t.video] = wk[x].dest]
                /\ Settle(x, "ok")
           ELSE /\ Drop(x, TRUE) /\ NextAttempt(x)
                /\ UNCHANGED <<disk, records>>
      /\ UNCHANGED <<control, run, reqPc, req, crashed>>

\* Mutants of Outcome: a paused task keeps its status; a pause counts as success.
OutcomePauseIgnored(res, old) ==
  CASE res = "ok" -> "done" [] res = "failed" -> "failed" [] res = "paused" -> old
OutcomePauseIsDone(res, old) == IF res = "failed" THEN "failed" ELSE "done"

\* The status a worker writes: only a task still being downloaded is put back.
Outcome(res, old) ==
  CASE res = "ok"     -> "done"
    [] res = "failed" -> "failed"
    [] res = "paused" -> IF old = "downloading" THEN "pending" ELSE old

\* The result, under Lock.
WorkerSettle(x) ==
  LET t == TaskOf(x)
  IN  /\ At(x, "settle")
      /\ SetTask(x, [t EXCEPT !.status = Outcome(wk[x].result, t.status)])
      /\ wk' = [wk EXCEPT ![x] = FreeWorker]
      /\ UNCHANGED <<control, run, files, reqPc, req, crashed>>

Worker(x) ==
  \/ WorkerTake(x) \/ WorkerExit(x) \/ WorkerMark(x) \/ WorkerPanic(x)
  \/ WorkerBegin(x) \/ WorkerTry(x) \/ WorkerPrepare(x) \/ WorkerCreate(x)
  \/ WorkerCreated(x) \/ WorkerWait(x) \/ WorkerCheck(x) \/ WorkerMove(x)
  \/ WorkerSettle(x)

----------------------------------------------------------------------------
\* A transfer ends, well or badly.
EngineEnds(e) ==
  /\ engine[e].st = "running"
  /\ \E st \in {"done", "error"} : engine' = [engine EXCEPT ![e].st = st]
  /\ UNCHANGED <<batches, control, run, wk, tmpFiles, disk, records, reqPc, req, crashed>>

\* The process is alive; its configuration stays.
Alive == ~crashed /\ UNCHANGED resumable

ActiveRuns == {r \in Runs : runPc[r] \notin {"none", "done"}}

(***************************************************************************)
(* History.  batch_clear drops the tasks of a run that is still going on   *)
(* in two cases and no other: it looked for cancelFunc before the run had  *)
(* set it, or the run outlasts the five seconds.  cut holds such runs.     *)
(* What a worker of theirs has created - its task is in nobody's list any  *)
(* more - is a stray as long as the transfer or the file exists.           *)
(***************************************************************************)
CutsShort(c) ==
  /\ reqPc'[c] = "clearDrop"
  /\ reqPc[c] = "clearWait" \/ (reqPc[c] = "idle" /\ cancelFunc = NoRun)

Remember ==
  /\ cut' = ActiveRuns' \cap
       (cut \cup {r \in ActiveRuns : \E c \in Clients : CutsShort(c)})
  /\ strays' =
       {a \in strays : engine'[a.gid].st # "gone" \/ a.temp \in tmpFiles'} \cup
       {[gid |-> wk'[x].gid, temp |-> (TaskOf(x)').temp] :
          x \in {y \in Runs \X Workers : y[1] \in cut' /\ At(y, "created")'}}

Next ==
  /\ \/ \E c \in Clients : Alive /\ Request(c)
     \/ \E r \in Runs : Alive /\ Runner(r)
     \/ \E x \in Runs \X Workers : Alive /\ Worker(x)
     \/ \E e \in Transfers : Alive /\ EngineEnds(e)
  /\ Remember

Spec == Init /\ [][Next]_vars

\* Every goroutine that can run is run; the engine need not make progress,
\* since an attempt ends by its timeout.
Fairness ==
  /\ \A r \in Runs : WF_vars(Alive /\ Runner(r) /\ Remember)
  /\ \A x \in Runs \X Workers : WF_vars(Alive /\ Worker(x) /\ Remember)

FairSpec == Spec /\ Fairness

(***************************************************************************)
(* Properties.                                                             *)
(***************************************************************************)
RunPcs == {"none", "spawned", "setup", "dispatch", "wait", "finish", "done"}
ReqPcs == {"idle", "startClean", "startInstall", "cancel",
           "clearCancel", "clearWait", "clearDrop", "clearClean"}
WorkerPcs == {"idle", "picked", "begin", "try", "prepare", "create", "created",
              "wait", "check", "move", "settle", "exit"}
Arts == [gid: Transfers \cup {NoId}, temp: TempPaths \cup {NoPath}]

\* Every variable has its type.
TypeOK ==
  /\ resumable \in BOOLEAN
  /\ batches \in Seq(Seq(Task)) /\ cur \in 0..Len(batches)
  /\ running \in BOOLEAN /\ cancelFunc \in Runs \cup {NoRun}
  /\ runPc \in [Runs -> RunPcs]
  /\ ctx \in [Runs -> {"live", "cancelled"}]
  /\ run \in [Runs -> [force: BOOLEAN, len: Nat, next: Nat, sent: Nat, chan: Seq(Nat)]]
  /\ wk \in [Runs \X Workers ->
       [pc: WorkerPcs, gen: Nat, idx: Nat, try: 0..MaxRetries, gid: Transfers \cup {NoId},
        dest: Paths \cup {NoPath}, result: {"none", "ok", "failed", "paused"}]]
  /\ engine \in [Transfers -> [st: {"unused", "running", "pause", "done", "error", "gone"},
                               temp: TempPaths \cup {NoPath}]]
  /\ tmpFiles \subseteq TempPaths
  /\ disk \subseteq Paths \X Videos
  /\ records \in [Videos -> Paths \cup {NoPath}]
  /\ reqPc \in [Clients -> ReqPcs]
  /\ req \in [Clients -> [list: Lists \cup {<<>>}, force: BOOLEAN,
                          stop: Runs \cup {NoRun}, left: SUBSET Arts]]
  /\ crashed \in BOOLEAN
  /\ cut \subseteq Runs
  /\ strays \subseteq Arts

\* A new batch and a resume are refused while a run is going on or winding
\* down (the busy tests of HandleBatchStart and HandleBatchResume): two runs
\* never serve the handler at once.
OneRunner == \A r, s \in ActiveRuns : r = s

\* With no run left the handler says so, and no task of the batch is still
\* called downloading: every worker has written its result before wg.Wait
\* returns, whatever a cancel did to the status in between.
QuietMeansSettled ==
  ActiveRuns = {} =>
    /\ cancelFunc = NoRun
    /\ \A i \in DOMAIN Tasks : Tasks[i].status # "downloading"
    /\ running => \E c \in Clients : reqPc[c] = "startInstall"

\* No transfer of the engine and no temporary file is lost track of: a task of
\* the batch, the worker that has just created it or the request that is about
\* to delete it still refers to it; only a run that a batch_clear did not wait
\* for leaves strays.
ArtifactsOwned ==
  LET arts == Artifacts(Tasks) \cup strays \cup
              UNION {req[c].left : c \in {d \in Clients : reqPc[d] # "cancel"}}
  IN  /\ \A e \in Transfers : engine[e].st \notin {"unused", "gone"} =>
           \/ \E a \in arts : a.gid = e
           \/ \E x \in Runs \X Workers : wk[x].gid = e
      /\ \A f \in tmpFiles : \E a \in arts : a.temp = f

\* A task that is done has its video on disk.
DoneIsOnDisk ==
  \A i \in DOMAIN Tasks :
    Tasks[i].status = "done" => \E f \in disk : f[2] = Tasks[i].video

\* Unless a download is forced, a video is stored once, however often it is
\* asked for, cancelled and resumed: the record written with the file is what
\* the next run looks at.
StoredOnce == \A f, g \in disk : f[2] = g[2] => f = g

\* The slice h.tasks is never indexed beyond its end, but by a run that a
\* batch_clear did not wait for.
NoIndexPanic == crashed => cut # {}

\* A finished task is not downloaded again by a cancel, a resume or a worker.
DoneIsFinal ==
  [][cur' = cur => \A i \in DOMAIN Tasks :
       Tasks[i].status = "done" => Tasks'[i].status = "done"]_vars

\* batch_cancel answers that the download is cancelled only after it has
\* cancelled the context of the run that is going on; the one run it may miss
\* is a run whose goroutine has not made its first step, which sets cancelFunc,
\* when the request looks for it.
CancelTakesEffect ==
  [][\A c \in Clients :
       /\ reqPc[c] = "idle" /\ reqPc'[c] = "cancel" /\ req'[c].stop = NoRun =>
            \A r \in ActiveRuns : runPc[r] = "spawned"
       /\ reqPc[c] = "cancel" /\ reqPc'[c] = "idle" /\ req[c].stop # NoRun =>
            \A r \in ActiveRuns : ctx'[r] = "cancelled"]_vars

\* A run that is over has no transfer going on in the engine.
TransfersStop ==
  ActiveRuns = {} => \A e \in Transfers : engine[e].st # "running"

\* Without resume a run that is over has no transfer going on: each worker that
\* gives up deletes its own.
StopWithoutResume == ~resumable => TransfersStop

\* Every run ends: its attempts are bounded and each ends by its timeout.
RunEnds ==
  \A r \in Runs : runPc[r] = "spawned" ~> (runPc[r] = "done" \/ crashed)

=============================================================================
