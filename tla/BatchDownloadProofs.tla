------------------------ MODULE BatchDownloadProofs ------------------------
(***************************************************************************)
(* Theorems about BatchDownload, for any number of videos, workers,        *)
(* retries, runs and transfers.  Each layer is an inductive invariant that *)
(* builds on the ones before it:                                           *)
(*   Shape       the types, and where the workers' pointers lead;          *)
(*   DiskInv     what the paths of tasks, records and files have to do     *)
(*               with each other (any number of requests at a time);       *)
(*   ControlInv  one run at a time, if requests come one after the other   *)
(*               (SerialClients; with two at a time there may be two runs, *)
(*               which is the run batch_two_starts);                       *)
(*   CrewInv     what a run has handed to its channel and its workers;     *)
(*   TaskInv     the statuses of the tasks and who holds them;             *)
(*   WorkInv     what a worker knows of its task during an attempt;        *)
(*   HistoryOK   the runs batch_clear did not wait for, and their strays; *)
(*   CancelStops, Orderly, OwnInv, NoResume, OnceInv                       *)
(*               one for each of the remaining properties.                 *)
(***************************************************************************)
EXTENDS BatchDownload, TLAPS

-----------------------------------------------------------------------------
(* Types, and the pointers of the workers.                                 *)

WorkerRec == [pc: WorkerPcs, gen: Nat, idx: Nat, try: 0..MaxRetries, gid: Transfers \cup {NoId},
              dest: Paths \cup {NoPath}, result: {"none", "ok", "failed", "paused"}]
RunRec == [force: BOOLEAN, len: Nat, next: Nat \ {0}, sent: Nat, chan: Seq(Nat \ {0})]
ReqRec == [list: Lists \cup {<<>>}, force: BOOLEAN, stop: Runs \cup {NoRun}, left: SUBSET Arts]
EngineRec == [st: {"unused", "running", "pause", "done", "error", "gone"},
              temp: TempPaths \cup {NoPath}]

\* From the choice of FinalPath to the rename.
Attempt == {"try", "prepare", "create", "created", "wait", "check", "move"}
LoosePaths == TempPaths \cup {NoPath}
EveryWorker == Runs \X Workers

ControlOK ==
  /\ resumable \in BOOLEAN /\ running \in BOOLEAN /\ crashed \in BOOLEAN
  /\ cancelFunc \in Runs \cup {NoRun}
  /\ runPc \in [Runs -> RunPcs] /\ ctx \in [Runs -> {"live", "cancelled"}]
RunOK == run \in [Runs -> RunRec]
ReqOK ==
  /\ reqPc \in [Clients -> ReqPcs] /\ req \in [Clients -> ReqRec]
  /\ \A c \in Clients : reqPc[c] \in {"startClean", "startInstall"} =>
       req[c].list \in Lists /\ req[c].force \in Forces
TasksOK == batches \in Seq(Seq(Task)) /\ cur \in 0..Len(batches)
FilesOK ==
  /\ engine \in [Transfers -> EngineRec] /\ tmpFiles \subseteq LoosePaths
  /\ disk \subseteq Paths \X Videos /\ records \in [Videos -> Paths \cup {NoPath}]
\* What a worker's locals say of the task it points to.
PointerOK(w) ==
  /\ w.pc \notin {"idle", "picked", "exit"} =>
       w.gen \in DOMAIN batches /\ w.idx \in DOMAIN batches[w.gen]
  /\ w.pc = "picked" => w.idx # 0
  /\ w.pc \in Attempt => batches[w.gen][w.idx].final \in Paths
  /\ w.pc = "move" => w.dest \in Paths
  /\ w.pc = "settle" => w.result # "none"
  /\ (w.gid # NoId) <=> (w.pc = "created")
WorkersOK ==
  /\ wk \in [EveryWorker -> WorkerRec]
  /\ \A x \in EveryWorker : PointerOK(wk[x])
Shape == ControlOK /\ RunOK /\ ReqOK /\ TasksOK /\ FilesOK /\ WorkersOK

LEMMA Update ==
  ASSUME NEW S, NEW b \in Seq(Seq(S)), NEW g \in DOMAIN b, NEW i \in DOMAIN b[g], NEW t \in S,
         NEW c, c = [b EXCEPT ![g][i] = t]
  PROVE  /\ c \in Seq(Seq(S)) /\ Len(c) = Len(b) /\ DOMAIN c = DOMAIN b
         /\ \A h \in DOMAIN b : DOMAIN c[h] = DOMAIN b[h]
         /\ \A h \in DOMAIN b : \A j \in DOMAIN b[h] :
              c[h][j] = IF h = g /\ j = i THEN t ELSE b[h][j]
<1>1. b[g] \in Seq(S)
  OBVIOUS
<1>2. [b[g] EXCEPT ![i] = t] \in Seq(S)
  BY <1>1
<1>3. c = [b EXCEPT ![g] = [b[g] EXCEPT ![i] = t]]
  OBVIOUS
<1> QED BY <1>1, <1>2, <1>3

LEMMA Element ==
  ASSUME NEW S, NEW b \in Seq(Seq(S)), NEW g \in DOMAIN b
  PROVE  b[g] \in Seq(S) /\ \A i \in DOMAIN b[g] : b[g][i] \in S
<1>1. b[g] \in Seq(S)
  OBVIOUS
<1> QED BY <1>1

LEMMA SameUpdate ==
  ASSUME NEW S, NEW b \in Seq(Seq(S)), NEW g \in DOMAIN b, NEW i \in DOMAIN b[g]
  PROVE  [b EXCEPT ![g][i] = b[g][i]] = b
<1>1. b[g] \in Seq(S)
  OBVIOUS
<1>2. [b[g] EXCEPT ![i] = b[g][i]] = b[g]
  BY <1>1
<1>3. [b EXCEPT ![g] = b[g]] = b
  OBVIOUS
<1> QED BY <1>2, <1>3

LEMMA PathFacts ==
  /\ \A v \in Videos : PathOf(v) \in Paths /\ PathOf(v).name = Name[v]
  /\ \A p \in Paths : \A q \in UniquePath(p) : q \in Paths /\ q.name = p.name
<1>1. \A v \in Videos : PathOf(v) \in Paths /\ PathOf(v).name = Name[v]
  BY DEF PathOf, Paths
<1>2. ASSUME NEW p \in Paths, NEW k \in Nat
      PROVE  CopyOf(p, k) \in Paths /\ CopyOf(p, k).name = p.name
  <2>1. Append(p.copy, k) \in Seq(Nat)
    BY DEF Paths
  <2> QED BY <2>1 DEF CopyOf, Paths
<1>3. ASSUME NEW p \in Paths, NEW q \in UniquePath(p)
      PROVE  \E k \in Nat : q = CopyOf(p, k)
  <2>1. PICK k \in 0..Cardinality(disk) : q = CopyOf(p, k)
    BY DEF UniquePath
  <2> QED BY <2>1
<1> QED BY <1>1, <1>2, <1>3

LEMMA TaskType ==
  ASSUME Shape, NEW g \in DOMAIN batches, NEW i \in DOMAIN batches[g]
  PROVE  batches[g] \in Seq(Task) /\ batches[g][i] \in Task
<1>1. batches \in Seq(Seq(Task))
  BY DEF Shape, TasksOK
<1> QED BY <1>1, Element

\* Cleaning up keeps the types of the engine and the temporary files.
LEMMA CleanTypes ==
  ASSUME FilesOK, NEW arts \in SUBSET Arts, Clean(arts)
  PROVE  engine' \in [Transfers -> EngineRec] /\ tmpFiles' \subseteq tmpFiles
<1>1. engine \in [Transfers -> EngineRec]
  BY DEF FilesOK
<1>2. [st |-> "gone", temp |-> NoPath] \in EngineRec
  BY DEF EngineRec
<1>3. \A ids : Delete(ids) => engine' \in [Transfers -> EngineRec]
  BY <1>1, <1>2 DEF Delete
<1> QED BY <1>3 DEF Clean

LEMMA InitShape == Init => Shape
<1> SUFFICES ASSUME Init PROVE Shape
  OBVIOUS
<1>1. ControlOK /\ ReqOK
  <2>1. NewReq \in ReqRec
    BY DEF NewReq, ReqRec
  <2> QED BY <2>1, FlagsAssumption DEF Init, ControlOK, ReqOK, RunPcs, ReqPcs
<1>2. RunOK
  <2>1. NewRun \in RunRec
    BY DEF NewRun, RunRec
  <2> QED BY <2>1 DEF Init, RunOK
<1>3. TasksOK
  BY DEF Init, TasksOK
<1>4. FilesOK
  BY DEF Init, FilesOK, EngineRec
<1>5. WorkersOK
  <2>1. FreeWorker \in WorkerRec
    BY CountsAssumption DEF FreeWorker, WorkerRec, WorkerPcs
  <2>2. PointerOK(FreeWorker)
    BY DEF PointerOK, FreeWorker, Attempt, NoId
  <2> QED BY <2>1, <2>2 DEF Init, WorkersOK, EveryWorker
<1> QED BY <1>1, <1>2, <1>3, <1>4, <1>5 DEF Shape

\* Between its first look at a task and its result a worker changes its own
\* locals, the files, and of its task all but the video and the status.
Middle(x) == \/ WorkerBegin(x) \/ WorkerTry(x) \/ WorkerPrepare(x) \/ WorkerCreate(x)
             \/ WorkerCreated(x) \/ WorkerWait(x) \/ WorkerCheck(x) \/ WorkerMove(x)

\* ... to the task t and the locals w.
Moved(x, t, w) ==
  /\ t \in Task /\ w \in WorkerRec
  /\ batches' = [batches EXCEPT ![wk[x].gen][wk[x].idx] = t]
  /\ wk' = [wk EXCEPT ![x] = w]
  /\ t.video = TaskOf(x).video /\ t.status = TaskOf(x).status
  /\ w.gen = wk[x].gen /\ w.idx = wk[x].idx
  /\ w.pc \in Attempt \cup {"settle"}
  /\ w.pc \in Attempt \/ TaskOf(x).final \in Paths => t.final \in Paths
  /\ w.pc = "move" => w.dest \in Paths
  /\ w.pc = "settle" => w.result # "none"
  /\ (w.gid # NoId) <=> (w.pc = "created")

LEMMA TaskOfType ==
  ASSUME Shape, NEW x \in EveryWorker, Holding(x)
  PROVE  /\ wk[x] \in WorkerRec /\ wk[x].gen \in DOMAIN batches
         /\ wk[x].idx \in DOMAIN batches[wk[x].gen] /\ TaskOf(x) \in Task
<1>1. wk[x] \in WorkerRec /\ PointerOK(wk[x])
  BY DEF Shape, WorkersOK
<1>2. wk[x].gen \in DOMAIN batches /\ wk[x].idx \in DOMAIN batches[wk[x].gen]
  BY <1>1 DEF PointerOK, Holding
<1>3. batches \in Seq(Seq(Task))
  BY DEF Shape, TasksOK
<1>4. batches[wk[x].gen] \in Seq(Task)
  BY <1>2, <1>3
<1> QED BY <1>1, <1>2, <1>4 DEF TaskOf

\* The ways a worker's locals and its task change.
LEMMA GotoMoves ==
  ASSUME NEW x \in EveryWorker, wk[x] \in WorkerRec, wk[x].gid = NoId,
         NEW pc \in Attempt \ {"created", "move"}, Goto(x, pc)
  PROVE  \E w \in WorkerRec : /\ wk' = [wk EXCEPT ![x] = w]
                              /\ w.gen = wk[x].gen /\ w.idx = wk[x].idx
                              /\ w.pc = pc /\ w.gid = NoId
<1>1. [wk[x] EXCEPT !.pc = pc] \in WorkerRec
  BY DEF WorkerRec, Attempt, WorkerPcs
<1>2. wk' = [wk EXCEPT ![x] = [wk[x] EXCEPT !.pc = pc]]
  BY DEF Goto
<1>3. [wk[x] EXCEPT !.pc = pc].pc = pc /\ [wk[x] EXCEPT !.pc = pc].gid = NoId
  BY DEF WorkerRec
<1> QED BY <1>1, <1>2, <1>3 DEF WorkerRec

LEMMA SettleMoves ==
  ASSUME NEW x \in EveryWorker, wk[x] \in WorkerRec, wk[x].gid = NoId,
         NEW res \in {"ok", "failed", "paused"}, Settle(x, res)
  PROVE  \E w \in WorkerRec : /\ wk' = [wk EXCEPT ![x] = w]
                              /\ w.gen = wk[x].gen /\ w.idx = wk[x].idx
                              /\ w.pc = "settle" /\ w.gid = NoId /\ w.result = res
<1>1. [wk[x] EXCEPT !.pc = "settle", !.result = res] \in WorkerRec
  BY DEF WorkerRec, WorkerPcs
<1>2. wk' = [wk EXCEPT ![x] = [wk[x] EXCEPT !.pc = "settle", !.result = res]]
  BY DEF Settle
<1> DEFINE w == [wk[x] EXCEPT !.pc = "settle", !.result = res]
<1>3. w.gen = wk[x].gen /\ w.idx = wk[x].idx /\ w.pc = "settle" /\ w.gid = NoId /\ w.result = res
  BY DEF WorkerRec
<1> QED BY <1>1, <1>2, <1>3

LEMMA NextAttemptMoves ==
  ASSUME NEW x \in EveryWorker, wk[x] \in WorkerRec, wk[x].gid = NoId, NextAttempt(x)
  PROVE  \E w \in WorkerRec : /\ wk' = [wk EXCEPT ![x] = w]
                              /\ w.gen = wk[x].gen /\ w.idx = wk[x].idx /\ w.gid = NoId
                              /\ w.pc = "try" \/ (w.pc = "settle" /\ w.result = "failed")
<1>1. CASE wk[x].try < MaxRetries
  <2> DEFINE w == [wk[x] EXCEPT !.pc = "try", !.try = @ + 1, !.dest = NoPath]
  <2>0. wk[x].try + 1 \in 0..MaxRetries
    BY <1>1, CountsAssumption DEF WorkerRec
  <2>1. w \in WorkerRec
    BY <2>0 DEF WorkerRec, WorkerPcs
  <2>2. wk' = [wk EXCEPT ![x] = w]
    BY <1>1 DEF NextAttempt
  <2>3. w.gen = wk[x].gen /\ w.idx = wk[x].idx /\ w.gid = NoId /\ w.pc = "try"
    BY DEF WorkerRec
  <2> QED BY <2>1, <2>2, <2>3
<1>2. CASE ~(wk[x].try < MaxRetries)
  BY <1>2, SettleMoves DEF NextAttempt
<1> QED BY <1>1, <1>2

\* A failed attempt's task.
LEMMA DropMoves ==
  ASSUME Shape, NEW x \in EveryWorker, Holding(x), NEW keep \in BOOLEAN, Drop(x, keep)
  PROVE  /\ engine' \in [Transfers -> EngineRec] /\ tmpFiles' \subseteq tmpFiles
         /\ \E t \in Task : /\ batches' = [batches EXCEPT ![wk[x].gen][wk[x].idx] = t]
                            /\ t.video = TaskOf(x).video /\ t.status = TaskOf(x).status
                            /\ t.final = TaskOf(x).final /\ t.gid = NoId
<1> DEFINE u == TaskOf(x)
           t == [u EXCEPT !.gid = NoId, !.temp = IF keep THEN @ ELSE NoPath]
<1>1. u \in Task
  BY TaskOfType
<1>2. t \in Task /\ t.video = u.video /\ t.status = u.status /\ t.final = u.final /\ t.gid = NoId
  BY <1>1 DEF Task
<1>3. Clean({[gid |-> u.gid, temp |-> u.temp]}) /\ SetTask(x, t)
  BY DEF Drop
<1>4. {[gid |-> u.gid, temp |-> u.temp]} \in SUBSET Arts
  BY <1>1 DEF Task, Arts
<1>5. engine' \in [Transfers -> EngineRec] /\ tmpFiles' \subseteq tmpFiles
  BY <1>3, <1>4, CleanTypes DEF Shape
<1>6. batches' = [batches EXCEPT ![wk[x].gen][wk[x].idx] = t]
  BY <1>3 DEF SetTask
<1> QED BY <1>2, <1>5, <1>6

\* A task that stays what it is.
LEMMA TaskStays ==
  ASSUME Shape, NEW x \in EveryWorker, Holding(x), batches' = batches
  PROVE  batches' = [batches EXCEPT ![wk[x].gen][wk[x].idx] = TaskOf(x)]
<1>1. batches \in Seq(Seq(Task))
  BY DEF Shape, TasksOK
<1> QED BY <1>1, TaskOfType, SameUpdate DEF TaskOf

LEMMA BeginMoves ==
  ASSUME Shape, NEW x \in EveryWorker, WorkerBegin(x)
  PROVE  /\ Holding(x) /\ wk[x].pc = "begin" /\ UNCHANGED <<control, run, files, reqPc, req, crashed>>
         /\ \E t, w : /\ Moved(x, t, w) /\ t.gid = TaskOf(x).gid /\ t.temp = TaskOf(x).temp
                      /\ \/ /\ t = TaskOf(x) /\ w.pc = "settle"
                            /\ w.result = "failed" \/ (AlreadyStored(x) /\ w.result = "ok")
                         \/ /\ ~AlreadyStored(x) /\ w.pc = "try"
                            /\ t.final = TaskOf(x).final \/ t.final.name = Name[TaskOf(x).video]
<1> DEFINE u == TaskOf(x)
<1>1. Holding(x) /\ wk[x].pc = "begin" /\ UNCHANGED <<control, run, files, reqPc, req, crashed>>
  BY DEF WorkerBegin, At, Holding
<1>2. wk[x] \in WorkerRec /\ u \in Task /\ wk[x].gid = NoId
  BY <1>1, TaskOfType DEF Shape, WorkersOK, PointerOK
<1>3. ASSUME NEW res \in {"ok", "failed"}, res = "ok" => AlreadyStored(x),
             Settle(x, res), batches' = batches
      PROVE  \E w : /\ Moved(x, u, w) /\ w.pc = "settle"
                    /\ w.result = "failed" \/ (AlreadyStored(x) /\ w.result = "ok")
  <2>2. PICK w \in WorkerRec : /\ wk' = [wk EXCEPT ![x] = w]
                               /\ w.gen = wk[x].gen /\ w.idx = wk[x].idx
                               /\ w.pc = "settle" /\ w.gid = NoId /\ w.result = res
    BY <1>2, <1>3, SettleMoves
  <2>3. Moved(x, u, w)
    BY <1>1, <1>2, <1>3, <2>2, TaskStays DEF Moved, Attempt
  <2> QED BY <1>3, <2>2, <2>3
<1>4. CASE /\ ~AlreadyStored(x)
           /\ wk' = [wk EXCEPT ![x].pc = "try", ![x].try = 1]
           /\ \E p \in IF u.final # NoPath THEN {u.final}
                      ELSE IF run[x[1]].force THEN {PathOf(u.video)}
                      ELSE UniquePath(PathOf(u.video)) : SetTask(x, [u EXCEPT !.final = p])
  <2>1. PICK p : /\ p \in IF u.final # NoPath THEN {u.final}
                           ELSE IF run[x[1]].force THEN {PathOf(u.video)}
                           ELSE UniquePath(PathOf(u.video))
                 /\ SetTask(x, [u EXCEPT !.final = p])
    BY <1>4
  <2>2. p \in Paths /\ (p = u.final \/ p.name = Name[u.video])
    <3>1. u.video \in Videos /\ u.final \in Paths \cup {NoPath}
      BY <1>2 DEF Task
    <3> QED BY <2>1, <3>1, PathFacts
  <2> DEFINE t == [u EXCEPT !.final = p]
             w == [wk[x] EXCEPT !.pc = "try", !.try = 1]
  <2>3. /\ t \in Task /\ t.video = u.video /\ t.status = u.status /\ t.gid = u.gid
        /\ t.temp = u.temp /\ t.final = p
    BY <1>2, <2>2 DEF Task
  <2>4. w \in WorkerRec
    <3>1. 1 \in 0..MaxRetries
      BY CountsAssumption
    <3> QED BY <1>2, <3>1 DEF WorkerRec, WorkerPcs
  <2>5. w.gen = wk[x].gen /\ w.idx = wk[x].idx /\ w.pc = "try" /\ w.gid = NoId
    BY <1>2 DEF WorkerRec
  <2>6. wk' = [wk EXCEPT ![x] = w] /\ batches' = [batches EXCEPT ![wk[x].gen][wk[x].idx] = t]
    BY <1>4, <2>1 DEF SetTask
  <2>7. Moved(x, t, w)
    BY <2>2, <2>3, <2>4, <2>5, <2>6 DEF Moved, Attempt
  <2> QED BY <1>1, <1>4, <2>2, <2>3, <2>5, <2>7
<1>5. CASE batches' = batches /\ (Settle(x, "failed") \/ (AlreadyStored(x) /\ Settle(x, "ok")))
  <2>1. \E w : /\ Moved(x, u, w) /\ w.pc = "settle"
               /\ w.result = "failed" \/ (AlreadyStored(x) /\ w.result = "ok")
    BY <1>3, <1>5
  <2> QED BY <1>1, <2>1
<1>6. \/ /\ ~AlreadyStored(x)
         /\ wk' = [wk EXCEPT ![x].pc = "try", ![x].try = 1]
         /\ \E p \in IF u.final # NoPath THEN {u.final}
                    ELSE IF run[x[1]].force THEN {PathOf(u.video)}
                    ELSE UniquePath(PathOf(u.video)) : SetTask(x, [u EXCEPT !.final = p])
      \/ batches' = batches /\ (Settle(x, "failed") \/ (AlreadyStored(x) /\ Settle(x, "ok")))
  BY DEF WorkerBegin
<1> QED BY <1>4, <1>5, <1>6

LEMMA TryMoves ==
  ASSUME Shape, NEW x \in EveryWorker, WorkerTry(x)
  PROVE  /\ Holding(x) /\ wk[x].pc = "try" /\ UNCHANGED <<control, run, files, reqPc, req, crashed>>
         /\ \E t, w : /\ Moved(x, t, w) /\ t.gid = TaskOf(x).gid /\ t.final = TaskOf(x).final
                      /\ \/ t = TaskOf(x) /\ w.pc = "settle" /\ w.result = "paused"
                         \/ /\ w.pc = "prepare" /\ t.temp \in TempPaths
                            /\ t.temp = TaskOf(x).temp \/ TaskOf(x).temp = NoPath
<1> DEFINE u == TaskOf(x)
<1>1. Holding(x) /\ wk[x].pc = "try" /\ UNCHANGED <<control, run, files, reqPc, req, crashed>>
  BY DEF WorkerTry, At, Holding
<1>2. wk[x] \in WorkerRec /\ u \in Task /\ wk[x].gid = NoId /\ u.final \in Paths
  BY <1>1, TaskOfType DEF Shape, WorkersOK, PointerOK, Attempt, TaskOf
<1>3. CASE ctx[x[1]] = "cancelled"
  <2>1. Settle(x, "paused") /\ batches' = batches
    BY <1>3 DEF WorkerTry
  <2>2. PICK w \in WorkerRec : /\ wk' = [wk EXCEPT ![x] = w]
                               /\ w.gen = wk[x].gen /\ w.idx = wk[x].idx
                               /\ w.pc = "settle" /\ w.gid = NoId /\ w.result = "paused"
    BY <1>2, <2>1, SettleMoves
  <2>3. Moved(x, u, w)
    BY <1>1, <1>2, <2>1, <2>2, TaskStays DEF Moved, Attempt
  <2> QED BY <1>1, <2>2, <2>3
<1>4. CASE ctx[x[1]] # "cancelled"
  <2> DEFINE t == [u EXCEPT !.temp = IF @ = NoPath THEN <<u.final, u.video>> ELSE @]
  <2>1. Goto(x, "prepare") /\ SetTask(x, t)
    BY <1>4 DEF WorkerTry
  <2>2. PICK w \in WorkerRec : /\ wk' = [wk EXCEPT ![x] = w]
                               /\ w.gen = wk[x].gen /\ w.idx = wk[x].idx
                               /\ w.pc = "prepare" /\ w.gid = NoId
    BY <1>2, <2>1, GotoMoves DEF Attempt
  <2>3. /\ t \in Task /\ t.video = u.video /\ t.status = u.status /\ t.gid = u.gid
        /\ t.final = u.final /\ t.temp \in TempPaths /\ (t.temp = u.temp \/ u.temp = NoPath)
    BY <1>2 DEF Task, TempPaths
  <2>4. batches' = [batches EXCEPT ![wk[x].gen][wk[x].idx] = t]
    BY <2>1 DEF SetTask
  <2>5. Moved(x, t, w)
    BY <1>2, <2>2, <2>3, <2>4 DEF Moved, Attempt
  <2> QED BY <1>1, <2>2, <2>3, <2>5
<1> QED BY <1>3, <1>4

LEMMA CreatedMoves ==
  ASSUME Shape, NEW x \in EveryWorker, WorkerCreated(x)
  PROVE  /\ Holding(x) /\ wk[x].pc = "created" /\ UNCHANGED <<control, run, files, reqPc, req, crashed>>
         /\ \E t, w : /\ Moved(x, t, w) /\ w.pc = "wait" /\ t.gid = wk[x].gid
                      /\ t.final = TaskOf(x).final /\ t.temp = TaskOf(x).temp
<1> DEFINE u == TaskOf(x)
<1>1. Holding(x) /\ wk[x].pc = "created" /\ UNCHANGED <<control, run, files, reqPc, req, crashed>>
  BY DEF WorkerCreated, At, Holding
<1>2. wk[x] \in WorkerRec /\ u \in Task /\ u.final \in Paths
  BY <1>1, TaskOfType DEF Shape, WorkersOK, PointerOK, Attempt, TaskOf
<1> DEFINE t == [u EXCEPT !.gid = wk[x].gid]
           w == [wk[x] EXCEPT !.pc = "wait", !.gid = NoId]
<1>3. /\ t \in Task /\ t.video = u.video /\ t.status = u.status /\ t.gid = wk[x].gid
      /\ t.temp = u.temp /\ t.final = u.final
  BY <1>2 DEF Task, WorkerRec
<1>4. w \in WorkerRec /\ w.gen = wk[x].gen /\ w.idx = wk[x].idx /\ w.pc = "wait" /\ w.gid = NoId
  BY <1>2 DEF WorkerRec, WorkerPcs
<1>5. wk' = [wk EXCEPT ![x] = w] /\ batches' = [batches EXCEPT ![wk[x].gen][wk[x].idx] = t]
  BY DEF WorkerCreated, SetTask
<1>6. Moved(x, t, w)
  BY <1>2, <1>3, <1>4, <1>5 DEF Moved, Attempt
<1> QED BY <1>1, <1>3, <1>4, <1>6

\* What cleaning up after a task refers to.
ArtsOf(u) == {[gid |-> u.gid, temp |-> u.temp]}

LEMMA PrepareMoves ==
  ASSUME Shape, NEW x \in EveryWorker, WorkerPrepare(x)
  PROVE  /\ Holding(x) /\ wk[x].pc = "prepare"
         /\ UNCHANGED <<control, run, disk, records, reqPc, req, crashed>>
         /\ \E t, w :
              /\ Moved(x, t, w) /\ t.final = TaskOf(x).final /\ t.temp = TaskOf(x).temp
              /\ \/ /\ TaskOf(x).gid = NoId /\ t = TaskOf(x) /\ w.pc = "create"
                    /\ UNCHANGED <<engine, tmpFiles>>
                 \/ /\ resumable /\ t.gid = NoId /\ w.pc = "create" /\ Clean(ArtsOf(TaskOf(x)))
                 \/ /\ resumable /\ t = TaskOf(x) /\ w.pc = "wait"
                    /\ engine' = [engine EXCEPT ![t.gid].st = "running"]
                    /\ engine[t.gid].st = "pause" /\ UNCHANGED tmpFiles
                 \/ /\ resumable /\ t = TaskOf(x) /\ UNCHANGED <<engine, tmpFiles>>
                    /\ w.pc = "try" \/ (w.pc = "settle" /\ w.result = "failed")
                 \/ /\ TaskOf(x).gid # NoId /\ t = TaskOf(x) /\ w.pc = "wait"
                    /\ UNCHANGED <<engine, tmpFiles>>
<1> DEFINE u  == TaskOf(x)
           st == Status(u.gid)
<1>1. /\ Holding(x) /\ wk[x].pc = "prepare"
      /\ UNCHANGED <<control, run, disk, records, reqPc, req, crashed>>
  BY DEF WorkerPrepare, At, Holding
<1>2. wk[x] \in WorkerRec /\ u \in Task /\ u.final \in Paths /\ wk[x].gid = NoId
  BY <1>1, TaskOfType DEF Shape, WorkersOK, PointerOK, Attempt, TaskOf
<1>3. u.gid = NoId \/ (u.gid # NoId /\ u.gid \in Transfers /\ st = engine[u.gid].st)
  BY <1>2 DEF Task, Status
<1>4. st = "none" => u.gid = NoId
  BY <1>3 DEF Shape, FilesOK, EngineRec
<1>5. ASSUME NEW pc \in {"create", "wait"}, Goto(x, pc), batches' = batches
      PROVE  \E w : Moved(x, u, w) /\ w.pc = pc
  <2>1. PICK w \in WorkerRec : /\ wk' = [wk EXCEPT ![x] = w]
                               /\ w.gen = wk[x].gen /\ w.idx = wk[x].idx
                               /\ w.pc = pc /\ w.gid = NoId
    BY <1>2, <1>5, GotoMoves DEF Attempt
  <2>2. Moved(x, u, w)
    BY <1>1, <1>2, <1>5, <2>1, TaskStays DEF Moved, Attempt
  <2> QED BY <2>1, <2>2
<1>6. CASE st = "none" /\ Goto(x, "create") /\ UNCHANGED <<batches, engine, tmpFiles>>
  BY <1>1, <1>4, <1>5, <1>6
<1>7. CASE /\ resumable /\ Clean(ArtsOf(u)) /\ SetTask(x, [u EXCEPT !.gid = NoId])
           /\ Goto(x, "create")
  <2> DEFINE t == [u EXCEPT !.gid = NoId]
  <2>1. PICK w \in WorkerRec : /\ wk' = [wk EXCEPT ![x] = w]
                               /\ w.gen = wk[x].gen /\ w.idx = wk[x].idx
                               /\ w.pc = "create" /\ w.gid = NoId
    BY <1>2, <1>7, GotoMoves DEF Attempt
  <2>2. /\ t \in Task /\ t.video = u.video /\ t.status = u.status /\ t.gid = NoId
        /\ t.final = u.final /\ t.temp = u.temp
    BY <1>2 DEF Task
  <2>3. Moved(x, t, w)
    BY <1>2, <1>7, <2>1, <2>2 DEF Moved, Attempt, SetTask
  <2> QED BY <1>1, <1>7, <2>1, <2>2, <2>3
<1>8. CASE /\ resumable /\ st = "pause" /\ engine' = [engine EXCEPT ![u.gid].st = "running"]
           /\ Goto(x, "wait") /\ UNCHANGED <<batches, tmpFiles>>
  <2>1. PICK w : Moved(x, u, w) /\ w.pc = "wait"
    BY <1>5, <1>8
  <2>2. engine[u.gid].st = "pause"
    BY <1>8 DEF Status
  <2> QED BY <1>1, <1>8, <2>1, <2>2
<1>9. CASE resumable /\ NextAttempt(x) /\ UNCHANGED <<batches, engine, tmpFiles>>
  <2>1. PICK w \in WorkerRec : /\ wk' = [wk EXCEPT ![x] = w]
                               /\ w.gen = wk[x].gen /\ w.idx = wk[x].idx /\ w.gid = NoId
                               /\ w.pc = "try" \/ (w.pc = "settle" /\ w.result = "failed")
    BY <1>2, <1>9, NextAttemptMoves
  <2>2. Moved(x, u, w)
    BY <1>1, <1>2, <1>9, <2>1, TaskStays DEF Moved, Attempt
  <2> QED BY <1>1, <1>9, <2>1, <2>2
<1>10. CASE st # "none" /\ Goto(x, "wait") /\ UNCHANGED <<batches, engine, tmpFiles>>
  <2>1. u.gid # NoId
    BY <1>10 DEF Status
  <2> QED BY <1>1, <1>5, <1>10, <2>1
<1> QED BY <1>6, <1>7, <1>8, <1>9, <1>10 DEF WorkerPrepare, ArtsOf

LEMMA CreateMoves ==
  ASSUME Shape, NEW x \in EveryWorker, WorkerCreate(x)
  PROVE  /\ Holding(x) /\ wk[x].pc = "create"
         /\ UNCHANGED <<control, run, disk, records, reqPc, req, crashed>>
         /\ \E w : /\ Moved(x, TaskOf(x), w)
                   /\ \/ /\ tmpFiles' = tmpFiles \ {TaskOf(x).temp} /\ UNCHANGED engine
                         /\ w.pc = "try" \/ (w.pc = "settle" /\ w.result = "failed")
                      \/ \E e \in Transfers :
                           /\ engine[e].st = "unused" /\ w.pc = "created" /\ w.gid = e
                           /\ engine' = [engine EXCEPT ![e] =
                                           [st |-> "running", temp |-> TaskOf(x).temp]]
                           /\ tmpFiles' = tmpFiles \cup {TaskOf(x).temp}
<1> DEFINE u == TaskOf(x)
<1>1. /\ Holding(x) /\ wk[x].pc = "create" /\ batches' = batches
      /\ UNCHANGED <<control, run, disk, records, reqPc, req, crashed>>
  BY DEF WorkerCreate, At, Holding
<1>2. wk[x] \in WorkerRec /\ u \in Task /\ u.final \in Paths /\ wk[x].gid = NoId
  BY <1>1, TaskOfType DEF Shape, WorkersOK, PointerOK, Attempt, TaskOf
<1>3. CASE tmpFiles' = tmpFiles \ {u.temp} /\ NextAttempt(x) /\ UNCHANGED engine
  <2>1. PICK w \in WorkerRec : /\ wk' = [wk EXCEPT ![x] = w]
                               /\ w.gen = wk[x].gen /\ w.idx = wk[x].idx /\ w.gid = NoId
                               /\ w.pc = "try" \/ (w.pc = "settle" /\ w.result = "failed")
    BY <1>2, <1>3, NextAttemptMoves
  <2>2. Moved(x, u, w)
    BY <1>1, <1>2, <2>1, TaskStays DEF Moved, Attempt
  <2> QED BY <1>1, <1>3, <2>1, <2>2
<1>4. ASSUME NEW e \in Transfers, engine[e].st = "unused",
             engine' = [engine EXCEPT ![e] = [st |-> "running", temp |-> u.temp]],
             tmpFiles' = tmpFiles \cup {u.temp},
             wk' = [wk EXCEPT ![x].pc = "created", ![x].gid = e]
      PROVE  \E w : Moved(x, u, w) /\ w.pc = "created" /\ w.gid = e
  <2> DEFINE w == [wk[x] EXCEPT !.pc = "created", !.gid = e]
  <2>0. e # NoId
    BY DEF Transfers, NoId
  <2>1. /\ w \in WorkerRec /\ w.gen = wk[x].gen /\ w.idx = wk[x].idx /\ w.pc = "created"
        /\ w.gid = e /\ e # NoId
    BY <1>2, <2>0 DEF WorkerRec, WorkerPcs
  <2>2. wk' = [wk EXCEPT ![x] = w]
    BY <1>4
  <2>3. Moved(x, u, w)
    BY <1>1, <1>2, <2>1, <2>2, TaskStays DEF Moved, Attempt
  <2> QED BY <2>1, <2>3
<1> QED BY <1>1, <1>3, <1>4 DEF WorkerCreate

LEMMA WaitMoves ==
  ASSUME Shape, NEW x \in EveryWorker, WorkerWait(x)
  PROVE  /\ Holding(x) /\ wk[x].pc = "wait"
         /\ UNCHANGED <<control, run, disk, records, reqPc, req, crashed>>
         /\ \E t, w :
              /\ Moved(x, t, w) /\ t.final = TaskOf(x).final
              /\ \/ /\ Clean(ArtsOf(TaskOf(x))) /\ t.gid = NoId
                    /\ w.pc = "try" \/ (w.pc = "settle" /\ w.result # "ok")
                 \/ /\ t = TaskOf(x) /\ UNCHANGED <<engine, tmpFiles>>
                    /\ \/ w.pc = "settle" /\ w.result = "paused"
                          /\ (resumable \/ Status(t.gid) = "pause")
                       \/ w.pc = "check" /\ Status(t.gid) = "done"
<1> DEFINE u  == TaskOf(x)
           st == Status(u.gid)
<1>1. /\ Holding(x) /\ wk[x].pc = "wait"
      /\ UNCHANGED <<control, run, disk, records, reqPc, req, crashed>>
  BY DEF WorkerWait, At, Holding
<1>2. wk[x] \in WorkerRec /\ u \in Task /\ u.final \in Paths /\ wk[x].gid = NoId
  BY <1>1, TaskOfType DEF Shape, WorkersOK, PointerOK, Attempt, TaskOf
<1>3. ASSUME Drop(x, FALSE)
      PROVE  /\ Clean(ArtsOf(u))
             /\ \E t \in Task : /\ batches' = [batches EXCEPT ![wk[x].gen][wk[x].idx] = t]
                                /\ t.video = u.video /\ t.status = u.status
                                /\ t.final = u.final /\ t.gid = NoId
  BY <1>1, <1>3, DropMoves DEF Drop, ArtsOf
<1>4. ASSUME Settle(x, "paused")
      PROVE  \E w \in WorkerRec : /\ wk' = [wk EXCEPT ![x] = w]
                                  /\ w.gen = wk[x].gen /\ w.idx = wk[x].idx
                                  /\ w.pc = "settle" /\ w.gid = NoId /\ w.result = "paused"
  BY <1>2, <1>4, SettleMoves
<1>5. CASE Settle(x, "paused") /\ Drop(x, FALSE)
  <2>1. PICK t \in Task : /\ batches' = [batches EXCEPT ![wk[x].gen][wk[x].idx] = t]
                          /\ t.video = u.video /\ t.status = u.status
                          /\ t.final = u.final /\ t.gid = NoId
    BY <1>3, <1>5
  <2>2. PICK w \in WorkerRec : /\ wk' = [wk EXCEPT ![x] = w]
                               /\ w.gen = wk[x].gen /\ w.idx = wk[x].idx
                               /\ w.pc = "settle" /\ w.gid = NoId /\ w.result = "paused"
    BY <1>4, <1>5
  <2>3. Moved(x, t, w)
    BY <1>2, <2>1, <2>2 DEF Moved, Attempt
  <2> QED BY <1>1, <1>3, <1>5, <2>1, <2>2, <2>3
<1>6. CASE Drop(x, FALSE) /\ NextAttempt(x)
  <2>1. PICK t \in Task : /\ batches' = [batches EXCEPT ![wk[x].gen][wk[x].idx] = t]
                          /\ t.video = u.video /\ t.status = u.status
                          /\ t.final = u.final /\ t.gid = NoId
    BY <1>3, <1>6
  <2>2. PICK w \in WorkerRec : /\ wk' = [wk EXCEPT ![x] = w]
                               /\ w.gen = wk[x].gen /\ w.idx = wk[x].idx /\ w.gid = NoId
                               /\ w.pc = "try" \/ (w.pc = "settle" /\ w.result = "failed")
    BY <1>2, <1>6, NextAttemptMoves
  <2>3. Moved(x, t, w)
    BY <1>2, <2>1, <2>2 DEF Moved, Attempt
  <2> QED BY <1>1, <1>3, <1>6, <2>1, <2>2, <2>3
<1>7. CASE /\ Settle(x, "paused") /\ UNCHANGED <<batches, engine, tmpFiles>>
           /\ resumable \/ st = "pause"
  <2>1. PICK w \in WorkerRec : /\ wk' = [wk EXCEPT ![x] = w]
                               /\ w.gen = wk[x].gen /\ w.idx = wk[x].idx
                               /\ w.pc = "settle" /\ w.gid = NoId /\ w.result = "paused"
    BY <1>4, <1>7
  <2>2. Moved(x, u, w)
    BY <1>1, <1>2, <1>7, <2>1, TaskStays DEF Moved, Attempt
  <2> QED BY <1>1, <1>7, <2>1, <2>2
<1>8. CASE st = "done" /\ Goto(x, "check") /\ UNCHANGED <<batches, engine, tmpFiles>>
  <2>1. PICK w \in WorkerRec : /\ wk' = [wk EXCEPT ![x] = w]
                               /\ w.gen = wk[x].gen /\ w.idx = wk[x].idx
                               /\ w.pc = "check" /\ w.gid = NoId
    BY <1>2, <1>8, GotoMoves DEF Attempt
  <2>2. Moved(x, u, w)
    BY <1>1, <1>2, <1>8, <2>1, TaskStays DEF Moved, Attempt
  <2> QED BY <1>1, <1>8, <2>1, <2>2
<1> QED BY <1>5, <1>6, <1>7, <1>8 DEF WorkerWait

LEMMA CheckMoves ==
  ASSUME Shape, NEW x \in EveryWorker, WorkerCheck(x)
  PROVE  /\ Holding(x) /\ wk[x].pc = "check"
         /\ UNCHANGED <<control, run, disk, records, reqPc, req, crashed>>
         /\ \E t, w :
              /\ Moved(x, t, w) /\ t.final = TaskOf(x).final
              /\ \/ /\ t = TaskOf(x) /\ w.pc = "move" /\ w.dest.name = t.final.name
                    /\ UNCHANGED <<engine, tmpFiles>>
                 \/ /\ Clean(ArtsOf(TaskOf(x))) /\ t.gid = NoId
                    /\ w.pc = "try" \/ (w.pc = "settle" /\ w.result = "failed")
<1> DEFINE u == TaskOf(x)
<1>1. /\ Holding(x) /\ wk[x].pc = "check"
      /\ UNCHANGED <<control, run, disk, records, reqPc, req, crashed>>
  BY DEF WorkerCheck, At, Holding
<1>2. wk[x] \in WorkerRec /\ u \in Task /\ u.final \in Paths /\ wk[x].gid = NoId
  BY <1>1, TaskOfType DEF Shape, WorkersOK, PointerOK, Attempt, TaskOf
<1>3. ASSUME NEW p \in UniquePath(u.final), wk' = [wk EXCEPT ![x].pc = "move", ![x].dest = p],
             batches' = batches
      PROVE  \E w : Moved(x, u, w) /\ w.pc = "move" /\ w.dest.name = u.final.name
  <2> DEFINE w == [wk[x] EXCEPT !.pc = "move", !.dest = p]
  <2>1. p \in Paths /\ p.name = u.final.name
    BY <1>2, PathFacts
  <2>2. /\ w \in WorkerRec /\ w.gen = wk[x].gen /\ w.idx = wk[x].idx /\ w.pc = "move"
        /\ w.dest = p /\ w.gid = NoId
    BY <1>2, <2>1 DEF WorkerRec, WorkerPcs
  <2>3. wk' = [wk EXCEPT ![x] = w]
    BY <1>3
  <2>4. Moved(x, u, w)
    BY <1>1, <1>2, <1>3, <2>1, <2>2, <2>3, TaskStays DEF Moved, Attempt
  <2> QED BY <2>1, <2>2, <2>4
<1>4. CASE Drop(x, TRUE) /\ NextAttempt(x)
  <2>1. Clean(ArtsOf(u))
    BY <1>4 DEF Drop, ArtsOf
  <2>2. PICK t \in Task : /\ batches' = [batches EXCEPT ![wk[x].gen][wk[x].idx] = t]
                          /\ t.video = u.video /\ t.status = u.status
                          /\ t.final = u.final /\ t.gid = NoId
    BY <1>1, <1>4, DropMoves
  <2>3. PICK w \in WorkerRec : /\ wk' = [wk EXCEPT ![x] = w]
                               /\ w.gen = wk[x].gen /\ w.idx = wk[x].idx /\ w.gid = NoId
                               /\ w.pc = "try" \/ (w.pc = "settle" /\ w.result = "failed")
    BY <1>2, <1>4, NextAttemptMoves
  <2>4. Moved(x, t, w)
    BY <1>2, <2>2, <2>3 DEF Moved, Attempt
  <2> QED BY <1>1, <2>1, <2>2, <2>3, <2>4
<1> QED BY <1>1, <1>3, <1>4 DEF WorkerCheck

LEMMA MoveMoves ==
  ASSUME Shape, NEW x \in EveryWorker, WorkerMove(x)
  PROVE  /\ Holding(x) /\ wk[x].pc = "move" /\ UNCHANGED <<control, run, reqPc, req, crashed>>
         /\ \E t, w :
              /\ Moved(x, t, w) /\ t.gid = NoId
              /\ \/ /\ t.final = wk[x].dest /\ w.pc = "settle" /\ w.result = "ok"
                    /\ Delete({TaskOf(x).gid}) /\ tmpFiles' = tmpFiles \ {TaskOf(x).temp}
                    /\ disk' = {f \in disk : f[1] # wk[x].dest}
                                 \cup {<<wk[x].dest, TaskOf(x).video>>}
                    /\ records' = IF records[TaskOf(x).video] # NoPath THEN records
                                  ELSE [records EXCEPT ![TaskOf(x).video] = wk[x].dest]
                 \/ /\ t.final = TaskOf(x).final /\ UNCHANGED <<disk, records>>
                    /\ Clean(ArtsOf(TaskOf(x)))
                    /\ w.pc = "try" \/ (w.pc = "settle" /\ w.result = "failed")
<1> DEFINE u == TaskOf(x)
<1>1. Holding(x) /\ wk[x].pc = "move" /\ UNCHANGED <<control, run, reqPc, req, crashed>>
  BY DEF WorkerMove, At, Holding
<1>2. /\ wk[x] \in WorkerRec /\ u \in Task /\ u.final \in Paths /\ wk[x].gid = NoId
      /\ wk[x].dest \in Paths
  BY <1>1, TaskOfType DEF Shape, WorkersOK, PointerOK, Attempt, TaskOf
<1>3. CASE u.temp \in tmpFiles
  <2> DEFINE t == [u EXCEPT !.gid = NoId, !.temp = NoPath, !.final = wk[x].dest]
  <2>1. Settle(x, "ok") /\ SetTask(x, t)
    BY <1>3 DEF WorkerMove
  <2>2. PICK w \in WorkerRec : /\ wk' = [wk EXCEPT ![x] = w]
                               /\ w.gen = wk[x].gen /\ w.idx = wk[x].idx
                               /\ w.pc = "settle" /\ w.gid = NoId /\ w.result = "ok"
    BY <1>2, <2>1, SettleMoves
  <2>3. /\ t \in Task /\ t.video = u.video /\ t.status = u.status /\ t.gid = NoId
        /\ t.final = wk[x].dest
    BY <1>2 DEF Task
  <2>4. Moved(x, t, w)
    BY <1>2, <2>1, <2>2, <2>3 DEF Moved, Attempt, SetTask
  <2>5. /\ Delete({u.gid}) /\ tmpFiles' = tmpFiles \ {u.temp}
        /\ disk' = {f \in disk : f[1] # wk[x].dest} \cup {<<wk[x].dest, u.video>>}
        /\ records' = IF records[u.video] # NoPath THEN records
                      ELSE [records EXCEPT ![u.video] = wk[x].dest]
    BY <1>3 DEF WorkerMove
  <2> QED BY <1>1, <2>2, <2>3, <2>4, <2>5
<1>4. CASE u.temp \notin tmpFiles
  <2>1. Clean(ArtsOf(u)) /\ Drop(x, TRUE) /\ NextAttempt(x) /\ UNCHANGED <<disk, records>>
    BY <1>4 DEF WorkerMove, Drop, ArtsOf
  <2>2. PICK t \in Task : /\ batches' = [batches EXCEPT ![wk[x].gen][wk[x].idx] = t]
                          /\ t.video = u.video /\ t.status = u.status
                          /\ t.final = u.final /\ t.gid = NoId
    BY <1>1, <2>1, DropMoves
  <2>3. PICK w \in WorkerRec : /\ wk' = [wk EXCEPT ![x] = w]
                               /\ w.gen = wk[x].gen /\ w.idx = wk[x].idx /\ w.gid = NoId
                               /\ w.pc = "try" \/ (w.pc = "settle" /\ w.result = "failed")
    BY <1>2, <2>1, NextAttemptMoves
  <2>4. Moved(x, t, w)
    BY <1>2, <2>2, <2>3 DEF Moved, Attempt
  <2> QED BY <1>1, <2>1, <2>2, <2>3, <2>4
<1> QED BY <1>3, <1>4

LEMMA MiddleMoves ==
  ASSUME Shape, NEW x \in EveryWorker, Middle(x)
  PROVE  /\ Holding(x) /\ wk[x].pc \in Attempt \cup {"begin"}
         /\ UNCHANGED <<control, run, reqPc, req, crashed>>
         /\ \E t, w : Moved(x, t, w)
<1>1. CASE WorkerBegin(x)
  BY <1>1, BeginMoves
<1>2. CASE WorkerTry(x)
  BY <1>2, TryMoves DEF Attempt
<1>3. CASE WorkerPrepare(x)
  BY <1>3, PrepareMoves DEF Attempt
<1>4. CASE WorkerCreate(x)
  BY <1>4, CreateMoves DEF Attempt
<1>5. CASE WorkerCreated(x)
  BY <1>5, CreatedMoves DEF Attempt
<1>6. CASE WorkerWait(x)
  BY <1>6, WaitMoves DEF Attempt
<1>7. CASE WorkerCheck(x)
  BY <1>7, CheckMoves DEF Attempt
<1>8. CASE WorkerMove(x)
  BY <1>8, MoveMoves DEF Attempt
<1> QED BY <1>1, <1>2, <1>3, <1>4, <1>5, <1>6, <1>7, <1>8 DEF Middle

\* What a step of a worker at its task does to the arrays of tasks.
LEMMA MovedTasks ==
  ASSUME Shape, NEW x \in EveryWorker, Holding(x), NEW t, NEW w, Moved(x, t, w)
  PROVE  /\ batches' \in Seq(Seq(Task)) /\ Len(batches') = Len(batches)
         /\ DOMAIN batches' = DOMAIN batches
         /\ \A g \in DOMAIN batches : DOMAIN batches'[g] = DOMAIN batches[g]
         /\ \A g \in DOMAIN batches : \A i \in DOMAIN batches[g] :
              batches'[g][i] = IF g = wk[x].gen /\ i = wk[x].idx THEN t ELSE batches[g][i]
         /\ wk' \in [EveryWorker -> WorkerRec]
         /\ wk'[x] = w /\ \A y \in EveryWorker : y # x => wk'[y] = wk[y]
<1>1. batches \in Seq(Seq(Task)) /\ wk \in [EveryWorker -> WorkerRec]
  BY DEF Shape, TasksOK, WorkersOK
<1>2. wk[x].gen \in DOMAIN batches /\ wk[x].idx \in DOMAIN batches[wk[x].gen]
  BY TaskOfType
<1>3. /\ t \in Task /\ w \in WorkerRec /\ wk' = [wk EXCEPT ![x] = w]
      /\ batches' = [batches EXCEPT ![wk[x].gen][wk[x].idx] = t]
  BY DEF Moved
<1>4. /\ batches' \in Seq(Seq(Task)) /\ Len(batches') = Len(batches)
      /\ DOMAIN batches' = DOMAIN batches
      /\ \A g \in DOMAIN batches : DOMAIN batches'[g] = DOMAIN batches[g]
      /\ \A g \in DOMAIN batches : \A i \in DOMAIN batches[g] :
           batches'[g][i] = IF g = wk[x].gen /\ i = wk[x].idx THEN t ELSE batches[g][i]
  BY <1>1, <1>2, <1>3, Update
<1> QED BY <1>1, <1>3, <1>4

LEMMA MovedShape ==
  ASSUME Shape, NEW x \in EveryWorker, Holding(x), NEW t, NEW w, Moved(x, t, w), cur' = cur
  PROVE  TasksOK' /\ WorkersOK'
<1>1. TasksOK'
  BY MovedTasks DEF Shape, TasksOK
<1>2. ASSUME NEW y \in EveryWorker
      PROVE  PointerOK(wk[y])'
  <2>1. CASE y = x
    <3>1. wk[x].gen \in DOMAIN batches /\ wk[x].idx \in DOMAIN batches[wk[x].gen]
      BY TaskOfType
    <3>2. wk'[x] = w /\ batches'[wk[x].gen][wk[x].idx] = t
      BY <3>1, MovedTasks
    <3> QED BY <2>1, <3>1, <3>2, MovedTasks DEF PointerOK, Moved, Attempt
  <2>2. CASE y # x
    <3>1. wk'[y] = wk[y] /\ PointerOK(wk[y])
      BY <2>2, MovedTasks DEF Shape, WorkersOK
    <3>2. ASSUME NEW g \in DOMAIN batches, NEW i \in DOMAIN batches[g], batches[g][i].final \in Paths
          PROVE  batches'[g][i].final \in Paths
      BY <3>2, MovedTasks DEF Moved, TaskOf
    <3>3. /\ DOMAIN batches' = DOMAIN batches
          /\ \A g \in DOMAIN batches : DOMAIN batches'[g] = DOMAIN batches[g]
      BY MovedTasks
    <3>4. wk[y].pc \in Attempt => wk[y].pc \notin {"idle", "picked", "exit"}
      BY DEF Attempt
    <3> QED BY <3>1, <3>2, <3>3, <3>4 DEF PointerOK
  <2> QED BY <2>1, <2>2
<1> QED BY <1>1, <1>2, MovedTasks DEF WorkersOK

\* The files a step at a task leaves.
LEMMA MiddleFiles ==
  ASSUME Shape, NEW x \in EveryWorker, Middle(x)
  PROVE  FilesOK'
<1> DEFINE u == TaskOf(x)
<1>0. Holding(x) /\ u \in Task /\ FilesOK
  BY MiddleMoves, TaskOfType DEF Shape
<1>1. CASE WorkerBegin(x) \/ WorkerTry(x) \/ WorkerCreated(x)
  <2>1. UNCHANGED files
    BY <1>1, BeginMoves, TryMoves, CreatedMoves
  <2> QED BY <1>0, <2>1 DEF files, FilesOK
<1>2. ArtsOf(u) \in SUBSET Arts
  BY <1>0 DEF ArtsOf, Arts, Task
<1>3. ASSUME Clean(ArtsOf(u)), UNCHANGED <<disk, records>>
      PROVE  FilesOK'
  BY <1>0, <1>2, <1>3, CleanTypes DEF FilesOK
<1>4. ASSUME UNCHANGED <<engine, tmpFiles, disk, records>>
      PROVE  FilesOK'
  BY <1>0, <1>4 DEF FilesOK
<1>5. CASE WorkerPrepare(x)
  <2>1. UNCHANGED <<disk, records>>
    BY <1>5, PrepareMoves
  <2>2. \/ Clean(ArtsOf(u)) \/ UNCHANGED <<engine, tmpFiles>>
        \/ UNCHANGED tmpFiles /\ engine' = [engine EXCEPT ![u.gid].st = "running"]
    BY <1>5, PrepareMoves
  <2>3. ASSUME engine' = [engine EXCEPT ![u.gid].st = "running"]
        PROVE  engine' \in [Transfers -> EngineRec]
    BY <1>0, <2>3 DEF FilesOK, EngineRec
  <2> QED BY <1>0, <1>3, <1>4, <2>1, <2>2, <2>3 DEF FilesOK
<1>6. CASE WorkerCreate(x)
  <2>1. UNCHANGED <<disk, records>>
    BY <1>6, CreateMoves
  <2>2. \/ tmpFiles' = tmpFiles \ {u.temp} /\ UNCHANGED engine
        \/ /\ tmpFiles' = tmpFiles \cup {u.temp}
           /\ \E e \in Transfers :
                engine' = [engine EXCEPT ![e] = [st |-> "running", temp |-> u.temp]]
    BY <1>6, CreateMoves
  <2>3. u.temp \in LoosePaths /\ [st |-> "running", temp |-> u.temp] \in EngineRec
    BY <1>0 DEF Task, LoosePaths, EngineRec
  <2> QED BY <1>0, <2>1, <2>2, <2>3 DEF FilesOK
<1>7. CASE WorkerWait(x)
  BY <1>3, <1>4, <1>7, WaitMoves
<1>8. CASE WorkerCheck(x)
  BY <1>3, <1>4, <1>8, CheckMoves
<1>9. CASE WorkerMove(x)
  <2>1. CASE UNCHANGED <<disk, records>> /\ Clean(ArtsOf(u))
    BY <1>3, <2>1
  <2>2. CASE /\ Delete({u.gid}) /\ tmpFiles' = tmpFiles \ {u.temp}
             /\ disk' = {f \in disk : f[1] # wk[x].dest} \cup {<<wk[x].dest, u.video>>}
             /\ records' = IF records[u.video] # NoPath THEN records
                           ELSE [records EXCEPT ![u.video] = wk[x].dest]
    <3>1. wk[x].dest \in Paths /\ u.video \in Videos
      <4>1. wk[x].pc = "move" /\ PointerOK(wk[x])
        BY <1>9, MoveMoves DEF Shape, WorkersOK
      <4> QED BY <1>0, <4>1 DEF PointerOK, Task
    <3>2. engine' \in [Transfers -> EngineRec]
      BY <1>0, <2>2 DEF FilesOK, EngineRec, Delete
    <3> QED BY <1>0, <2>2, <3>1, <3>2 DEF FilesOK
  <2> QED BY <1>9, <2>1, <2>2, MoveMoves
<1> QED BY <1>1, <1>5, <1>6, <1>7, <1>8, <1>9 DEF Middle

LEMMA MiddleShape ==
  ASSUME Shape, NEW x \in EveryWorker, Middle(x), UNCHANGED resumable
  PROVE  Shape'
<1>1. PICK t, w : Moved(x, t, w)
  BY MiddleMoves
<1>2. Holding(x) /\ UNCHANGED <<control, run, reqPc, req, crashed>>
  BY MiddleMoves
<1>3. TasksOK' /\ WorkersOK'
  BY <1>1, <1>2, MovedShape DEF control
<1>4. ControlOK' /\ RunOK' /\ ReqOK'
  BY <1>2 DEF Shape, ControlOK, RunOK, ReqOK, control
<1> QED BY <1>3, <1>4, MiddleFiles DEF Shape

\* Who leaves the tasks and the locals of the workers alone.
LEMMA SameWorkers ==
  ASSUME Shape, UNCHANGED <<batches, wk>>, cur' \in {cur, 0}
  PROVE  TasksOK' /\ WorkersOK'
<1>1. TasksOK'
  BY DEF Shape, TasksOK
<1>2. WorkersOK'
  BY DEF Shape, WorkersOK, PointerOK
<1> QED BY <1>1, <1>2

\* A worker writes its result and lets go of its task.
LEMMA SettleFacts ==
  ASSUME Shape, NEW x \in EveryWorker, WorkerSettle(x)
  PROVE  /\ Holding(x) /\ wk[x].pc = "settle"
         /\ UNCHANGED <<control, run, files, reqPc, req, crashed>>
         /\ wk' = [wk EXCEPT ![x] = FreeWorker]
         /\ \E t \in Task : /\ batches' = [batches EXCEPT ![wk[x].gen][wk[x].idx] = t]
                            /\ t.video = TaskOf(x).video /\ t.gid = TaskOf(x).gid
                            /\ t.temp = TaskOf(x).temp /\ t.final = TaskOf(x).final
                            /\ t.status # "downloading"
                            /\ t.status = "done" => wk[x].result = "ok" \/ TaskOf(x).status = "done"
<1> DEFINE u == TaskOf(x)
           o == Outcome(wk[x].result, u.status)
           t == [u EXCEPT !.status = o]
<1>1. Holding(x) /\ wk[x].pc = "settle" /\ UNCHANGED <<control, run, files, reqPc, req, crashed>>
  BY DEF WorkerSettle, At, Holding
<1>2. u \in Task /\ wk[x].result \in {"ok", "failed", "paused"}
  BY <1>1, TaskOfType DEF Shape, WorkersOK, PointerOK, WorkerRec
<1>3. /\ o \in {"pending", "done", "failed"}
      /\ o = "done" => wk[x].result = "ok" \/ u.status = "done"
  BY <1>2 DEF Outcome, Task
<1>4. /\ t \in Task /\ t.video = u.video /\ t.gid = u.gid /\ t.temp = u.temp
      /\ t.final = u.final /\ t.status = o
  BY <1>2, <1>3 DEF Task
<1>5. wk' = [wk EXCEPT ![x] = FreeWorker] /\ batches' = [batches EXCEPT ![wk[x].gen][wk[x].idx] = t]
  BY DEF WorkerSettle, SetTask
<1> QED BY <1>1, <1>3, <1>4, <1>5

LEMMA FreeWorkerOK == FreeWorker \in WorkerRec /\ PointerOK(FreeWorker)'
BY CountsAssumption DEF FreeWorker, WorkerRec, WorkerPcs, PointerOK, Attempt, NoId

LEMMA SettleShape ==
  ASSUME Shape, NEW x \in EveryWorker, WorkerSettle(x), UNCHANGED resumable
  PROVE  Shape'
<1>1. PICK t \in Task : /\ batches' = [batches EXCEPT ![wk[x].gen][wk[x].idx] = t]
                        /\ t.final = TaskOf(x).final
  BY SettleFacts
<1>2. /\ Holding(x) /\ UNCHANGED <<control, run, files, reqPc, req, crashed>>
      /\ wk' = [wk EXCEPT ![x] = FreeWorker]
  BY SettleFacts
<1>3. wk[x].gen \in DOMAIN batches /\ wk[x].idx \in DOMAIN batches[wk[x].gen]
  BY <1>2, TaskOfType
<1>4. batches \in Seq(Seq(Task)) /\ wk \in [EveryWorker -> WorkerRec]
  BY DEF Shape, TasksOK, WorkersOK
<1>5. /\ batches' \in Seq(Seq(Task)) /\ Len(batches') = Len(batches)
      /\ DOMAIN batches' = DOMAIN batches
      /\ \A g \in DOMAIN batches : DOMAIN batches'[g] = DOMAIN batches[g]
      /\ \A g \in DOMAIN batches : \A i \in DOMAIN batches[g] :
           batches'[g][i] = IF g = wk[x].gen /\ i = wk[x].idx THEN t ELSE batches[g][i]
  BY <1>1, <1>3, <1>4, Update
<1>6. TasksOK'
  BY <1>2, <1>5 DEF Shape, TasksOK, control
<1>7. ASSUME NEW y \in EveryWorker
      PROVE  PointerOK(wk[y])'
  <2>1. CASE y = x
    BY <1>2, <1>4, <2>1, FreeWorkerOK
  <2>2. CASE y # x
    <3>1. wk'[y] = wk[y] /\ PointerOK(wk[y])
      BY <1>2, <1>4, <2>2 DEF Shape, WorkersOK
    <3>2. ASSUME NEW g \in DOMAIN batches, NEW i \in DOMAIN batches[g], batches[g][i].final \in Paths
          PROVE  batches'[g][i].final \in Paths
      BY <1>1, <1>5, <3>2 DEF TaskOf
    <3>3. wk[y].pc \in Attempt => wk[y].pc \notin {"idle", "picked", "exit"}
      BY DEF Attempt
    <3> QED BY <1>5, <3>1, <3>2, <3>3 DEF PointerOK
  <2> QED BY <2>1, <2>2
<1>8. WorkersOK'
  BY <1>2, <1>4, <1>7, FreeWorkerOK DEF WorkersOK
<1>9. ControlOK' /\ RunOK' /\ ReqOK' /\ FilesOK'
  BY <1>2 DEF Shape, ControlOK, RunOK, ReqOK, FilesOK, control, files
<1> QED BY <1>6, <1>8, <1>9 DEF Shape

\* Taking an index from the channel, and leaving.
LEMMA TakeFacts ==
  ASSUME Shape, NEW x \in EveryWorker, WorkerTake(x)
  PROVE  /\ wk[x].pc = "idle" /\ UNCHANGED <<batches, control, files, reqPc, req, crashed>>
         /\ run[x[1]].chan # <<>> /\ run[x[1]] \in RunRec /\ x[1] \in Runs
         /\ run' = [run EXCEPT ![x[1]].chan = Tail(run[x[1]].chan)]
         /\ \E w \in WorkerRec :
              /\ wk' = [wk EXCEPT ![x] = w] /\ w.gid = NoId
              /\ w.pc = "exit" \/ (w.pc = "picked" /\ w.idx = Head(run[x[1]].chan))
<1>1. /\ wk[x].pc = "idle" /\ UNCHANGED <<batches, control, files, reqPc, req, crashed>>
      /\ run[x[1]].chan # <<>> /\ run' = [run EXCEPT ![x[1]].chan = Tail(run[x[1]].chan)]
  BY DEF WorkerTake, At
<1>2. x[1] \in Runs /\ run[x[1]] \in RunRec
  BY DEF Shape, RunOK, EveryWorker
<1>3. Head(run[x[1]].chan) \in Nat \ {0}
  BY <1>1, <1>2 DEF RunRec
<1> DEFINE h == Head(run[x[1]].chan)
<1>4. ASSUME NEW pc \in {"exit", "picked"}, NEW i \in Nat
      PROVE  /\ [FreeWorker EXCEPT !.pc = pc, !.idx = i] \in WorkerRec
             /\ [FreeWorker EXCEPT !.pc = pc] \in WorkerRec
  BY FreeWorkerOK DEF WorkerRec, WorkerPcs
<1>5. \E w \in WorkerRec : /\ wk' = [wk EXCEPT ![x] = w] /\ w.gid = NoId
                           /\ w.pc = "exit" \/ (w.pc = "picked" /\ w.idx = h)
  <2>1. CASE ctx[x[1]] = "cancelled"
    <3>1. wk' = [wk EXCEPT ![x] = [FreeWorker EXCEPT !.pc = "exit"]]
      BY <2>1 DEF WorkerTake
    <3>2. [FreeWorker EXCEPT !.pc = "exit"] \in WorkerRec
      BY <1>4
    <3> QED BY <3>1, <3>2 DEF FreeWorker
  <2>2. CASE ctx[x[1]] # "cancelled"
    <3>1. wk' = [wk EXCEPT ![x] = [FreeWorker EXCEPT !.pc = "picked", !.idx = h]]
      BY <2>2 DEF WorkerTake
    <3>2. [FreeWorker EXCEPT !.pc = "picked", !.idx = h] \in WorkerRec
      BY <1>3, <1>4
    <3> QED BY <3>1, <3>2 DEF FreeWorker
  <2> QED BY <2>1, <2>2
<1> QED BY <1>1, <1>2, <1>5

LEMMA TakeShape ==
  ASSUME Shape, NEW x \in EveryWorker, WorkerTake(x), UNCHANGED resumable
  PROVE  Shape'
<1> DEFINE chan == run[x[1]].chan
<1>1. PICK w \in WorkerRec : /\ wk' = [wk EXCEPT ![x] = w] /\ w.gid = NoId
                             /\ w.pc = "exit" \/ (w.pc = "picked" /\ w.idx = Head(chan))
  BY TakeFacts
<1>2. /\ UNCHANGED <<batches, control, files, reqPc, req, crashed>> /\ chan # <<>>
      /\ run[x[1]] \in RunRec /\ x[1] \in Runs /\ run' = [run EXCEPT ![x[1]].chan = Tail(chan)]
  BY TakeFacts
<1>3. Tail(chan) \in Seq(Nat \ {0}) /\ Head(chan) \in Nat \ {0}
  BY <1>2 DEF RunRec
<1>4. RunOK'
  BY <1>2, <1>3 DEF Shape, RunOK, RunRec
<1>5. PointerOK(w)'
  BY <1>1, <1>3 DEF PointerOK, Attempt
<1>6. WorkersOK'
  <2>1. wk \in [EveryWorker -> WorkerRec] /\ \A y \in EveryWorker : PointerOK(wk[y])
    BY DEF Shape, WorkersOK
  <2>2. \A y \in EveryWorker : y # x => PointerOK(wk[y])'
    BY <1>1, <1>2, <2>1 DEF PointerOK
  <2> QED BY <1>1, <1>5, <2>1, <2>2 DEF WorkersOK
<1>7. ControlOK' /\ TasksOK' /\ ReqOK' /\ FilesOK'
  BY <1>2 DEF Shape, ControlOK, TasksOK, ReqOK, FilesOK, control, files
<1> QED BY <1>4, <1>6, <1>7 DEF Shape

\* A worker turns the index it took into a pointer to the task it begins.
LEMMA MarkFacts ==
  ASSUME Shape, NEW x \in EveryWorker, WorkerMark(x)
  PROVE  /\ wk[x].pc = "picked" /\ UNCHANGED <<control, run, files, reqPc, req, crashed>>
         /\ cur # 0 /\ cur \in DOMAIN batches /\ wk[x].idx \in DOMAIN batches[cur]
         /\ \E w \in WorkerRec : /\ wk' = [wk EXCEPT ![x] = w] /\ w.gid = NoId
                                 /\ w.pc = "begin" /\ w.gen = cur /\ w.idx = wk[x].idx
         /\ \E t \in Task : /\ batches' = [batches EXCEPT ![cur][wk[x].idx] = t]
                            /\ t = [batches[cur][wk[x].idx] EXCEPT !.status = "downloading"]
                            /\ t.video = batches[cur][wk[x].idx].video
                            /\ t.gid = batches[cur][wk[x].idx].gid
                            /\ t.temp = batches[cur][wk[x].idx].temp
                            /\ t.final = batches[cur][wk[x].idx].final
                            /\ t.status = "downloading"
<1> DEFINE i == wk[x].idx
           u == batches[cur][i]
           t == [u EXCEPT !.status = "downloading"]
           w == [wk[x] EXCEPT !.pc = "begin", !.gen = cur]
<1>1. wk[x].pc = "picked" /\ UNCHANGED <<control, run, files, reqPc, req, crashed>> /\ i <= Len(Tasks)
  BY DEF WorkerMark, At
<1>2. wk[x] \in WorkerRec /\ i \in Nat \ {0} /\ wk[x].gid = NoId
  BY <1>1 DEF Shape, WorkersOK, PointerOK, WorkerRec
<1>3. cur # 0 /\ cur \in 0..Len(batches) /\ batches \in Seq(Seq(Task))
  <2>1. cur # 0
    BY <1>1, <1>2 DEF Tasks
  <2> QED BY <2>1 DEF Shape, TasksOK
<1>4. cur \in DOMAIN batches
  BY <1>3
<1>5. i \in DOMAIN batches[cur] /\ batches[cur] \in Seq(Task)
  <2>1. batches[cur] \in Seq(Task) /\ Len(Tasks) = Len(batches[cur])
    BY <1>3, <1>4 DEF Tasks
  <2> QED BY <1>1, <1>2, <2>1
<1>6. u \in Task
  BY <1>5
<1>7. /\ t \in Task /\ t.video = u.video /\ t.gid = u.gid /\ t.temp = u.temp /\ t.final = u.final
      /\ t.status = "downloading"
  BY <1>6 DEF Task
<1>8. w \in WorkerRec /\ w.gid = NoId /\ w.pc = "begin" /\ w.gen = cur /\ w.idx = i
  <2>1. cur \in Nat
    BY <1>3
  <2> QED BY <1>2, <2>1 DEF WorkerRec, WorkerPcs
<1>9. batches' = [batches EXCEPT ![cur][i] = t] /\ wk' = [wk EXCEPT ![x] = w]
  BY DEF WorkerMark
<1> QED BY <1>1, <1>3, <1>4, <1>5, <1>7, <1>8, <1>9

LEMMA MarkShape ==
  ASSUME Shape, NEW x \in EveryWorker, WorkerMark(x), UNCHANGED resumable
  PROVE  Shape'
<1> DEFINE i == wk[x].idx
<1>1. /\ UNCHANGED <<control, run, files, reqPc, req, crashed>>
      /\ cur \in DOMAIN batches /\ i \in DOMAIN batches[cur]
  BY MarkFacts
<1>2. PICK w \in WorkerRec : /\ wk' = [wk EXCEPT ![x] = w] /\ w.gid = NoId
                             /\ w.pc = "begin" /\ w.gen = cur /\ w.idx = i
  BY MarkFacts
<1>3. PICK t \in Task : /\ batches' = [batches EXCEPT ![cur][i] = t]
                        /\ t.final = batches[cur][i].final
  BY MarkFacts
<1>4. batches \in Seq(Seq(Task)) /\ wk \in [EveryWorker -> WorkerRec]
  BY DEF Shape, TasksOK, WorkersOK
<1>5. /\ batches' \in Seq(Seq(Task)) /\ Len(batches') = Len(batches)
      /\ DOMAIN batches' = DOMAIN batches
      /\ \A g \in DOMAIN batches : DOMAIN batches'[g] = DOMAIN batches[g]
      /\ \A g \in DOMAIN batches : \A j \in DOMAIN batches[g] :
           batches'[g][j] = IF g = cur /\ j = i THEN t ELSE batches[g][j]
  BY <1>1, <1>3, <1>4, Update
<1>6. TasksOK'
  BY <1>1, <1>5 DEF Shape, TasksOK, control
<1>7. ASSUME NEW y \in EveryWorker
      PROVE  PointerOK(wk[y])'
  <2>1. CASE y = x
    BY <1>1, <1>2, <1>4, <1>5, <2>1 DEF PointerOK, Attempt
  <2>2. CASE y # x
    <3>1. wk'[y] = wk[y] /\ PointerOK(wk[y])
      BY <1>2, <1>4, <2>2 DEF Shape, WorkersOK
    <3>2. ASSUME NEW g \in DOMAIN batches, NEW j \in DOMAIN batches[g], batches[g][j].final \in Paths
          PROVE  batches'[g][j].final \in Paths
      BY <1>3, <1>5, <3>2
    <3>3. wk[y].pc \in Attempt => wk[y].pc \notin {"idle", "picked", "exit"}
      BY DEF Attempt
    <3> QED BY <1>5, <3>1, <3>2, <3>3 DEF PointerOK
  <2> QED BY <2>1, <2>2
<1>8. WorkersOK'
  BY <1>2, <1>4, <1>7 DEF WorkersOK
<1>9. ControlOK' /\ RunOK' /\ ReqOK' /\ FilesOK'
  BY <1>1 DEF Shape, ControlOK, RunOK, ReqOK, FilesOK, control, files
<1> QED BY <1>6, <1>8, <1>9 DEF Shape

\* The end of a worker, and an index beyond the end of the slice.
LEMMA ExitFacts ==
  ASSUME Shape, NEW x \in EveryWorker, WorkerExit(x)
  PROVE  /\ wk[x].pc = "idle" /\ UNCHANGED <<batches, control, run, files, reqPc, req, crashed>>
         /\ run[x[1]].chan = <<>> /\ Closed(x[1])
         /\ \E w \in WorkerRec : wk' = [wk EXCEPT ![x] = w] /\ w.gid = NoId /\ w.pc = "exit"
<1>1. wk[x] \in WorkerRec /\ wk[x].pc = "idle" /\ wk[x].gid = NoId
  BY DEF WorkerExit, At, Shape, WorkersOK, PointerOK
<1> DEFINE w == [wk[x] EXCEPT !.pc = "exit"]
<1>2. w \in WorkerRec /\ w.gid = NoId /\ w.pc = "exit"
  BY <1>1 DEF WorkerRec, WorkerPcs
<1>3. wk' = [wk EXCEPT ![x] = w]
  BY DEF WorkerExit, Goto
<1> QED BY <1>1, <1>2, <1>3 DEF WorkerExit

LEMMA WorkerShape ==
  ASSUME Shape, NEW x \in EveryWorker, Worker(x), UNCHANGED resumable
  PROVE  Shape'
<1>1. CASE WorkerExit(x)
  <2>1. PICK w \in WorkerRec : wk' = [wk EXCEPT ![x] = w] /\ w.gid = NoId /\ w.pc = "exit"
    BY <1>1, ExitFacts
  <2>2. UNCHANGED <<batches, control, run, files, reqPc, req, crashed>>
    BY <1>1, ExitFacts
  <2>3. wk \in [EveryWorker -> WorkerRec] /\ \A y \in EveryWorker : PointerOK(wk[y])
    BY DEF Shape, WorkersOK
  <2>4. PointerOK(w)'
    BY <2>1 DEF PointerOK, Attempt
  <2>5. WorkersOK'
    <3>1. \A y \in EveryWorker : y # x => PointerOK(wk[y])'
      BY <2>1, <2>2, <2>3 DEF PointerOK
    <3> QED BY <2>1, <2>3, <2>4, <3>1 DEF WorkersOK
  <2>6. ControlOK' /\ RunOK' /\ TasksOK' /\ ReqOK' /\ FilesOK'
    BY <2>2 DEF Shape, ControlOK, RunOK, TasksOK, ReqOK, FilesOK, control, files
  <2> QED BY <2>5, <2>6 DEF Shape
<1>2. CASE WorkerPanic(x)
  <2>1. UNCHANGED <<batches, control, run, wk, files, reqPc, req>> /\ crashed' = TRUE
    BY <1>2 DEF WorkerPanic
  <2>2. TasksOK' /\ WorkersOK'
    BY <2>1, SameWorkers DEF control
  <2>3. ControlOK' /\ RunOK' /\ ReqOK' /\ FilesOK'
    BY <2>1 DEF Shape, ControlOK, RunOK, ReqOK, FilesOK, control, files
  <2> QED BY <2>2, <2>3 DEF Shape
<1>3. CASE WorkerTake(x)
  BY <1>3, TakeShape
<1>4. CASE WorkerMark(x)
  BY <1>4, MarkShape
<1>5. CASE WorkerSettle(x)
  BY <1>5, SettleShape
<1>6. CASE Middle(x)
  BY <1>6, MiddleShape
<1> QED BY <1>1, <1>2, <1>3, <1>4, <1>5, <1>6 DEF Worker, Middle

LEMMA SpawnShape ==
  ASSUME Shape, NEW force \in BOOLEAN, Spawn(force)
  PROVE  runPc' \in [Runs -> RunPcs] /\ RunOK'
<1>1. PICK r \in Runs : /\ runPc' = [runPc EXCEPT ![r] = "spawned"]
                        /\ run' = [run EXCEPT ![r].force = force]
  BY DEF Spawn
<1>2. [run[r] EXCEPT !.force = force] \in RunRec /\ run \in [Runs -> RunRec]
  BY DEF Shape, RunOK, RunRec
<1>3. run' = [run EXCEPT ![r] = [run[r] EXCEPT !.force = force]]
  BY <1>1
<1> QED BY <1>1, <1>2, <1>3 DEF Shape, ControlOK, RunOK, RunPcs

LEMMA TasksType == Shape => Tasks \in Seq(Task)
BY DEF Shape, TasksOK, Tasks

LEMMA ArtifactsType == Shape => Artifacts(Tasks) \in SUBSET Arts
<1> SUFFICES ASSUME Shape PROVE Artifacts(Tasks) \in SUBSET Arts
  OBVIOUS
<1>1. \A i \in DOMAIN Tasks : Tasks[i] \in Task
  BY TasksType
<1> QED BY <1>1 DEF Artifacts, Arts, Task

\* batch_cancel puts the tasks being downloaded back, and changes nothing else of them.
LEMMA CancelFacts ==
  ASSUME Shape, NEW c \in Clients, CancelLock(c)
  PROVE  /\ batches' \in Seq(Seq(Task)) /\ Len(batches') = Len(batches)
         /\ DOMAIN batches' = DOMAIN batches
         /\ \A g \in DOMAIN batches : DOMAIN batches'[g] = DOMAIN batches[g]
         /\ \A g \in DOMAIN batches : \A i \in DOMAIN batches[g] :
              \/ batches'[g][i] = batches[g][i]
              \/ /\ batches[g][i].status = "downloading"
                 /\ batches'[g][i] = [batches[g][i] EXCEPT !.status = "pending"]
<1> DEFINE hit == Interrupted(running /\ cancelFunc # NoRun)
<1>1. batches \in Seq(Seq(Task)) /\ cur \in 0..Len(batches)
  BY DEF Shape, TasksOK
<1>2. CASE cur = 0
  BY <1>1, <1>2 DEF CancelLock
<1>3. CASE cur # 0
  <2> DEFINE b == batches[cur]
             d == [i \in DOMAIN b |-> IF i \in hit THEN [b[i] EXCEPT !.status = "pending"] ELSE b[i]]
  <2>1. cur \in DOMAIN batches
    BY <1>1, <1>3
  <2>2. b \in Seq(Task) /\ Tasks = b
    BY <1>1, <1>3, <2>1 DEF Tasks
  <2>3. batches' = [batches EXCEPT ![cur] = d]
    BY <1>3 DEF CancelLock
  <2>4. \A i \in hit : i \in DOMAIN b /\ b[i].status = "downloading"
    BY <2>2 DEF Interrupted
  <2>5. d \in Seq(Task) /\ DOMAIN d = DOMAIN b
    <3>1. \A i \in DOMAIN b : b[i] \in Task
      BY <2>2
    <3>2. \A u \in Task : [u EXCEPT !.status = "pending"] \in Task
      BY DEF Task
    <3>3. \A i \in DOMAIN b : d[i] \in Task
      BY <3>1, <3>2
    <3>4. DOMAIN d = DOMAIN b
      OBVIOUS
    <3>5. DOMAIN b = 1..Len(b) /\ Len(b) \in Nat
      BY <2>2
    <3>6. d = [i \in DOMAIN b |-> d[i]]
      OBVIOUS
    <3> HIDE DEF d, b
    <3>7. d = [i \in 1..Len(b) |-> d[i]] /\ \A i \in 1..Len(b) : d[i] \in Task
      BY <3>3, <3>5, <3>6
    <3> QED BY <3>4, <3>5, <3>7
  <2> HIDE DEF d
  <2>6. \A i \in DOMAIN b : \/ d[i] = b[i]
                            \/ b[i].status = "downloading" /\ d[i] = [b[i] EXCEPT !.status = "pending"]
    BY <2>4 DEF d
  <2>7. batches' \in Seq(Seq(Task)) /\ Len(batches') = Len(batches) /\ DOMAIN batches' = DOMAIN batches
    BY <1>1, <2>1, <2>3, <2>5
  <2>8. \A g \in DOMAIN batches : batches'[g] = IF g = cur THEN d ELSE batches[g]
    BY <1>1, <2>1, <2>3
  <2> QED BY <2>5, <2>6, <2>7, <2>8
<1> QED BY <1>2, <1>3

\* Who keeps the arrays but for the status of tasks keeps the workers' pointers.
LEMMA CancelShape ==
  ASSUME Shape, NEW c \in Clients, CancelLock(c), UNCHANGED resumable
  PROVE  Shape'
<1>1. UNCHANGED <<cur, cancelFunc, runPc, ctx, run, wk, files, crashed>>
  BY DEF CancelLock
<1>2. TasksOK'
  BY <1>1, CancelFacts DEF Shape, TasksOK
<1>3. ASSUME NEW g \in DOMAIN batches, NEW i \in DOMAIN batches[g]
      PROVE  batches'[g][i].final = batches[g][i].final
  <2>1. batches[g][i] \in Task
    BY TaskType
  <2>2. \A u \in Task : [u EXCEPT !.status = "pending"].final = u.final
    BY DEF Task
  <2>3. \/ batches'[g][i] = batches[g][i]
        \/ batches'[g][i] = [batches[g][i] EXCEPT !.status = "pending"]
    BY CancelFacts
  <2> QED BY <2>1, <2>2, <2>3
<1>4. WorkersOK'
  <2>1. wk \in [EveryWorker -> WorkerRec]
    BY DEF Shape, WorkersOK
  <2>2. ASSUME NEW x \in EveryWorker
        PROVE  PointerOK(wk[x])'
    <3>1. PointerOK(wk[x]) /\ wk' = wk
      BY <1>1 DEF Shape, WorkersOK
    <3>2. wk[x].pc \in Attempt => wk[x].pc \notin {"idle", "picked", "exit"}
      BY DEF Attempt
    <3> QED BY <1>3, <3>1, <3>2, CancelFacts DEF PointerOK
  <2> QED BY <1>1, <2>1, <2>2 DEF WorkersOK
<1>5. ReqOK'
  <2>1. /\ reqPc' = [reqPc EXCEPT ![c] = "cancel"]
        /\ req' = [req EXCEPT ![c] = [NewReq EXCEPT !.stop = cancelFunc,
                   !.left = {a \in Artifacts(Tasks) : /\ resumable /\ a.gid # NoId
                             /\ \E i \in Interrupted(running /\ cancelFunc # NoRun) :
                                  Tasks[i].gid = a.gid}]]
    BY DEF CancelLock
  <2>2. \A left \in SUBSET Arts : [NewReq EXCEPT !.stop = cancelFunc, !.left = left] \in ReqRec
    BY DEF NewReq, ReqRec, Shape, ControlOK
  <2> QED BY <2>1, <2>2, ArtifactsType DEF Shape, ReqOK, ReqPcs
<1>6. ControlOK' /\ RunOK' /\ FilesOK'
  <2>1. running' \in BOOLEAN
    BY DEF CancelLock, Shape, ControlOK
  <2> QED BY <1>1, <2>1 DEF Shape, ControlOK, RunOK, FilesOK, files
<1> QED BY <1>2, <1>4, <1>5, <1>6 DEF Shape

\* The new tasks of a batch_start go behind the old arrays, which stay as long
\* as a worker points into them.
LEMMA InstallFacts ==
  ASSUME Shape, NEW c \in Clients, StartInstall(c)
  PROVE  /\ batches' \in Seq(Seq(Task)) /\ Len(batches') = Len(batches) + 1
         /\ \A g \in DOMAIN batches : batches'[g] \in {batches[g], <<>>}
         /\ \A x \in EveryWorker : Holding(x) => batches'[wk[x].gen] = batches[wk[x].gen]
         /\ cur' = Len(batches) + 1 /\ DOMAIN batches'[cur'] = DOMAIN req[c].list
         /\ \A i \in DOMAIN req[c].list : batches'[cur'][i] = NewTask(req[c].list[i])
         /\ req[c].list \in Lists /\ req[c].list \in Seq(Videos)
<1> DEFINE list == req[c].list
           new == [i \in DOMAIN list |-> NewTask(list[i])]
           old == [g \in DOMAIN batches |-> Collect(g)]
<1>1. batches \in Seq(Seq(Task)) /\ cur' = Len(batches) + 1 /\ batches' = Append(old, new)
  BY DEF Shape, TasksOK, StartInstall
<1>2. list \in Lists /\ list \in Seq(Videos)
  BY ListsAssumption DEF StartInstall, Shape, ReqOK
<1>3. \A v \in Videos : NewTask(v) \in Task
  BY DEF NewTask, Task
<1>4. new \in Seq(Task)
  BY <1>2, <1>3
<1>5. \A g \in DOMAIN batches : Collect(g) \in {batches[g], <<>>} /\ Collect(g) \in Seq(Task)
  <2>1. ASSUME NEW g \in DOMAIN batches
        PROVE  Collect(g) \in {batches[g], <<>>} /\ Collect(g) \in Seq(Task)
    <3>1. batches[g] \in Seq(Task) /\ <<>> \in Seq(Task)
      BY <1>1
    <3> QED BY <3>1 DEF Collect
  <2> QED BY <2>1
<1>6. old \in Seq(Seq(Task)) /\ Len(old) = Len(batches)
  <2> HIDE DEF old
  <2>1. old = [g \in 1..Len(batches) |-> old[g]] /\ \A g \in 1..Len(batches) : old[g] \in Seq(Task)
    BY <1>1, <1>5 DEF old
  <2> QED BY <1>1, <2>1
<1>7. \A x \in EveryWorker : Holding(x) => /\ wk[x].gen \in DOMAIN batches
                                           /\ Collect(wk[x].gen) = batches[wk[x].gen]
  BY TaskOfType DEF Collect, EveryWorker
<1>8. \A g \in DOMAIN batches : old[g] = Collect(g)
  OBVIOUS
<1> HIDE DEF old, new
<1>9. /\ batches' \in Seq(Seq(Task)) /\ Len(batches') = Len(batches) + 1
      /\ \A g \in DOMAIN batches : batches'[g] = old[g]
      /\ batches'[Len(batches) + 1] = new
  BY <1>1, <1>4, <1>6
<1>10. DOMAIN new = DOMAIN list /\ \A i \in DOMAIN list : new[i] = NewTask(list[i])
  BY DEF new
<1> QED BY <1>1, <1>2, <1>5, <1>7, <1>8, <1>9, <1>10

LEMMA InstallShape ==
  ASSUME Shape, NEW c \in Clients, StartInstall(c), UNCHANGED resumable
  PROVE  Shape'
<1>1. UNCHANGED <<cancelFunc, ctx, wk, files, crashed>> /\ running' = TRUE
  BY DEF StartInstall
<1>2. TasksOK'
  <2>1. Len(batches) \in Nat
    BY DEF Shape, TasksOK
  <2> QED BY <2>1, InstallFacts DEF TasksOK
<1>3. WorkersOK'
  <2>1. wk \in [EveryWorker -> WorkerRec] /\ batches \in Seq(Seq(Task))
    BY DEF Shape, WorkersOK, TasksOK
  <2>2. ASSUME NEW x \in EveryWorker
        PROVE  PointerOK(wk[x])'
    <3>1. PointerOK(wk[x]) /\ wk' = wk
      BY <1>1 DEF Shape, WorkersOK
    <3>2. wk[x].pc \in Attempt => wk[x].pc \notin {"idle", "picked", "exit"}
      BY DEF Attempt
    <3>3. Holding(x) => wk[x].gen \in DOMAIN batches' /\ batches'[wk[x].gen] = batches[wk[x].gen]
      BY <2>1, InstallFacts, TaskOfType
    <3> QED BY <3>1, <3>2, <3>3 DEF PointerOK, Holding
  <2> QED BY <1>1, <2>1, <2>2 DEF WorkersOK
<1>4. ReqOK'
  <2>1. reqPc' = [reqPc EXCEPT ![c] = "idle"] /\ req' = [req EXCEPT ![c] = NewReq]
    BY DEF StartInstall, Answer
  <2>2. NewReq \in ReqRec
    BY DEF NewReq, ReqRec
  <2> QED BY <2>1, <2>2 DEF Shape, ReqOK, ReqPcs
<1>5. ControlOK' /\ RunOK'
  <2>1. req[c].force \in BOOLEAN /\ Spawn(req[c].force)
    BY DEF StartInstall, Shape, ReqOK, ReqRec
  <2> QED BY <1>1, <2>1, SpawnShape DEF Shape, ControlOK
<1>6. FilesOK'
  BY <1>1 DEF Shape, FilesOK, files
<1> QED BY <1>2, <1>3, <1>4, <1>5, <1>6 DEF Shape

LEMMA AnswerShape ==
  ASSUME Shape, NEW c \in Clients, Answer(c)
  PROVE  ReqOK'
<1>1. NewReq \in ReqRec
  BY DEF NewReq, ReqRec
<1> QED BY <1>1 DEF Answer, Shape, ReqOK, ReqPcs

\* A request that neither starts a run nor touches a task.
LEMMA RequestShape ==
  ASSUME Shape, NEW c \in Clients, Request(c), UNCHANGED resumable
  PROVE  Shape'
<1>1. CASE StartCheck(c)
  <2>1. PICK list \in Lists, force \in Forces :
          req' = [req EXCEPT ![c] = [list |-> list, force |-> force,
                                     stop |-> NoRun, left |-> Artifacts(Tasks)]]
    BY <1>1 DEF StartCheck
  <2>2. reqPc' = [reqPc EXCEPT ![c] = "startClean"]
        /\ UNCHANGED <<batches, control, run, wk, files, crashed>>
    BY <1>1 DEF StartCheck
  <2>3. [list |-> list, force |-> force, stop |-> NoRun, left |-> Artifacts(Tasks)] \in ReqRec
    BY ArtifactsType, FlagsAssumption DEF ReqRec
  <2>4. ReqOK'
    BY <2>1, <2>2, <2>3 DEF Shape, ReqOK, ReqPcs
  <2>5. ControlOK' /\ RunOK' /\ FilesOK'
    BY <2>2 DEF Shape, ControlOK, RunOK, FilesOK, control, files
  <2> QED BY <2>2, <2>4, <2>5, SameWorkers DEF Shape, control
<1>2. CASE StartClean(c) \/ ClearClean(c)
  <2>1. /\ UNCHANGED <<batches, control, run, wk, disk, records, crashed>> /\ Clean(req[c].left)
    BY <1>2 DEF StartClean, ClearClean
  <2>2. req[c].left \in SUBSET Arts
    BY DEF Shape, ReqOK, ReqRec
  <2>3. FilesOK'
    BY <2>1, <2>2, CleanTypes DEF Shape, FilesOK
  <2>4. ReqOK'
    <3>1. CASE StartClean(c)
      <4>1. /\ reqPc[c] = "startClean" /\ reqPc' = [reqPc EXCEPT ![c] = "startInstall"]
            /\ req' = [req EXCEPT ![c].left = {}]
        BY <3>1 DEF StartClean
      <4> QED BY <4>1 DEF Shape, ReqOK, ReqRec, ReqPcs
    <3>2. CASE ClearClean(c)
      BY <3>2, AnswerShape DEF ClearClean
    <3> QED BY <1>2, <3>1, <3>2
  <2>5. ControlOK' /\ RunOK'
    BY <2>1 DEF Shape, ControlOK, RunOK, control
  <2> QED BY <2>1, <2>3, <2>4, <2>5, SameWorkers DEF Shape, control
<1>3. CASE CancelPause(c)
  <2>1. PICK a \in req[c].left :
          /\ engine' = [engine EXCEPT ![a.gid].st = IF @ = "running" THEN "pause" ELSE @]
          /\ req' = [req EXCEPT ![c].left = @ \ {a}]
    BY <1>3 DEF CancelPause
  <2>2. UNCHANGED <<batches, control, run, wk, tmpFiles, disk, records, reqPc, crashed>>
    BY <1>3 DEF CancelPause
  <2>3. engine' \in [Transfers -> EngineRec]
    BY <2>1, ZenonT(60) DEF Shape, FilesOK, EngineRec
  <2>4. ReqOK'
    BY <2>1, <2>2 DEF Shape, ReqOK, ReqRec
  <2>5. ControlOK' /\ RunOK' /\ FilesOK'
    BY <2>2, <2>3 DEF Shape, ControlOK, RunOK, FilesOK, control
  <2> QED BY <2>2, <2>4, <2>5, SameWorkers DEF Shape, control
<1>4. CASE CancelCtx(c)
  <2>1. /\ UNCHANGED <<batches, cur, running, cancelFunc, runPc, run, wk, files, crashed>>
        /\ Answer(c) /\ ctx' = [r \in Runs |-> IF r = req[c].stop THEN "cancelled" ELSE ctx[r]]
    BY <1>4 DEF CancelCtx
  <2>2. ControlOK' /\ RunOK' /\ FilesOK'
    BY <2>1 DEF Shape, ControlOK, RunOK, FilesOK, files
  <2> QED BY <2>1, <2>2, AnswerShape, SameWorkers DEF Shape
<1>5. CASE Resume(c)
  <2>1. UNCHANGED <<batches, cur, cancelFunc, ctx, wk, files, reqPc, req, crashed>> /\ running' = TRUE
    BY <1>5 DEF Resume
  <2>2. PICK force \in BOOLEAN : Spawn(force)
    BY <1>5, FlagsAssumption DEF Resume
  <2>3. ControlOK' /\ RunOK' /\ FilesOK' /\ ReqOK'
    BY <2>1, <2>2, SpawnShape DEF Shape, ControlOK, FilesOK, ReqOK, files
  <2> QED BY <2>1, <2>3, SameWorkers DEF Shape
<1>6. CASE ClearLock(c) \/ ClearCancel(c) \/ ClearWait(c) \/ ClearDrop(c)
  <2>1. /\ UNCHANGED <<batches, cancelFunc, runPc, run, wk, files, crashed>> /\ cur' \in {cur, 0}
        /\ running' \in BOOLEAN
        /\ ctx' = ctx \/ ctx' = [ctx EXCEPT ![req[c].stop] = "cancelled"]
    BY <1>6 DEF ClearLock, ClearCancel, ClearWait, ClearDrop, control, Shape, ControlOK
  <2>2. ControlOK' /\ RunOK' /\ FilesOK'
    BY <2>1 DEF Shape, ControlOK, RunOK, FilesOK, files
  <2>3. \E pc \in {"clearCancel", "clearWait", "clearDrop", "clearClean"} :
          reqPc' = [reqPc EXCEPT ![c] = pc]
    BY <1>6 DEF ClearLock, ClearCancel, ClearWait, ClearDrop
  <2>4. req' \in [Clients -> ReqRec] /\ \A d \in Clients : d # c => req'[d] = req[d]
    <3>1. [NewReq EXCEPT !.stop = cancelFunc] \in ReqRec
      BY DEF NewReq, ReqRec, Shape, ControlOK
    <3>2. [req[c] EXCEPT !.left = Artifacts(Tasks)] \in ReqRec
      BY ArtifactsType DEF Shape, ReqOK, ReqRec
    <3>3. \/ req' = req \/ req' = [req EXCEPT ![c] = [NewReq EXCEPT !.stop = cancelFunc]]
          \/ req' = [req EXCEPT ![c] = [req[c] EXCEPT !.left = Artifacts(Tasks)]]
      BY <1>6 DEF ClearLock, ClearCancel, ClearWait, ClearDrop
    <3> QED BY <3>1, <3>2, <3>3 DEF Shape, ReqOK
  <2>5. ReqOK'
    BY <2>3, <2>4 DEF Shape, ReqOK, ReqPcs
  <2> QED BY <2>1, <2>2, <2>5, SameWorkers DEF Shape
<1> QED BY <1>1, <1>2, <1>3, <1>4, <1>5, <1>6, CancelShape, InstallShape DEF Request

LEMMA RunnerShape ==
  ASSUME Shape, NEW r \in Runs, Runner(r), UNCHANGED resumable
  PROVE  Shape'
<1>1. /\ UNCHANGED <<batches, cur, wk, files, reqPc, req>>
      /\ cancelFunc' \in {cancelFunc, r, NoRun} /\ running' \in {running, FALSE}
      /\ crashed' \in {crashed, TRUE}
      /\ ctx' = ctx \/ ctx' = [ctx EXCEPT ![r] = "cancelled"]
      /\ runPc' = runPc \/ \E pc \in RunPcs : runPc' = [runPc EXCEPT ![r] = pc]
  BY DEF Runner, RunnerBegin, RunnerSetup, DispatchPanic, DispatchSkip, DispatchSend, DispatchStop,
         DispatchEnd, RunnerWait, RunnerFinish, control, RunPcs
<1>2. ControlOK'
  BY <1>1 DEF Shape, ControlOK
<1>3. FilesOK' /\ ReqOK'
  BY <1>1 DEF Shape, FilesOK, ReqOK, files
<1>4. RunOK'
  <2>1. run[r] \in RunRec /\ run \in [Runs -> RunRec]
    BY DEF Shape, RunOK
  <2>2. \/ run' = run \/ run' = [run EXCEPT ![r] = NewRun]
        \/ run' = [run EXCEPT ![r].len = Len(Tasks)]
        \/ run' = [run EXCEPT ![r].next = @ + 1]
        \/ run' = [run EXCEPT ![r].next = @ + 1, ![r].sent = @ + 1,
                              ![r].chan = Append(@, run[r].next)]
    BY DEF Runner, RunnerBegin, RunnerSetup, DispatchPanic, DispatchSkip, DispatchSend, DispatchStop,
           DispatchEnd, RunnerWait, RunnerFinish
  <2>3. NewRun \in RunRec
    BY DEF NewRun, RunRec
  <2>4. [run[r] EXCEPT !.len = Len(Tasks)] \in RunRec
    <3>1. Len(Tasks) \in Nat
      BY TasksType
    <3> QED BY <2>1, <3>1 DEF RunRec
  <2>5. [run[r] EXCEPT !.next = @ + 1] \in RunRec
    BY <2>1 DEF RunRec
  <2>6. [run[r] EXCEPT !.next = @ + 1, !.sent = @ + 1, !.chan = Append(@, run[r].next)] \in RunRec
    <3>1. run[r].chan \in Seq(Nat \ {0}) /\ run[r].next \in Nat \ {0} /\ run[r].sent \in Nat
      BY <2>1 DEF RunRec
    <3>2. /\ Append(run[r].chan, run[r].next) \in Seq(Nat \ {0})
          /\ run[r].next + 1 \in Nat \ {0} /\ run[r].sent + 1 \in Nat
      BY <3>1
    <3> QED BY <2>1, <3>2 DEF RunRec
  <2> QED BY <2>1, <2>2, <2>3, <2>4, <2>5, <2>6 DEF RunOK
<1> QED BY <1>1, <1>2, <1>3, <1>4, SameWorkers DEF Shape

LEMMA EngineShape ==
  ASSUME Shape, NEW e \in Transfers, EngineEnds(e), UNCHANGED resumable
  PROVE  Shape'
<1>1. UNCHANGED <<batches, control, run, wk, tmpFiles, disk, records, reqPc, req, crashed>>
  BY DEF EngineEnds
<1>2. engine' \in [Transfers -> EngineRec]
  BY DEF EngineEnds, Shape, FilesOK, EngineRec
<1>3. ControlOK' /\ RunOK' /\ FilesOK' /\ ReqOK'
  BY <1>1, <1>2 DEF Shape, ControlOK, RunOK, FilesOK, ReqOK, control
<1> QED BY <1>1, <1>3, SameWorkers DEF Shape, control

LEMMA StepShape == Shape /\ [Next]_vars => Shape'
<1> SUFFICES ASSUME Shape, [Next]_vars PROVE Shape'
  OBVIOUS
<1>1. CASE UNCHANGED vars
  <2>1. ControlOK' /\ RunOK' /\ FilesOK' /\ ReqOK'
    BY <1>1 DEF Shape, ControlOK, RunOK, FilesOK, ReqOK, vars, control, files
  <2> QED BY <1>1, <2>1, SameWorkers DEF Shape, vars, control
<1>2. CASE Next
  BY <1>2, RequestShape, RunnerShape, WorkerShape, EngineShape DEF Next, Alive, EveryWorker
<1> QED BY <1>1, <1>2

-----------------------------------------------------------------------------
(* A task that is done has its video on disk.                              *)

Loose(w) == w.pc \in {"idle", "picked", "exit"}

\* A worker's step at the task i of array g, in itself and in the task.
PointStep(x, g, i, t, w) ==
  /\ g \in DOMAIN batches /\ i \in DOMAIN batches[g] /\ t \in Task /\ w \in WorkerRec
  /\ batches' = [batches EXCEPT ![g][i] = t] /\ wk' = [wk EXCEPT ![x] = w]
  /\ t.video = batches[g][i].video
  /\ ~Loose(w) => w.gen = g /\ w.idx = i

LEMMA PointFacts ==
  ASSUME Shape, NEW x \in EveryWorker, NEW g, NEW i, NEW t, NEW w, PointStep(x, g, i, t, w)
  PROVE  /\ Len(batches') = Len(batches) /\ DOMAIN batches' = DOMAIN batches
         /\ \A h \in DOMAIN batches : DOMAIN batches'[h] = DOMAIN batches[h]
         /\ \A h \in DOMAIN batches : \A j \in DOMAIN batches[h] :
              batches'[h][j] = IF h = g /\ j = i THEN t ELSE batches[h][j]
         /\ wk'[x] = w /\ \A y \in EveryWorker : y # x => wk'[y] = wk[y]
<1>1. batches \in Seq(Seq(Task)) /\ wk \in [EveryWorker -> WorkerRec]
  BY DEF Shape, TasksOK, WorkersOK
<1>2. /\ g \in DOMAIN batches /\ i \in DOMAIN batches[g] /\ t \in Task /\ w \in WorkerRec
      /\ batches' = [batches EXCEPT ![g][i] = t] /\ wk' = [wk EXCEPT ![x] = w]
  BY DEF PointStep
<1>3. /\ Len(batches') = Len(batches) /\ DOMAIN batches' = DOMAIN batches
      /\ \A h \in DOMAIN batches : DOMAIN batches'[h] = DOMAIN batches[h]
      /\ \A h \in DOMAIN batches : \A j \in DOMAIN batches[h] :
              batches'[h][j] = IF h = g /\ j = i THEN t ELSE batches[h][j]
  BY <1>1, <1>2, Update
<1> QED BY <1>1, <1>2, <1>3

LEMMA MovedPoint ==
  ASSUME Shape, NEW x \in EveryWorker, Holding(x), NEW t, NEW w, Moved(x, t, w)
  PROVE  PointStep(x, wk[x].gen, wk[x].idx, t, w)
BY TaskOfType DEF Moved, PointStep, TaskOf

OnDisk(v) == \E f \in disk : f[2] = v
TaskNamed(t) == /\ t.final # NoPath => t.final.name = Name[t.video]
                /\ t.status = "done" => OnDisk(t.video)
\* The worker with the locals w is about to store its task, or has.
Storing(w, t) == /\ w.pc = "move" => w.dest.name = Name[t.video]
                 /\ w.pc = "settle" /\ w.result = "ok" => OnDisk(t.video)
PathsNamed == /\ \A f \in disk : f[1].name = Name[f[2]]
              /\ \A v \in Videos : records[v] # NoPath => records[v].name = Name[v]

DiskInv ==
  /\ PathsNamed
  /\ \A g \in DOMAIN batches : \A i \in DOMAIN batches[g] : TaskNamed(batches[g][i])
  /\ \A x \in EveryWorker : ~Loose(wk[x]) => Storing(wk[x], TaskOf(x))

DistinctNames == \A u, v \in Videos : Name[u] = Name[v] => u = v

\* A step at one task keeps the invariant if that task and that worker do.
LEMMA PointDisk ==
  ASSUME Shape, DiskInv, NEW x \in EveryWorker, NEW g, NEW i, NEW t, NEW w,
         PointStep(x, g, i, t, w), PathsNamed', TaskNamed(t)', ~Loose(w) => Storing(w, t)',
         \A v \in Videos : OnDisk(v) => OnDisk(v)'
  PROVE  DiskInv'
<1>0. /\ Len(batches') = Len(batches) /\ DOMAIN batches' = DOMAIN batches
      /\ \A h \in DOMAIN batches : DOMAIN batches'[h] = DOMAIN batches[h]
      /\ \A h \in DOMAIN batches : \A j \in DOMAIN batches[h] :
           batches'[h][j] = IF h = g /\ j = i THEN t ELSE batches[h][j]
      /\ wk'[x] = w /\ \A y \in EveryWorker : y # x => wk'[y] = wk[y]
  BY PointFacts
<1>1. ASSUME NEW h \in DOMAIN batches, NEW j \in DOMAIN batches[h]
      PROVE  /\ TaskNamed(batches[h][j])' /\ batches'[h][j].video = batches[h][j].video
             /\ batches[h][j].video \in Videos
  <2>1. batches[h][j] \in Task
    BY TaskType
  <2>2. batches[h][j].video \in Videos /\ TaskNamed(batches[h][j])
    BY <2>1 DEF Task, DiskInv
  <2>3. CASE h = g /\ j = i
    BY <2>2, <2>3, <1>0 DEF PointStep
  <2>4. CASE ~(h = g /\ j = i)
    <3>1. batches'[h][j] = batches[h][j]
      BY <2>4, <1>0
    <3> QED BY <2>2, <3>1 DEF TaskNamed
  <2> QED BY <2>3, <2>4
<1>2. (\A h \in DOMAIN batches : \A j \in DOMAIN batches[h] : TaskNamed(batches[h][j]))'
  BY <1>1, <1>0
<1>3. ASSUME NEW y \in EveryWorker, ~Loose(wk'[y])
      PROVE  Storing(wk[y], TaskOf(y))'
  <2>1. CASE y = x
    <3>0. wk'[y] = w
      BY <1>0, <2>1
    <3>1. wk'[y] = w /\ w.gen = g /\ w.idx = i
      BY <1>3, <3>0 DEF PointStep
    <3>2. batches'[g][i] = t
      BY <1>0 DEF PointStep
    <3> QED BY <1>3, <3>1, <3>2 DEF TaskOf
  <2>2. CASE y # x
    <3>1. wk'[y] = wk[y] /\ ~Loose(wk[y])
      BY <1>3, <2>2, <1>0
    <3>2. wk[y].gen \in DOMAIN batches /\ wk[y].idx \in DOMAIN batches[wk[y].gen]
      BY <3>1 DEF Shape, WorkersOK, PointerOK, Loose
    <3>3. TaskOf(y)'.video = TaskOf(y).video /\ TaskOf(y).video \in Videos
      BY <1>1, <3>1, <3>2 DEF TaskOf
    <3>4. Storing(wk[y], TaskOf(y))
      BY <3>1 DEF DiskInv
    <3> QED BY <3>1, <3>3, <3>4 DEF Storing
  <2> QED BY <2>1, <2>2
<1> QED BY <1>2, <1>3 DEF DiskInv

\* A video that a record says is stored is: what a path holds is by its name.
LEMMA RecordedOnDisk ==
  ASSUME Shape, DistinctNames, PathsNamed, NEW v \in Videos, Stored(records[v])
  PROVE  OnDisk(v)
<1>1. PICK f \in disk : f[1] = records[v]
  BY DEF Stored
<1>2. f[1] \in Paths /\ f[2] \in Videos
  BY DEF Shape, FilesOK
<1>3. records[v] # NoPath
  BY <1>1, <1>2, NoPathAssumption
<1>4. Name[f[2]] = Name[v]
  BY <1>1, <1>3 DEF PathsNamed
<1> QED BY <1>2, <1>4 DEF DistinctNames, OnDisk

LEMMA SameDisk ==
  ASSUME UNCHANGED <<disk, records>>
  PROVE  /\ PathsNamed => PathsNamed'
         /\ \A v \in Videos : OnDisk(v) => OnDisk(v)'
         /\ \A t : TaskNamed(t) => TaskNamed(t)'
         /\ \A t, w : Storing(w, t) => Storing(w, t)'
BY DEF PathsNamed, OnDisk, TaskNamed, Storing

LEMMA MoveDisk ==
  ASSUME Shape, DiskInv, DistinctNames, NEW x \in EveryWorker, WorkerMove(x)
  PROVE  DiskInv'
<1>1. PICK t, w :
        /\ Moved(x, t, w)
        /\ \/ /\ t.final = wk[x].dest /\ w.pc = "settle" /\ w.result = "ok"
              /\ disk' = {f \in disk : f[1] # wk[x].dest} \cup {<<wk[x].dest, TaskOf(x).video>>}
              /\ records' = IF records[TaskOf(x).video] # NoPath THEN records
                            ELSE [records EXCEPT ![TaskOf(x).video] = wk[x].dest]
           \/ /\ t.final = TaskOf(x).final /\ UNCHANGED <<disk, records>>
              /\ w.pc = "try" \/ (w.pc = "settle" /\ w.result = "failed")
  BY MoveMoves, ZenonT(60)
<1>2. Holding(x) /\ wk[x].pc = "move"
  BY MoveMoves
<1>3. PointStep(x, wk[x].gen, wk[x].idx, t, w)
  BY <1>1, <1>2, MovedPoint
<1>4. PICK u \in Task : u = TaskOf(x)
  BY <1>2, TaskOfType
<1>5. PICK p : p = wk[x].dest
  OBVIOUS
<1>6. /\ u.video \in Videos /\ t.video = u.video /\ t.status = u.status
      /\ TaskNamed(u) /\ Storing(wk[x], u) /\ p \in Paths
  <2>1. u.video \in Videos /\ t.video = u.video /\ t.status = u.status
    BY <1>1, <1>4 DEF Moved, Task
  <2>2. TaskNamed(u)
    BY <1>2, <1>4, TaskOfType DEF DiskInv, TaskOf
  <2>3. ~Loose(wk[x]) /\ PointerOK(wk[x])
    BY <1>2 DEF Loose, Shape, WorkersOK
  <2> QED BY <1>2, <1>4, <1>5, <2>1, <2>2, <2>3 DEF DiskInv, PointerOK
<1>7. p.name = Name[u.video]
  BY <1>2, <1>5, <1>6 DEF Storing
<1>8. CASE /\ t.final = p /\ w.pc = "settle" /\ w.result = "ok"
           /\ disk' = {f \in disk : f[1] # p} \cup {<<p, u.video>>}
           /\ records' = IF records[u.video] # NoPath THEN records
                         ELSE [records EXCEPT ![u.video] = p]
  <2>1. OnDisk(u.video)'
    <3>1. <<p, u.video>> \in disk' /\ <<p, u.video>>[2] = u.video
      BY <1>8
    <3> QED BY <3>1 DEF OnDisk
  <2>2. ASSUME NEW v \in Videos, OnDisk(v)
        PROVE  OnDisk(v)'
    <3>1. PICK f \in disk : f[2] = v
      BY <2>2 DEF OnDisk
    <3>2. CASE f[1] # p
      BY <1>8, <3>1, <3>2 DEF OnDisk
    <3>3. CASE f[1] = p
      <4>1. Name[v] = Name[u.video]
        BY <1>7, <3>1, <3>3 DEF DiskInv, PathsNamed
      <4>2. v = u.video
        BY <1>6, <4>1 DEF DistinctNames
      <4> QED BY <2>1, <4>2
    <3> QED BY <3>2, <3>3
  <2>3. PathsNamed'
    <3>1. \A f \in disk' : f[1].name = Name[f[2]]
      BY <1>7, <1>8 DEF DiskInv, PathsNamed
    <3>2. \A v \in Videos : records'[v] # NoPath => records'[v].name = Name[v]
      BY <1>7, <1>8 DEF DiskInv, PathsNamed, Shape, FilesOK
    <3> QED BY <3>1, <3>2 DEF PathsNamed
  <2>4. TaskNamed(t)'
    BY <1>6, <1>7, <1>8, <2>1 DEF TaskNamed
  <2>5. Storing(w, t)'
    BY <1>6, <1>8, <2>1 DEF Storing
  <2> QED BY <1>3, <2>2, <2>3, <2>4, <2>5, PointDisk
<1>9. CASE /\ t.final = u.final /\ UNCHANGED <<disk, records>>
           /\ w.pc = "try" \/ (w.pc = "settle" /\ w.result = "failed")
  <2>1. TaskNamed(t) /\ Storing(w, t)
    BY <1>6, <1>9 DEF TaskNamed, Storing
  <2> QED BY <1>3, <1>9, <2>1, SameDisk, PointDisk DEF DiskInv
<1> QED BY <1>1, <1>4, <1>5, <1>8, <1>9

LEMMA MiddleDisk ==
  ASSUME Shape, DiskInv, DistinctNames, NEW x \in EveryWorker, Middle(x)
  PROVE  DiskInv'
<1> DEFINE u == TaskOf(x)
<1>1. Holding(x) /\ u \in Task /\ u.video \in Videos /\ TaskNamed(u)
  <2>1. Holding(x) /\ u \in Task
    BY MiddleMoves, TaskOfType
  <2>2. TaskNamed(u)
    BY <2>1, TaskOfType DEF DiskInv, TaskOf
  <2> QED BY <2>1, <2>2 DEF Task
<1>2. ASSUME NEW t, NEW w, Moved(x, t, w), UNCHANGED <<disk, records>>,
             t.final = u.final \/ t.final.name = Name[u.video],
             w.pc = "move" => w.dest.name = t.final.name /\ t.final = u.final /\ u.final \in Paths,
             w.pc = "settle" /\ w.result = "ok" => OnDisk(u.video)
      PROVE  DiskInv'
  <2>1. t.video = u.video /\ t.status = u.status /\ PointStep(x, wk[x].gen, wk[x].idx, t, w)
    BY <1>1, <1>2, MovedPoint DEF Moved
  <2>2. TaskNamed(t)
    BY <1>1, <1>2, <2>1 DEF TaskNamed
  <2>3. Storing(w, t)
    BY <1>1, <1>2, <2>1, NoPathAssumption DEF Storing, TaskNamed
  <2> QED BY <1>2, <2>1, <2>2, <2>3, SameDisk, PointDisk DEF DiskInv
<1>3. CASE WorkerBegin(x)
  <2>1. AlreadyStored(x) => OnDisk(u.video)
    BY <1>1, RecordedOnDisk DEF AlreadyStored, DiskInv
  <2>2. UNCHANGED <<disk, records>>
    BY <1>3, BeginMoves DEF files
  <2>3. PICK t, w : /\ Moved(x, t, w)
                    /\ \/ /\ t = u /\ w.pc = "settle"
                          /\ w.result = "failed" \/ (AlreadyStored(x) /\ w.result = "ok")
                       \/ w.pc = "try" /\ (t.final = u.final \/ t.final.name = Name[u.video])
    BY <1>3, BeginMoves
  <2> QED BY <1>2, <2>1, <2>2, <2>3
<1>4. CASE WorkerTry(x)
  <2>1. UNCHANGED <<disk, records>>
    BY <1>4, TryMoves DEF files
  <2>2. PICK t, w : /\ Moved(x, t, w) /\ t.final = u.final
                    /\ w.pc = "prepare" \/ (w.pc = "settle" /\ w.result = "paused")
    BY <1>4, TryMoves
  <2> QED BY <1>2, <2>1, <2>2
<1>5. CASE WorkerCreated(x)
  <2>1. UNCHANGED <<disk, records>>
    BY <1>5, CreatedMoves DEF files
  <2>2. PICK t, w : Moved(x, t, w) /\ t.final = u.final /\ w.pc = "wait"
    BY <1>5, CreatedMoves
  <2> QED BY <1>2, <2>1, <2>2
<1>6. CASE WorkerPrepare(x)
  <2>1. UNCHANGED <<disk, records>>
    BY <1>6, PrepareMoves
  <2>2. PICK t, w : /\ Moved(x, t, w) /\ t.final = u.final
                    /\ w.pc \in {"create", "wait", "try"} \/ (w.pc = "settle" /\ w.result = "failed")
    BY <1>6, PrepareMoves, ZenonT(60)
  <2> QED BY <1>2, <2>1, <2>2
<1>7. CASE WorkerCreate(x)
  <2>1. UNCHANGED <<disk, records>>
    BY <1>7, CreateMoves
  <2>2. PICK w : /\ Moved(x, u, w)
                 /\ w.pc \in {"created", "try"} \/ (w.pc = "settle" /\ w.result = "failed")
    BY <1>7, CreateMoves
  <2> QED BY <1>2, <2>1, <2>2
<1>8. CASE WorkerWait(x)
  <2>1. UNCHANGED <<disk, records>>
    BY <1>8, WaitMoves
  <2>2. PICK t, w : /\ Moved(x, t, w) /\ t.final = u.final
                    /\ w.pc \in {"check", "try"} \/ (w.pc = "settle" /\ w.result # "ok")
    BY <1>8, WaitMoves
  <2> QED BY <1>2, <2>1, <2>2
<1>9. CASE WorkerCheck(x)
  <2>1. UNCHANGED <<disk, records>>
    BY <1>9, CheckMoves
  <2>2. PICK t, w : /\ Moved(x, t, w) /\ t.final = u.final
                    /\ \/ w.pc = "move" /\ w.dest.name = t.final.name
                       \/ w.pc = "try" \/ (w.pc = "settle" /\ w.result = "failed")
    BY <1>9, CheckMoves
  <2>3. u.final \in Paths
    <3>1. wk[x].pc = "check" /\ PointerOK(wk[x])
      BY <1>9, CheckMoves DEF Shape, WorkersOK
    <3> QED BY <3>1 DEF PointerOK, Attempt, TaskOf
  <2> QED BY <1>2, <2>1, <2>2, <2>3
<1> QED BY <1>3, <1>4, <1>5, <1>6, <1>7, <1>8, <1>9, MoveDisk DEF Middle

\* A step that stores nothing and lets no worker begin.
LEMMA KeepDisk ==
  ASSUME Shape, DiskInv, UNCHANGED <<disk, records>>,
         \A h \in DOMAIN batches' : \A j \in DOMAIN batches'[h] : TaskNamed(batches'[h][j]),
         \A y \in EveryWorker : ~Loose(wk'[y]) =>
           wk'[y] = wk[y] /\ batches'[wk[y].gen][wk[y].idx].video = TaskOf(y).video
  PROVE  DiskInv'
<1>1. PathsNamed' /\ \A t : TaskNamed(t) => TaskNamed(t)'
  BY SameDisk DEF DiskInv
<1>2. (\A h \in DOMAIN batches : \A j \in DOMAIN batches[h] : TaskNamed(batches[h][j]))'
  <2>1. ASSUME NEW h \in DOMAIN batches', NEW j \in DOMAIN batches'[h], TaskNamed(batches'[h][j])
        PROVE  TaskNamed(batches[h][j])'
    <3>1. PICK t : t = batches'[h][j]
      OBVIOUS
    <3>2. TaskNamed(t)'
      BY <1>1, <2>1, <3>1
    <3> QED BY <3>1, <3>2 DEF TaskNamed
  <2> QED BY <2>1
<1>3. ASSUME NEW y \in EveryWorker, ~Loose(wk'[y])
      PROVE  Storing(wk[y], TaskOf(y))'
  <2>1. /\ wk'[y] = wk[y] /\ batches'[wk[y].gen][wk[y].idx].video = TaskOf(y).video
        /\ Storing(wk[y], TaskOf(y))
    BY <1>3 DEF DiskInv
  <2>2. TaskOf(y)'.video = TaskOf(y).video
    BY <2>1 DEF TaskOf
  <2> QED BY <2>1, <2>2 DEF Storing, OnDisk
<1> QED BY <1>1, <1>2, <1>3 DEF DiskInv

LEMMA NoPointDisk ==
  ASSUME Shape, DiskInv, UNCHANGED <<disk, records, batches>>,
         \A y \in EveryWorker : wk'[y] = wk[y] \/ Loose(wk'[y])
  PROVE  DiskInv'
<1>1. \A h \in DOMAIN batches' : \A j \in DOMAIN batches'[h] : TaskNamed(batches'[h][j])
  BY DEF DiskInv
<1> QED BY <1>1, KeepDisk DEF TaskOf

LEMMA WorkerDisk ==
  ASSUME Shape, DiskInv, DistinctNames, NEW x \in EveryWorker, Worker(x)
  PROVE  DiskInv'
<1>0. wk \in [EveryWorker -> WorkerRec]
  BY DEF Shape, WorkersOK
<1>1. CASE WorkerTake(x)
  <2>1. PICK w \in WorkerRec : wk' = [wk EXCEPT ![x] = w] /\ Loose(w)
    BY <1>1, TakeFacts DEF Loose
  <2>2. UNCHANGED <<disk, records, batches>>
    BY <1>1, TakeFacts DEF files
  <2> QED BY <1>0, <2>1, <2>2, NoPointDisk
<1>2. CASE WorkerExit(x)
  <2>1. PICK w \in WorkerRec : wk' = [wk EXCEPT ![x] = w] /\ Loose(w)
    BY <1>2, ExitFacts DEF Loose
  <2>2. UNCHANGED <<disk, records, batches>>
    BY <1>2, ExitFacts DEF files
  <2> QED BY <1>0, <2>1, <2>2, NoPointDisk
<1>3. CASE WorkerPanic(x)
  <2>1. UNCHANGED <<disk, records, batches, wk>>
    BY <1>3 DEF WorkerPanic, files
  <2> QED BY <2>1, NoPointDisk
<1>4. CASE WorkerMark(x)
  <2>1. /\ UNCHANGED <<disk, records>>
        /\ cur \in DOMAIN batches /\ wk[x].idx \in DOMAIN batches[cur]
    BY <1>4, MarkFacts DEF files
  <2>2. PICK w \in WorkerRec : /\ wk' = [wk EXCEPT ![x] = w]
                               /\ w.pc = "begin" /\ w.gen = cur /\ w.idx = wk[x].idx
    BY <1>4, MarkFacts
  <2>3. PICK t \in Task : /\ batches' = [batches EXCEPT ![cur][wk[x].idx] = t]
                          /\ t.video = batches[cur][wk[x].idx].video
                          /\ t.final = batches[cur][wk[x].idx].final
                          /\ t.status = "downloading"
    BY <1>4, MarkFacts
  <2>4. PointStep(x, cur, wk[x].idx, t, w)
    BY <2>1, <2>2, <2>3 DEF PointStep
  <2>5. TaskNamed(batches[cur][wk[x].idx])
    BY <2>1 DEF DiskInv
  <2>6. TaskNamed(t) /\ Storing(w, t)
    BY <2>2, <2>3, <2>5 DEF TaskNamed, Storing
  <2> QED BY <2>1, <2>4, <2>6, SameDisk, PointDisk DEF DiskInv
<1>5. CASE WorkerSettle(x)
  <2>1. /\ Holding(x) /\ wk[x].pc = "settle" /\ UNCHANGED <<disk, records>>
        /\ wk' = [wk EXCEPT ![x] = FreeWorker]
    BY <1>5, SettleFacts DEF files
  <2>2. PICK t \in Task : /\ batches' = [batches EXCEPT ![wk[x].gen][wk[x].idx] = t]
                          /\ t.video = TaskOf(x).video /\ t.final = TaskOf(x).final
                          /\ t.status = "done" => wk[x].result = "ok" \/ TaskOf(x).status = "done"
    BY <1>5, SettleFacts
  <2>3. /\ wk[x].gen \in DOMAIN batches /\ wk[x].idx \in DOMAIN batches[wk[x].gen]
        /\ FreeWorker \in WorkerRec /\ Loose(FreeWorker)
    BY <2>1, TaskOfType, FreeWorkerOK DEF FreeWorker, Loose
  <2>4. PointStep(x, wk[x].gen, wk[x].idx, t, FreeWorker)
    BY <2>1, <2>2, <2>3 DEF PointStep, TaskOf
  <2>5. TaskNamed(TaskOf(x)) /\ Storing(wk[x], TaskOf(x))
    <3>1. ~Loose(wk[x])
      BY <2>1 DEF Loose
    <3> QED BY <2>3, <3>1 DEF DiskInv, TaskOf
  <2>6. TaskNamed(t)
    BY <2>1, <2>2, <2>5 DEF TaskNamed, Storing
  <2> QED BY <2>1, <2>3, <2>4, <2>6, SameDisk, PointDisk DEF DiskInv
<1> QED BY <1>1, <1>2, <1>3, <1>4, <1>5, MiddleDisk DEF Worker, Middle

LEMMA RequestDisk ==
  ASSUME Shape, DiskInv, NEW c \in Clients, Request(c)
  PROVE  DiskInv'
<1>1. CASE CancelLock(c)
  <2>1. UNCHANGED <<disk, records, wk>>
    BY <1>1 DEF CancelLock, files
  <2>2. ASSUME NEW h \in DOMAIN batches, NEW j \in DOMAIN batches[h]
        PROVE  TaskNamed(batches'[h][j]) /\ batches'[h][j].video = batches[h][j].video
    <3>1. PICK u \in Task : u = batches[h][j] /\ TaskNamed(u)
      BY TaskType DEF DiskInv
    <3>2. batches'[h][j] \in {u, [u EXCEPT !.status = "pending"]}
      BY <1>1, <3>1, CancelFacts
    <3>3. /\ [u EXCEPT !.status = "pending"].final = u.final
          /\ [u EXCEPT !.status = "pending"].video = u.video
          /\ [u EXCEPT !.status = "pending"].status = "pending"
      BY DEF Task
    <3> QED BY <3>1, <3>2, <3>3 DEF TaskNamed
  <2>3. /\ DOMAIN batches' = DOMAIN batches
        /\ \A h \in DOMAIN batches : DOMAIN batches'[h] = DOMAIN batches[h]
    BY <1>1, CancelFacts
  <2>4. ASSUME NEW y \in EveryWorker, ~Loose(wk[y])
        PROVE  batches'[wk[y].gen][wk[y].idx].video = TaskOf(y).video
    <3>1. wk[y].gen \in DOMAIN batches /\ wk[y].idx \in DOMAIN batches[wk[y].gen]
      BY <2>4, TaskOfType DEF Holding, Loose
    <3> QED BY <2>2, <3>1 DEF TaskOf
  <2> QED BY <2>1, <2>2, <2>3, <2>4, KeepDisk
<1>2. CASE StartInstall(c)
  <2>1. UNCHANGED <<disk, records, wk>>
    BY <1>2 DEF StartInstall, files
  <2>2. ASSUME NEW h \in DOMAIN batches', NEW j \in DOMAIN batches'[h]
        PROVE  TaskNamed(batches'[h][j])
    <3>0. /\ batches \in Seq(Seq(Task)) /\ batches' \in Seq(Seq(Task))
          /\ Len(batches') = Len(batches) + 1 /\ cur' = Len(batches) + 1
      BY <1>2, InstallFacts DEF Shape, TasksOK
    <3>1. CASE h \in DOMAIN batches
      <4>1. batches'[h] \in {batches[h], <<>>}
        BY <1>2, <3>1, InstallFacts
      <4>2. batches'[h] = batches[h]
        BY <4>1
      <4> QED BY <3>1, <4>2 DEF DiskInv
    <3>2. CASE h \notin DOMAIN batches
      <4>1. h = cur'
        BY <3>0, <3>2
      <4>2. batches'[h][j] = NewTask(req[c].list[j])
        BY <1>2, <4>1, InstallFacts
      <4> QED BY <4>2 DEF NewTask, TaskNamed
    <3> QED BY <3>1, <3>2
  <2>3. ASSUME NEW y \in EveryWorker, ~Loose(wk[y])
        PROVE  batches'[wk[y].gen][wk[y].idx].video = TaskOf(y).video
    <3>1. batches'[wk[y].gen] = batches[wk[y].gen]
      BY <1>2, <2>3, InstallFacts DEF Holding, Loose
    <3> QED BY <3>1 DEF TaskOf
  <2> QED BY <2>1, <2>2, <2>3, KeepDisk
<1>3. CASE StartCheck(c) \/ StartClean(c) \/ CancelPause(c) \/ CancelCtx(c) \/ Resume(c)
  <2>1. UNCHANGED <<disk, records, batches, wk>>
    BY <1>3 DEF StartCheck, StartClean, CancelPause, CancelCtx, Resume, files
  <2> QED BY <2>1, NoPointDisk
<1>4. CASE ClearLock(c) \/ ClearCancel(c) \/ ClearWait(c) \/ ClearDrop(c) \/ ClearClean(c)
  <2>1. UNCHANGED <<disk, records, batches, wk>>
    BY <1>4 DEF ClearLock, ClearCancel, ClearWait, ClearDrop, ClearClean, files
  <2> QED BY <2>1, NoPointDisk
<1> QED BY <1>1, <1>2, <1>3, <1>4 DEF Request

LEMMA StepDisk ==
  ASSUME DistinctNames
  PROVE  Shape /\ DiskInv /\ [Next]_vars => DiskInv'
<1> SUFFICES ASSUME Shape, DiskInv, [Next]_vars PROVE DiskInv'
  OBVIOUS
<1>1. CASE \E r \in Runs : Alive /\ Runner(r)
  <2>1. UNCHANGED <<disk, records, batches, wk>>
    BY <1>1 DEF Runner, RunnerBegin, RunnerSetup, DispatchPanic, DispatchSkip, DispatchSend,
         DispatchStop, DispatchEnd, RunnerWait, RunnerFinish, files
  <2> QED BY <2>1, NoPointDisk
<1>2. CASE \E e \in Transfers : Alive /\ EngineEnds(e)
  <2>1. UNCHANGED <<disk, records, batches, wk>>
    BY <1>2 DEF EngineEnds
  <2> QED BY <2>1, NoPointDisk
<1>3. CASE UNCHANGED vars
  <2>1. UNCHANGED <<disk, records, batches, wk>>
    BY <1>3 DEF vars, files
  <2> QED BY <2>1, NoPointDisk
<1>4. CASE \E c \in Clients : Alive /\ Request(c)
  BY <1>4, RequestDisk
<1>5. CASE \E x \in Runs \X Workers : Alive /\ Worker(x)
  BY <1>5, WorkerDisk DEF EveryWorker
<1> QED BY <1>1, <1>2, <1>3, <1>4, <1>5 DEF Next

LEMMA InitDisk == Init => DiskInv
<1> SUFFICES ASSUME Init PROVE DiskInv
  OBVIOUS
<1>1. PathsNamed
  BY DEF Init, PathsNamed
<1>2. batches = <<>> /\ \A x \in EveryWorker : Loose(wk[x])
  BY DEF Init, EveryWorker, FreeWorker, Loose
<1> QED BY <1>1, <1>2 DEF DiskInv

\* A task called done has its video on disk, whatever requests race, if no two
\* videos have the same file name: MoveFileToAvailablePath's rename replaces
\* another file only under its own name.
THEOREM DoneOnDisk ==
  ASSUME DistinctNames
  PROVE  Spec => []DoneIsOnDisk
<1>1. Init => Shape /\ DiskInv
  BY InitShape, InitDisk
<1>2. (Shape /\ DiskInv) /\ [Next]_vars => (Shape /\ DiskInv)'
  BY StepShape, StepDisk
<1>3. Shape /\ DiskInv => DoneIsOnDisk
  <2> SUFFICES ASSUME Shape, DiskInv, NEW i \in DOMAIN Tasks, Tasks[i].status = "done"
               PROVE  \E f \in disk : f[2] = Tasks[i].video
    BY DEF DoneIsOnDisk
  <2>1. cur \in DOMAIN batches /\ Tasks = batches[cur]
    <3>1. cur # 0 /\ cur \in 0..Len(batches) /\ batches \in Seq(Seq(Task))
      BY DEF Tasks, Shape, TasksOK
    <3> QED BY <3>1 DEF Tasks
  <2>2. TaskNamed(batches[cur][i])
    BY <2>1 DEF DiskInv
  <2> QED BY <2>1, <2>2 DEF TaskNamed, OnDisk
<1> QED BY <1>1, <1>2, <1>3, PTL DEF Spec

-----------------------------------------------------------------------------
(* One run at a time.                                                      *)

Begun == {"setup", "dispatch", "wait", "finish"}

ControlType ==
  /\ running \in BOOLEAN
  /\ cancelFunc \in Runs \cup {NoRun}
  /\ runPc \in [Runs -> RunPcs]
  /\ reqPc \in [Clients -> ReqPcs]

\* Why a run keeps the handler busy: running from its go statement until a
\* cancel, cancelFunc from its first step until its last.
BusyWhileActive ==
  /\ \A r \in Runs : runPc[r] = "spawned" => running
  /\ \A r \in Runs : runPc[r] \in Begun => cancelFunc = r
  /\ cancelFunc # NoRun => runPc[cancelFunc] \in Begun

\* Between its busy test and its go statement batch_start is alone.
StartAlone ==
  \A c \in Clients : reqPc[c] \in {"startClean", "startInstall"} => ActiveRuns = {}

ControlInv == ControlType /\ BusyWhileActive /\ OneRunner /\ StartAlone

SerialClients == \A c, d \in Clients : c = d

controlVars == <<running, cancelFunc, runPc, reqPc>>

\* A step that leaves these variables alone keeps the invariant.
LEMMA StutterKeepsControlInv ==
  ASSUME ControlInv, UNCHANGED controlVars
  PROVE  ControlInv'
BY DEF ControlInv, ControlType, BusyWhileActive, OneRunner, StartAlone, ActiveRuns, Begun,
       controlVars

LEMMA InitControlInv == Init => ControlInv
<1> SUFFICES ASSUME Init PROVE ControlInv
  OBVIOUS
<1>1. /\ running = FALSE /\ cancelFunc = NoRun
      /\ \A r \in Runs : runPc[r] = "none"
      /\ \A c \in Clients : reqPc[c] = "idle"
  BY DEF Init
<1>2. ControlType
  BY DEF Init, ControlType, RunPcs, ReqPcs
<1> QED BY <1>1, <1>2 DEF ControlInv, BusyWhileActive, OneRunner, StartAlone, ActiveRuns, Begun

\* While the handler is not busy there is no run.
LEMMA IdleHasNoRun ==
  ASSUME ControlInv, ~Busy
  PROVE  ActiveRuns = {}
<1>1. ASSUME NEW r \in Runs, r \in ActiveRuns
      PROVE  FALSE
  <2>1. runPc[r] = "spawned" \/ runPc[r] \in Begun
    BY <1>1 DEF ControlInv, ControlType, ActiveRuns, RunPcs, Begun
  <2>2. running \/ cancelFunc = r
    BY <2>1 DEF ControlInv, BusyWhileActive
  <2>3. r # NoRun
    BY CountsAssumption DEF Runs, NoRun
  <2> QED BY <2>2, <2>3 DEF Busy
<1> QED BY <1>1 DEF ActiveRuns

\* The go statement keeps the invariant when no run is active and the request
\* that executes it, the only one, is idle afterwards.
LEMMA SpawnKeepsControlInv ==
  ASSUME ControlInv, ActiveRuns = {}, NEW force, Spawn(force), running' = TRUE,
         cancelFunc' = cancelFunc, reqPc' \in [Clients -> ReqPcs],
         \A c \in Clients : reqPc'[c] \notin {"startClean", "startInstall"}
  PROVE  ControlInv'
<1>1. PICK r \in Runs : runPc[r] = "none" /\ runPc' = [runPc EXCEPT ![r] = "spawned"]
  BY DEF Spawn
<1>2. \A s \in Runs : s # r => runPc'[s] = runPc[s] /\ runPc[s] \in {"none", "done"}
  BY <1>1 DEF ActiveRuns, ControlInv, ControlType
<1>3. runPc'[r] = "spawned"
  BY <1>1 DEF ControlInv, ControlType
<1>4. cancelFunc = NoRun
  BY DEF ControlInv, ControlType, BusyWhileActive, ActiveRuns, Begun
<1>5. ControlType'
  BY <1>1 DEF ControlInv, ControlType, RunPcs
<1>6. BusyWhileActive'
  BY <1>2, <1>3, <1>4 DEF BusyWhileActive, Begun
<1>7. OneRunner' /\ StartAlone'
  BY <1>2, <1>3 DEF OneRunner, StartAlone, ActiveRuns
<1> QED BY <1>5, <1>6, <1>7 DEF ControlInv

LEMMA RequestKeepsControlInv ==
  ASSUME SerialClients, ControlInv, NEW c \in Clients, Request(c)
  PROVE  ControlInv'
<1> USE DEF ControlInv
<1>0. \A d \in Clients : d = c
  BY DEF SerialClients
<1>1. CASE StartCheck(c)
  <2>1. ActiveRuns = {}
    BY <1>1, IdleHasNoRun DEF StartCheck
  <2>2. UNCHANGED <<running, cancelFunc, runPc>> /\ reqPc' = [reqPc EXCEPT ![c] = "startClean"]
    BY <1>1 DEF StartCheck, control
  <2> QED BY <2>1, <2>2 DEF ControlType, BusyWhileActive, OneRunner, StartAlone, ActiveRuns,
                            Begun, ReqPcs
<1>2. CASE StartClean(c)
  <2>1. UNCHANGED <<running, cancelFunc, runPc>> /\ reqPc' = [reqPc EXCEPT ![c] = "startInstall"]
    BY <1>2 DEF StartClean, control
  <2>2. ActiveRuns = {}
    BY <1>2 DEF StartClean, StartAlone
  <2> QED BY <2>1, <2>2 DEF ControlType, BusyWhileActive, OneRunner, StartAlone, ActiveRuns,
                            Begun, ReqPcs
<1>3. CASE StartInstall(c)
  <2>1. ActiveRuns = {}
    BY <1>3 DEF StartInstall, StartAlone
  <2>2. reqPc' = [reqPc EXCEPT ![c] = "idle"] /\ cancelFunc' = cancelFunc /\ running' = TRUE
    BY <1>3 DEF StartInstall, Answer
  <2>3. reqPc' \in [Clients -> ReqPcs] /\ \A d \in Clients : reqPc'[d] = "idle"
    BY <1>0, <2>2 DEF ControlType, ReqPcs
  <2> QED BY <1>3, <2>1, <2>2, <2>3, SpawnKeepsControlInv DEF StartInstall
<1>4. CASE Resume(c)
  <2>1. ActiveRuns = {}
    BY <1>4, IdleHasNoRun DEF Resume
  <2>2. UNCHANGED <<reqPc, cancelFunc>> /\ running' = TRUE
    BY <1>4 DEF Resume
  <2>3. \A d \in Clients : reqPc'[d] = "idle"
    BY <1>0, <1>4, <2>2 DEF Resume, Accepting
  <2>4. \E force \in Forces : Spawn(force)
    BY <1>4 DEF Resume
  <2> QED BY <2>1, <2>2, <2>3, <2>4, SpawnKeepsControlInv DEF ControlType
<1>5. CASE CancelLock(c) \/ ClearLock(c)
  <2>1. /\ UNCHANGED <<cancelFunc, runPc>>
        /\ \E pc \in {"cancel", "clearCancel", "clearDrop"} : reqPc' = [reqPc EXCEPT ![c] = pc]
        /\ running' = (running /\ cancelFunc = NoRun)
    BY <1>5 DEF CancelLock, ClearLock, ControlType
  <2>2. ASSUME NEW r \in Runs, runPc[r] = "spawned"
        PROVE  cancelFunc = NoRun
    <3>1. SUFFICES ASSUME cancelFunc # NoRun PROVE FALSE
      OBVIOUS
    <3>2. runPc[cancelFunc] \in Begun /\ cancelFunc \in Runs
      BY <3>1 DEF BusyWhileActive, ControlType
    <3> QED BY <2>2, <3>2 DEF OneRunner, ActiveRuns, Begun
  <2> QED BY <2>1, <2>2 DEF ControlType, BusyWhileActive, OneRunner, StartAlone, ActiveRuns,
                            Begun, ReqPcs
<1>6. CASE CancelPause(c) \/ CancelCtx(c) \/ ClearCancel(c) \/ ClearWait(c) \/ ClearDrop(c)
           \/ ClearClean(c)
  <2>1. /\ UNCHANGED <<running, cancelFunc, runPc>>
        /\ \/ reqPc' = reqPc
           \/ \E pc \in {"idle", "clearWait", "clearDrop", "clearClean"} :
                reqPc' = [reqPc EXCEPT ![c] = pc]
    BY <1>6 DEF CancelPause, CancelCtx, ClearCancel, ClearWait, ClearDrop, ClearClean,
                Answer, control
  <2> QED BY <2>1 DEF ControlType, BusyWhileActive, OneRunner, StartAlone, ActiveRuns,
                      Begun, ReqPcs
<1> QED BY <1>1, <1>2, <1>3, <1>4, <1>5, <1>6 DEF Request

LEMMA RunnerKeepsControlInv ==
  ASSUME ControlInv, NEW r \in Runs, Runner(r)
  PROVE  ControlInv'
<1> USE DEF ControlInv
<1>1. CASE RunnerBegin(r)
  <2>1. /\ UNCHANGED <<running, reqPc>>
        /\ cancelFunc' = r /\ runPc' = [runPc EXCEPT ![r] = "setup"]
        /\ runPc[r] = "spawned"
    BY <1>1 DEF RunnerBegin
  <2>2. \A s \in Runs : s # r => runPc[s] \in {"none", "done"}
    BY <2>1 DEF OneRunner, ActiveRuns
  <2>3. ControlType' /\ runPc'[r] = "setup" /\ \A s \in Runs : s # r => runPc'[s] = runPc[s]
    BY <2>1 DEF ControlType, RunPcs
  <2>4. BusyWhileActive'
    BY <2>1, <2>2, <2>3 DEF BusyWhileActive, Begun
  <2>5. OneRunner' /\ StartAlone'
    BY <2>1, <2>2, <2>3 DEF OneRunner, StartAlone, ActiveRuns
  <2> QED BY <2>3, <2>4, <2>5
<1>2. CASE RunnerSetup(r) \/ DispatchStop(r) \/ DispatchEnd(r) \/ RunnerWait(r)
  <2>1. /\ UNCHANGED <<running, cancelFunc, reqPc>>
        /\ runPc[r] \in Begun
        /\ \E pc \in Begun : runPc' = [runPc EXCEPT ![r] = pc]
    BY <1>2 DEF RunnerSetup, DispatchStop, DispatchEnd, RunnerWait, Dispatching, Begun
  <2>2. ActiveRuns' = ActiveRuns /\ ControlType'
    BY <2>1 DEF ControlType, ActiveRuns, RunPcs, Begun
  <2>3. BusyWhileActive'
    BY <2>1 DEF ControlType, BusyWhileActive, Begun
  <2> QED BY <2>1, <2>2, <2>3 DEF OneRunner, StartAlone
<1>3. CASE RunnerFinish(r)
  <2>1. /\ reqPc' = reqPc /\ running' = FALSE /\ cancelFunc' = NoRun
        /\ runPc' = [runPc EXCEPT ![r] = "done"] /\ runPc[r] = "finish"
    BY <1>3 DEF RunnerFinish
  <2>2. \A s \in Runs : s # r => runPc[s] \in {"none", "done"}
    BY <2>1 DEF OneRunner, ActiveRuns
  <2>3. ControlType' /\ \A s \in Runs : runPc'[s] \in {"none", "done"}
    BY <2>1, <2>2 DEF ControlType, RunPcs
  <2> QED BY <2>1, <2>3 DEF BusyWhileActive, OneRunner, StartAlone, ActiveRuns, Begun
<1>4. CASE DispatchPanic(r) \/ DispatchSkip(r) \/ DispatchSend(r)
  BY <1>4, StutterKeepsControlInv
     DEF DispatchPanic, DispatchSkip, DispatchSend, control, controlVars
<1> QED BY <1>1, <1>2, <1>3, <1>4 DEF Runner

LEMMA NextControlInv ==
  ASSUME SerialClients, ControlInv, [Next]_vars
  PROVE  ControlInv'
<1>1. CASE \E c \in Clients : Alive /\ Request(c)
  BY <1>1, RequestKeepsControlInv
<1>2. CASE \E r \in Runs : Alive /\ Runner(r)
  BY <1>2, RunnerKeepsControlInv
<1>3. CASE \E x \in Runs \X Workers : Alive /\ Worker(x)
  <2>1. UNCHANGED controlVars
    BY <1>3, ZenonT(60) DEF Worker, WorkerTake, WorkerExit, WorkerMark, WorkerPanic, WorkerBegin,
       WorkerTry, WorkerPrepare, WorkerCreate, WorkerCreated, WorkerWait, WorkerCheck,
       WorkerMove, WorkerSettle, control, controlVars
  <2> QED BY <2>1, StutterKeepsControlInv
<1>4. CASE \E e \in Transfers : Alive /\ EngineEnds(e)
  BY <1>4, StutterKeepsControlInv DEF EngineEnds, control, controlVars
<1>5. CASE UNCHANGED vars
  BY <1>5, StutterKeepsControlInv DEF vars, control, controlVars
<1> QED BY <1>1, <1>2, <1>3, <1>4, <1>5 DEF Next

\* At most one run serves the handler at any time, for any number of videos,
\* workers, retries and runs, whatever the timing of the runs and of the
\* clears, as long as requests are served one at a time.
THEOREM OneRunnerWhenSerial ==
  ASSUME SerialClients
  PROVE  Spec => []OneRunner
<1>1. ControlInv /\ [Next]_vars => ControlInv'
  BY NextControlInv
<1>2. ControlInv => OneRunner
  BY DEF ControlInv
<1> QED BY InitControlInv, <1>1, <1>2, PTL DEF Spec

-----------------------------------------------------------------------------
(* The crew of a run.                                                      *)
Taken(x)   == wk[x].pc \notin {"idle", "exit"}
Sending(r) == runPc[r] \in {"dispatch", "wait"}
Fresh      == {"none", "spawned", "setup", "done"}

\* A run has handed nothing out before its loop, and once it is over nothing
\* it has handed out is with a worker or will be.
CrewOf(r) ==
  /\ runPc[r] \in Fresh => run[r].chan = <<>> /\ run[r].sent = 0 /\ run[r].next = 1
  /\ run[r].sent = 0 => run[r].chan = <<>> /\ \A w \in Workers : ~Taken(<<r, w>>)
  /\ ~Sending(r) => \A w \in Workers :
       ~Taken(<<r, w>>) /\ (run[r].chan # <<>> => wk[<<r, w>>].pc = "exit")

\* No index is handed out twice: those in the channel and with the workers differ.
SpreadOf(r) ==
  /\ \A i \in DOMAIN run[r].chan : run[r].chan[i] < run[r].next
  /\ \A i, j \in DOMAIN run[r].chan : run[r].chan[i] = run[r].chan[j] => i = j
  /\ \A w \in Workers : Taken(<<r, w>>) =>
       /\ wk[<<r, w>>].idx < run[r].next
       /\ \A i \in DOMAIN run[r].chan : run[r].chan[i] # wk[<<r, w>>].idx
       /\ \A v \in Workers :
            Taken(<<r, v>>) /\ wk[<<r, v>>].idx = wk[<<r, w>>].idx => v = w

CrewInv == \A r \in Runs : CrewOf(r) /\ SpreadOf(r)

\* What a step that concerns another run, or only the inside of a task, leaves.
SameHands(r) ==
  \A w \in Workers :
    /\ Taken(<<r, w>>)' <=> Taken(<<r, w>>)
    /\ wk[<<r, w>>].pc = "exit" => wk'[<<r, w>>].pc = "exit"
    /\ Taken(<<r, w>>) => wk'[<<r, w>>].idx = wk[<<r, w>>].idx
SameCrew(r) ==
  /\ run'[r].chan = run[r].chan /\ run'[r].next = run[r].next /\ run'[r].sent = run[r].sent
  /\ runPc'[r] \in Fresh => runPc[r] \in Fresh
  /\ Sending(r)' <=> Sending(r)
  /\ SameHands(r)

LEMMA SameCrewKeeps ==
  ASSUME NEW r \in Runs, CrewOf(r), SpreadOf(r), SameCrew(r)
  PROVE  CrewOf(r)' /\ SpreadOf(r)'
<1>1. CrewOf(r)'
  BY DEF CrewOf, SameCrew, SameHands
<1>2. SpreadOf(r)'
  BY DEF SpreadOf, SameCrew, SameHands
<1> QED BY <1>1, <1>2

LEMMA CrewElsewhere ==
  ASSUME CrewInv, NEW r \in Runs, CrewOf(r)', SpreadOf(r)',
         \A s \in Runs : s # r => SameCrew(s)
  PROVE  CrewInv'
BY SameCrewKeeps DEF CrewInv

LEMMA OthersSame ==
  ASSUME NEW r \in Runs, \A s \in Runs : s # r => runPc'[s] = runPc[s] /\ run'[s] = run[s],
         \A y \in EveryWorker : y[1] # r => wk'[y] = wk[y]
  PROVE  \A s \in Runs : s # r => SameCrew(s)
BY DEF SameCrew, SameHands, Sending, Taken, EveryWorker

LEMMA InitCrew == Init => CrewInv
BY DEF Init, CrewInv, CrewOf, SpreadOf, NewRun, FreeWorker, Taken, Fresh, Sending

LEMMA SpawnCrew ==
  ASSUME Shape, CrewInv, NEW force, Spawn(force), wk' = wk
  PROVE  CrewInv'
<1>1. PICK r \in Runs : /\ runPc[r] = "none" /\ runPc' = [runPc EXCEPT ![r] = "spawned"]
                        /\ run' = [run EXCEPT ![r].force = force]
  BY DEF Spawn
<1>2. runPc \in [Runs -> RunPcs] /\ run \in [Runs -> RunRec]
  BY DEF Shape, ControlOK, RunOK
<1>3. ASSUME NEW s \in Runs
      PROVE  SameCrew(s)
  <2>1. run'[s].chan = run[s].chan /\ run'[s].next = run[s].next /\ run'[s].sent = run[s].sent
    BY <1>1, <1>2 DEF RunRec
  <2>2. (runPc'[s] = runPc[s]) \/ (runPc[s] = "none" /\ runPc'[s] = "spawned")
    BY <1>1, <1>2
  <2> QED BY <2>1, <2>2 DEF SameCrew, SameHands, Taken, Sending, Fresh
<1> QED BY <1>3, SameCrewKeeps DEF CrewInv

LEMMA AppendFacts ==
  ASSUME NEW S, NEW s \in Seq(S), NEW n \in S
  PROVE  /\ Len(s) \in Nat /\ Len(s) + 1 \notin DOMAIN s
         /\ DOMAIN Append(s, n) = DOMAIN s \cup {Len(s) + 1}
         /\ \A i \in DOMAIN s : Append(s, n)[i] = s[i]
         /\ Append(s, n)[Len(s) + 1] = n
<1>1. Len(s) \in Nat /\ DOMAIN s = 1..Len(s)
  OBVIOUS
<1>2. Append(s, n) \in Seq(S) /\ Len(Append(s, n)) = Len(s) + 1
  OBVIOUS
<1>3. DOMAIN Append(s, n) = 1..(Len(s) + 1)
  BY <1>1, <1>2
<1>4. DOMAIN Append(s, n) = DOMAIN s \cup {Len(s) + 1}
  BY <1>1, <1>3
<1>5. \A i \in DOMAIN s : Append(s, n)[i] = s[i]
  BY <1>1
<1>6. Append(s, n)[Len(s) + 1] = n
  BY <1>1
<1> QED BY <1>1, <1>4, <1>5, <1>6

LEMMA RunnerCrew ==
  ASSUME Shape, CrewInv, NEW r \in Runs, Runner(r)
  PROVE  CrewInv'
<1>1. /\ runPc \in [Runs -> RunPcs] /\ run \in [Runs -> RunRec] /\ run[r] \in RunRec
      /\ CrewOf(r) /\ SpreadOf(r)
  BY DEF Shape, ControlOK, RunOK, CrewInv
<1>2. wk' = wk
  BY DEF Runner, RunnerBegin, RunnerSetup, DispatchPanic, DispatchSkip, DispatchSend, DispatchStop,
         DispatchEnd, RunnerWait, RunnerFinish
<1>3. \A s \in Runs : s # r => runPc'[s] = runPc[s] /\ run'[s] = run[s]
  BY <1>1 DEF Runner, RunnerBegin, RunnerSetup, DispatchPanic, DispatchSkip, DispatchSend,
         DispatchStop, DispatchEnd, RunnerWait, RunnerFinish, control
<1>4. \A s \in Runs : s # r => SameCrew(s)
  BY <1>2, <1>3, OthersSame
<1>5. \A w \in Workers : Taken(<<r, w>>)' <=> Taken(<<r, w>>)
  BY <1>2 DEF Taken
<1>6. CASE RunnerBegin(r) \/ DispatchPanic(r) \/ DispatchStop(r)
           \/ (RunnerSetup(r) /\ runPc' = [runPc EXCEPT ![r] = "finish"])
  <2>1. run' = run
    <3>1. ASSUME RunnerSetup(r), runPc' = [runPc EXCEPT ![r] = "finish"]
          PROVE  run' = run
      <4>1. runPc'[r] = "finish"
        BY <1>1, <3>1
      <4>2. runPc' # [runPc EXCEPT ![r] = "dispatch"]
        BY <1>1, <4>1
      <4> QED BY <3>1, <4>2 DEF RunnerSetup
    <3> QED BY <1>6, <3>1 DEF RunnerBegin, DispatchPanic, DispatchStop
  <2>2. /\ runPc'[r] \in Fresh => runPc[r] \in Fresh
        /\ Sending(r)' <=> Sending(r)
    BY <1>1, <1>6 DEF RunnerBegin, DispatchPanic, DispatchStop, RunnerSetup, Dispatching, Fresh,
         Sending, control
  <2>3. SameCrew(r)
    BY <1>2, <1>5, <2>1, <2>2 DEF SameCrew, SameHands
  <2> QED BY <1>1, <1>4, <2>3, SameCrewKeeps, CrewElsewhere
<1>7. CASE RunnerSetup(r) /\ runPc' = [runPc EXCEPT ![r] = "dispatch"]
  <2>1. runPc[r] = "setup" /\ runPc'[r] = "dispatch"
    BY <1>1, <1>7 DEF RunnerSetup
  <2>2. run' = [run EXCEPT ![r].len = Len(Tasks)]
    <3>1. runPc' # [runPc EXCEPT ![r] = "finish"]
      BY <1>1, <2>1
    <3> QED BY <1>7, <3>1 DEF RunnerSetup
  <2>3. run'[r].chan = run[r].chan /\ run'[r].next = run[r].next /\ run'[r].sent = run[r].sent
    BY <1>1, <2>2 DEF RunRec
  <2>4. CrewOf(r)'
    BY <1>1, <1>2, <1>5, <2>1, <2>3 DEF CrewOf, Fresh, Sending
  <2>5. SpreadOf(r)'
    BY <1>1, <1>2, <1>5, <2>3 DEF SpreadOf
  <2> QED BY <1>4, <2>4, <2>5, CrewElsewhere
<1>8. CASE DispatchSkip(r)
  <2>1. runPc' = runPc /\ runPc[r] = "dispatch" /\ run' = [run EXCEPT ![r].next = @ + 1]
    BY <1>8 DEF DispatchSkip, Dispatching, control
  <2>2. /\ run'[r].chan = run[r].chan /\ run'[r].next = run[r].next + 1
        /\ run'[r].sent = run[r].sent
    BY <1>1, <2>1 DEF RunRec
  <2>3. CrewOf(r)'
    BY <1>1, <1>2, <1>5, <2>1, <2>2 DEF CrewOf, Fresh, Sending
  <2>4. /\ run[r].next \in Nat /\ \A i \in DOMAIN run[r].chan : run[r].chan[i] \in Nat
        /\ \A w \in Workers : wk[<<r, w>>].idx \in Nat
    BY <1>1 DEF RunRec, Shape, WorkersOK, WorkerRec, EveryWorker
  <2>5. SpreadOf(r)'
    BY <1>1, <1>2, <1>5, <2>2, <2>4 DEF SpreadOf
  <2> QED BY <1>4, <2>3, <2>5, CrewElsewhere
<1>9. CASE DispatchSend(r)
  <2> DEFINE s == run[r].chan
             n == run[r].next
  <2>1. /\ runPc' = runPc /\ runPc[r] = "dispatch"
        /\ run' = [run EXCEPT ![r].next = @ + 1, ![r].sent = @ + 1,
                              ![r].chan = Append(@, run[r].next)]
    BY <1>9 DEF DispatchSend, Dispatching, control
  <2>2. /\ run'[r].chan = Append(s, n) /\ run'[r].next = n + 1
        /\ run'[r].sent = run[r].sent + 1
    BY <1>1, <2>1 DEF RunRec
  <2>3. CrewOf(r)'
    <3>1. run[r].sent + 1 # 0
      BY <1>1 DEF RunRec
    <3> QED BY <1>1, <1>2, <1>5, <2>1, <2>2, <3>1 DEF CrewOf, Fresh, Sending
  <2>4. /\ n \in Nat /\ s \in Seq(Nat) /\ \A i \in DOMAIN s : s[i] \in Nat
        /\ \A w \in Workers : wk[<<r, w>>].idx \in Nat
    BY <1>1 DEF RunRec, Shape, WorkersOK, WorkerRec, EveryWorker
  <2>5. /\ DOMAIN Append(s, n) = DOMAIN s \cup {Len(s) + 1} /\ Len(s) + 1 \notin DOMAIN s
        /\ \A i \in DOMAIN s : Append(s, n)[i] = s[i]
        /\ Append(s, n)[Len(s) + 1] = n
    BY <2>4, AppendFacts
  <2>6. SpreadOf(r)'
    <3> HIDE DEF s, n
    <3>1. /\ \A i \in DOMAIN s : s[i] < n
          /\ \A i, j \in DOMAIN s : s[i] = s[j] => i = j
      BY <1>1 DEF SpreadOf, s, n
    <3>2. \A i \in DOMAIN Append(s, n) : Append(s, n)[i] < n + 1
      BY <2>4, <2>5, <3>1
    <3>3. \A i, j \in DOMAIN Append(s, n) : Append(s, n)[i] = Append(s, n)[j] => i = j
      BY <2>4, <2>5, <3>1
    <3>4. ASSUME NEW w \in Workers, Taken(<<r, w>>)
          PROVE  /\ wk[<<r, w>>].idx < n + 1
                 /\ \A i \in DOMAIN Append(s, n) : Append(s, n)[i] # wk[<<r, w>>].idx
                 /\ \A v \in Workers :
                      Taken(<<r, v>>) /\ wk[<<r, v>>].idx = wk[<<r, w>>].idx => v = w
      <4>1. /\ wk[<<r, w>>].idx < n /\ \A i \in DOMAIN s : s[i] # wk[<<r, w>>].idx
            /\ \A v \in Workers :
                 Taken(<<r, v>>) /\ wk[<<r, v>>].idx = wk[<<r, w>>].idx => v = w
        BY <1>1, <3>4 DEF SpreadOf, s, n
      <4>2. wk[<<r, w>>].idx \in Nat
        BY <2>4
      <4>3. wk[<<r, w>>].idx < n + 1 /\ wk[<<r, w>>].idx # n
        BY <2>4, <4>1, <4>2
      <4> QED BY <2>5, <4>1, <4>3
    <3> QED BY <1>2, <1>5, <2>2, <3>2, <3>3, <3>4 DEF SpreadOf
  <2> QED BY <1>4, <2>3, <2>6, CrewElsewhere
<1>10. CASE DispatchEnd(r) \/ RunnerWait(r)
  <2>1. /\ run' = run /\ runPc[r] \in {"dispatch", "wait"} /\ runPc'[r] \in {"wait", "finish"}
        /\ runPc'[r] = "finish" =>
             run[r].sent = 0 \/ \A w \in Workers : wk[<<r, w>>].pc = "exit"
    BY <1>1, <1>10 DEF DispatchEnd, RunnerWait
  <2>2. CrewOf(r)'
    BY <1>1, <1>2, <1>5, <2>1 DEF CrewOf, Fresh, Sending, Taken
  <2>3. SpreadOf(r)'
    BY <1>1, <1>2, <1>5, <2>1 DEF SpreadOf
  <2> QED BY <1>4, <2>2, <2>3, CrewElsewhere
<1>11. CASE RunnerFinish(r)
  <2>1. /\ runPc[r] = "finish" /\ runPc'[r] = "done" /\ run'[r] = NewRun
    BY <1>1, <1>11 DEF RunnerFinish
  <2>2. \A w \in Workers : ~Taken(<<r, w>>)'
    BY <1>1, <1>5, <2>1 DEF CrewOf, Sending
  <2>3. CrewOf(r)' /\ SpreadOf(r)'
    BY <2>1, <2>2 DEF CrewOf, SpreadOf, NewRun
  <2> QED BY <1>4, <2>3, CrewElsewhere
<1> QED BY <1>6, <1>7, <1>8, <1>9, <1>10, <1>11 DEF Runner, RunnerSetup

\* A step at a task: the hands stay.
LEMMA HandsCrew ==
  ASSUME CrewInv, UNCHANGED <<run, runPc>>, \A r \in Runs : SameHands(r)
  PROVE  CrewInv'
<1>1. \A r \in Runs : SameCrew(r)
  BY DEF SameCrew, Sending
<1> QED BY <1>1, SameCrewKeeps DEF CrewInv

LEMMA WorkerCrew ==
  ASSUME Shape, CrewInv, NEW x \in EveryWorker, Worker(x)
  PROVE  CrewInv'
<1>0. /\ wk \in [EveryWorker -> WorkerRec] /\ run \in [Runs -> RunRec]
      /\ x[1] \in Runs /\ x[2] \in Workers /\ x = <<x[1], x[2]>>
  BY DEF Shape, WorkersOK, RunOK, EveryWorker
<1> DEFINE r == x[1]
<1>1. CrewOf(r) /\ SpreadOf(r)
  BY <1>0 DEF CrewInv
<1>2. ASSUME NEW w, wk' = [wk EXCEPT ![x] = w], w.pc \notin {"idle", "exit"}, w.idx = wk[x].idx,
             Taken(x), UNCHANGED <<run, runPc>>
      PROVE  CrewInv'
  <2>1. \A s \in Runs : SameHands(s)
    BY <1>0, <1>2 DEF SameHands, Taken, EveryWorker
  <2> QED BY <1>2, <2>1, HandsCrew
<1>3. CASE Middle(x)
  <2>1. PICK t, w : Moved(x, t, w)
    BY <1>3, MiddleMoves
  <2>2. Taken(x) /\ UNCHANGED <<run, runPc>>
    BY <1>3, MiddleMoves DEF Holding, Taken, control
  <2>3. wk' = [wk EXCEPT ![x] = w] /\ w.pc \notin {"idle", "exit"} /\ w.idx = wk[x].idx
    BY <2>1 DEF Moved, Attempt
  <2> QED BY <1>2, <2>2, <2>3
<1>4. CASE WorkerMark(x)
  <2>1. Taken(x) /\ UNCHANGED <<run, runPc>>
    BY <1>4, MarkFacts DEF Taken, control
  <2>2. PICK w : wk' = [wk EXCEPT ![x] = w] /\ w.pc = "begin" /\ w.idx = wk[x].idx
    BY <1>4, MarkFacts
  <2> QED BY <1>2, <2>1, <2>2
<1>5. CASE WorkerPanic(x)
  <2>1. UNCHANGED <<run, runPc, wk>>
    BY <1>5 DEF WorkerPanic, control
  <2> QED BY <2>1, HandsCrew DEF SameHands, Taken
<1>6. CASE WorkerExit(x) \/ WorkerSettle(x)
  <2>1. UNCHANGED <<run, runPc>>
    BY <1>6, ExitFacts, SettleFacts DEF control
  <2>2. PICK w : /\ wk' = [wk EXCEPT ![x] = w] /\ w.pc \in {"idle", "exit"}
                 /\ w.pc = "idle" => Taken(x)
    <3>1. CASE WorkerExit(x)
      BY <3>1, ExitFacts
    <3>2. CASE WorkerSettle(x)
      <4>1. wk' = [wk EXCEPT ![x] = FreeWorker] /\ Taken(x) /\ FreeWorker.pc = "idle"
        BY <3>2, SettleFacts DEF FreeWorker, Taken
      <4> QED BY <4>1
    <3> QED BY <1>6, <3>1, <3>2
  <2>3. \A s \in Runs : s # r => SameCrew(s)
    BY <1>0, <2>1, <2>2, OthersSame DEF EveryWorker
  <2>4. ~Taken(x)' /\ \A v \in Workers : v # x[2] => wk'[<<r, v>>] = wk[<<r, v>>]
    BY <1>0, <2>2 DEF Taken, EveryWorker
  <2>5. \A v \in Workers : Taken(<<r, v>>)' => v # x[2] /\ Taken(<<r, v>>)
    BY <1>0, <2>4 DEF Taken
  <2>6. CrewOf(r)'
    <3>1. ~Sending(r) => ~Taken(x) /\ w.pc = "exit"
      BY <1>0, <1>1, <2>2 DEF CrewOf
    <3>2. wk'[x].pc = w.pc
      BY <1>0, <2>2
    <3> QED BY <1>0, <1>1, <2>1, <2>4, <2>5, <3>1, <3>2 DEF CrewOf, Sending
  <2>7. SpreadOf(r)'
    BY <1>1, <2>1, <2>4, <2>5 DEF SpreadOf
  <2> QED BY <1>0, <2>3, <2>6, <2>7, CrewElsewhere
<1>7. CASE WorkerTake(x)
  <2> DEFINE s == run[r].chan
  <2>1. /\ wk[x].pc = "idle" /\ runPc' = runPc /\ s # <<>> /\ run[r] \in RunRec
        /\ run' = [run EXCEPT ![r].chan = Tail(s)]
    BY <1>7, TakeFacts DEF control
  <2>2. PICK w : /\ wk' = [wk EXCEPT ![x] = w]
                 /\ w.pc = "exit" \/ (w.pc = "picked" /\ w.idx = Head(s))
    BY <1>7, TakeFacts
  <2>3. /\ run'[r].chan = Tail(s) /\ run'[r].next = run[r].next /\ run'[r].sent = run[r].sent
    BY <1>0, <2>1 DEF RunRec
  <2>4. /\ s \in Seq(Nat) /\ Len(s) \in Nat /\ 1 \in DOMAIN s /\ Head(s) = s[1]
        /\ \A i \in DOMAIN Tail(s) : i + 1 \in DOMAIN s /\ Tail(s)[i] = s[i + 1] /\ i \in Nat \ {0}
    BY <2>1 DEF RunRec
  <2>5. \A u \in Runs : u # r => SameCrew(u)
    <3>1. \A u \in Runs : u # r => runPc'[u] = runPc[u] /\ run'[u] = run[u]
      BY <1>0, <2>1
    <3>2. \A y \in EveryWorker : y[1] # r => wk'[y] = wk[y]
      BY <1>0, <2>2
    <3> QED BY <1>0, <3>1, <3>2, OthersSame
  <2>6. wk'[x] = w /\ \A v \in Workers : v # x[2] => wk'[<<r, v>>] = wk[<<r, v>>]
    BY <1>0, <2>2 DEF EveryWorker
  <2>7. Sending(r) /\ runPc[r] \notin Fresh /\ run[r].sent # 0
    BY <1>0, <1>1, <2>1 DEF CrewOf
  <2>8. CrewOf(r)'
    BY <2>1, <2>3, <2>7 DEF CrewOf, Sending
  <2>9. SpreadOf(r)'
    <3>1. \A v \in Workers : v # x[2] => (Taken(<<r, v>>)' <=> Taken(<<r, v>>))
      BY <2>6 DEF Taken
    <3>2. /\ \A i \in DOMAIN Tail(s) : Tail(s)[i] < run[r].next
          /\ \A i, j \in DOMAIN Tail(s) : Tail(s)[i] = Tail(s)[j] => i = j
      <4>1. /\ \A i \in DOMAIN s : s[i] < run[r].next
            /\ \A i, j \in DOMAIN s : s[i] = s[j] => i = j
        BY <1>1 DEF SpreadOf
      <4>2. ASSUME NEW i \in DOMAIN Tail(s), NEW j \in DOMAIN Tail(s), Tail(s)[i] = Tail(s)[j]
            PROVE  i = j
        <5>1. i + 1 = j + 1 /\ i \in Nat /\ j \in Nat
          BY <2>4, <4>1, <4>2
        <5> QED BY <5>1
      <4> QED BY <2>4, <4>1, <4>2
    <3>3. ASSUME NEW v \in Workers, Taken(<<r, v>>)'
          PROVE  /\ wk'[<<r, v>>].idx < run[r].next
                 /\ \A i \in DOMAIN Tail(s) : Tail(s)[i] # wk'[<<r, v>>].idx
                 /\ \A y \in Workers :
                      Taken(<<r, y>>)' /\ wk'[<<r, y>>].idx = wk'[<<r, v>>].idx => y = v
      <4>1. v = x[2] => wk'[<<r, v>>].idx = s[1]
        BY <1>0, <2>2, <2>4, <2>6, <3>3 DEF Taken
      <4>2. v # x[2] => Taken(<<r, v>>) /\ wk'[<<r, v>>] = wk[<<r, v>>]
        BY <2>6, <3>1, <3>3
      <4>3. \A y \in Workers : Taken(<<r, y>>)' /\ y = x[2] => wk'[<<r, y>>].idx = s[1]
        BY <1>0, <2>2, <2>4, <2>6 DEF Taken
      <4>4. /\ s[1] < run[r].next /\ \A i \in DOMAIN Tail(s) : Tail(s)[i] # s[1]
            /\ \A y \in Workers : Taken(<<r, y>>) => wk[<<r, y>>].idx # s[1]
        BY <1>1, <2>4 DEF SpreadOf
      <4>5. CASE v = x[2]
        BY <2>6, <3>1, <4>1, <4>4, <4>5
      <4>6. CASE v # x[2]
        <5>1. /\ wk[<<r, v>>].idx < run[r].next
              /\ \A i \in DOMAIN Tail(s) : Tail(s)[i] # wk[<<r, v>>].idx
          BY <1>1, <2>4, <4>2, <4>6 DEF SpreadOf
        <5>2. ASSUME NEW y \in Workers, Taken(<<r, y>>)', wk'[<<r, y>>].idx = wk'[<<r, v>>].idx
              PROVE  y = v
          <6>1. CASE y = x[2]
            BY <4>2, <4>3, <4>4, <4>6, <5>2, <6>1
          <6>2. CASE y # x[2]
            BY <1>1, <2>6, <3>1, <4>2, <4>6, <5>2, <6>2 DEF SpreadOf
          <6> QED BY <6>1, <6>2
        <5> QED BY <4>2, <4>6, <5>1, <5>2
      <4> QED BY <4>5, <4>6
    <3> QED BY <2>3, <3>2, <3>3 DEF SpreadOf
  <2> QED BY <1>0, <2>5, <2>8, <2>9, CrewElsewhere
<1> QED BY <1>3, <1>4, <1>5, <1>6, <1>7 DEF Worker, Middle

LEMMA StepCrew == Shape /\ CrewInv /\ [Next]_vars => CrewInv'
<1> SUFFICES ASSUME Shape, CrewInv, [Next]_vars PROVE CrewInv'
  OBVIOUS
<1>0. ASSUME UNCHANGED <<run, runPc, wk>>
      PROVE  CrewInv'
  BY <1>0, HandsCrew DEF SameHands, Taken
<1>1. ASSUME NEW c \in Clients, Request(c)
      PROVE  CrewInv'
  <2>1. CASE StartInstall(c) \/ Resume(c)
    <3>1. wk' = wk /\ \E force : Spawn(force)
      BY <2>1 DEF StartInstall, Resume
    <3> QED BY <3>1, SpawnCrew
  <2>2. CASE UNCHANGED <<run, runPc, wk>>
    BY <1>0, <2>2
  <2>3. CASE CancelLock(c) \/ CancelPause(c) \/ CancelCtx(c) \/ StartCheck(c) \/ StartClean(c)
             \/ ClearLock(c) \/ ClearCancel(c) \/ ClearWait(c) \/ ClearDrop(c) \/ ClearClean(c)
    BY <1>0, <2>3 DEF CancelLock, CancelPause, CancelCtx, StartCheck, StartClean, ClearLock,
         ClearCancel, ClearWait, ClearDrop, ClearClean, control
  <2> QED BY <1>1, <2>1, <2>3 DEF Request
<1>2. CASE \E e \in Transfers : Alive /\ EngineEnds(e)
  BY <1>0, <1>2 DEF EngineEnds, control
<1>3. CASE UNCHANGED vars
  BY <1>0, <1>3 DEF vars, control
<1> QED BY <1>1, <1>2, <1>3, RunnerCrew, WorkerCrew DEF Next, EveryWorker

-----------------------------------------------------------------------------
(* The tasks of the batch, with one run at a time.                         *)

\* The index i is in a channel or with a worker; a worker holds batches[g][i].
Handed(i) == \/ \E r \in Runs : \E k \in DOMAIN run[r].chan : run[r].chan[k] = i
             \/ \E x \in EveryWorker : Taken(x) /\ wk[x].idx = i
Held(g, i) == \E x \in EveryWorker : Holding(x) /\ wk[x].gen = g /\ wk[x].idx = i

\* All workers hold tasks of one array, the handler's unless that is nil.
OneBatch == \A x \in EveryWorker : Holding(x) =>
              /\ cur \in {0, wk[x].gen}
              /\ \A y \in EveryWorker : Holding(y) => wk[y].gen = wk[x].gen
DownloadingHeld == \A i \in DOMAIN Tasks : Tasks[i].status = "downloading" => Held(cur, i)
NotDone == \A i \in DOMAIN Tasks : Handed(i) => Tasks[i].status # "done"
RunningRuns == running => ActiveRuns # {}

TaskInv == OneBatch /\ DownloadingHeld /\ NotDone

\* With no run active nobody has anything in hand.
LEMMA QuietHands ==
  ASSUME Shape, CrewInv, ActiveRuns = {}
  PROVE  /\ \A x \in EveryWorker : ~Taken(x) /\ ~Holding(x)
         /\ \A r \in Runs : run[r].chan = <<>> /\ runPc[r] \in {"none", "done"}
<1>1. \A r \in Runs : runPc[r] \in {"none", "done"}
  BY DEF ActiveRuns
<1>2. \A r \in Runs : run[r].chan = <<>>
  BY <1>1 DEF CrewInv, CrewOf, Fresh
<1>3. ASSUME NEW x \in EveryWorker
      PROVE  ~Taken(x)
  <2>1. x[1] \in Runs /\ x[2] \in Workers /\ x = <<x[1], x[2]>>
    BY DEF EveryWorker
  <2>2. ~Sending(x[1])
    BY <1>1, <2>1 DEF Sending
  <2> QED BY <2>1, <2>2 DEF CrewInv, CrewOf
<1> QED BY <1>1, <1>2, <1>3 DEF Taken, Holding

LEMMA TakenRuns ==
  ASSUME CrewInv, NEW x \in EveryWorker, Taken(x)
  PROVE  Sending(x[1]) /\ x[1] \in ActiveRuns
<1>1. x[1] \in Runs /\ x[2] \in Workers /\ x = <<x[1], x[2]>>
  BY DEF EveryWorker
<1>2. Sending(x[1])
  BY <1>1 DEF CrewInv, CrewOf
<1> QED BY <1>1, <1>2 DEF Sending, ActiveRuns

\* What a worker has in hand nobody else has.
LEMMA Alone ==
  ASSUME ControlInv, CrewInv, NEW x \in EveryWorker, Taken(x)
  PROVE  /\ \A y \in EveryWorker : Taken(y) /\ wk[y].idx = wk[x].idx => y = x
         /\ \A r \in Runs : \A k \in DOMAIN run[r].chan : run[r].chan[k] # wk[x].idx
<1>0. x[1] \in Runs /\ x[2] \in Workers /\ x = <<x[1], x[2]>> /\ x[1] \in ActiveRuns
  BY TakenRuns DEF EveryWorker
<1>1. SpreadOf(x[1])
  BY <1>0 DEF CrewInv
<1>2. ASSUME NEW y \in EveryWorker, Taken(y), wk[y].idx = wk[x].idx
      PROVE  y = x
  <2>1. y[1] \in ActiveRuns /\ y[2] \in Workers /\ y = <<y[1], y[2]>>
    BY <1>2, TakenRuns DEF EveryWorker
  <2>2. y[1] = x[1]
    BY <1>0, <2>1 DEF ControlInv, OneRunner
  <2>3. y[2] = x[2]
    BY <1>0, <1>1, <1>2, <2>1, <2>2 DEF SpreadOf
  <2> QED BY <1>0, <2>1, <2>2, <2>3
<1>3. ASSUME NEW r \in Runs, NEW k \in DOMAIN run[r].chan
      PROVE  run[r].chan[k] # wk[x].idx
  <2>1. CASE r = x[1]
    BY <1>0, <1>1, <1>3, <2>1 DEF SpreadOf
  <2>2. CASE r # x[1]
    <3>1. r \notin ActiveRuns
      BY <1>0, <2>2 DEF ControlInv, OneRunner
    <3>2. run[r].chan = <<>>
      BY <3>1 DEF ActiveRuns, CrewInv, CrewOf, Fresh
    <3> QED BY <3>2
  <2> QED BY <2>1, <2>2
<1> QED BY <1>2, <1>3

\* The tasks of the batch after a step at the task i of array g.
LEMMA TasksAfter ==
  ASSUME Shape, NEW x \in EveryWorker, NEW g, NEW i, NEW t, NEW w, PointStep(x, g, i, t, w),
         cur' = cur
  PROVE  /\ DOMAIN Tasks' = DOMAIN Tasks
         /\ \A j \in DOMAIN Tasks : Tasks'[j] = IF g = cur /\ j = i THEN t ELSE Tasks[j]
<1>1. CASE cur = 0
  BY <1>1 DEF Tasks
<1>2. CASE cur # 0
  <2>1. cur \in DOMAIN batches
    BY <1>2 DEF Shape, TasksOK
  <2>2. Tasks = batches[cur] /\ Tasks' = batches'[cur]
    BY <1>2 DEF Tasks
  <2> QED BY <2>1, <2>2, PointFacts
<1> QED BY <1>1, <1>2

LEMMA CurFacts ==
  ASSUME Shape, cur # 0
  PROVE  cur \in DOMAIN batches /\ Tasks = batches[cur]
BY DEF Shape, TasksOK, Tasks

\* Nothing begins, ends or is finished.
LEMMA TaskInvKeeps ==
  ASSUME TaskInv, cur' \in {cur, 0},
         \A i \in DOMAIN Tasks' : cur' = cur =>
           /\ i \in DOMAIN Tasks
           /\ Tasks'[i].status \in {Tasks[i].status, "pending"}
           /\ Handed(i)' => Handed(i) \/ Tasks[i].status # "done",
         \A x \in EveryWorker :
           /\ Holding(x)' <=> Holding(x)
           /\ Holding(x) => wk'[x].gen = wk[x].gen /\ wk'[x].idx = wk[x].idx
  PROVE  TaskInv'
<1>1. OneBatch'
  BY DEF TaskInv, OneBatch
<1>2. \A i : Held(cur, i) /\ cur' = cur => Held(cur, i)'
  BY DEF Held
<1>3. cur' # cur => DOMAIN Tasks' = {}
  BY DEF Tasks
<1>4. DownloadingHeld'
  BY <1>2, <1>3 DEF TaskInv, DownloadingHeld
<1>5. NotDone'
  BY <1>3 DEF TaskInv, NotDone
<1> QED BY <1>1, <1>4, <1>5 DEF TaskInv

LEMMA SameTaskInv ==
  ASSUME TaskInv, cur' \in {cur, 0}, UNCHANGED <<batches, wk>>,
         \A i \in DOMAIN Tasks : Handed(i)' => Handed(i) \/ Tasks[i].status # "done"
  PROVE  TaskInv'
<1>1. cur' = cur => Tasks' = Tasks
  BY DEF Tasks
<1>2. \A x \in EveryWorker : Holding(x)' <=> Holding(x)
  BY DEF Holding
<1> QED BY <1>1, <1>2, TaskInvKeeps

LEMMA WorkerTasks ==
  ASSUME Shape, ControlInv, CrewInv, TaskInv, NEW x \in EveryWorker, Worker(x)
  PROVE  TaskInv' /\ \A i \in DOMAIN Tasks : /\ i \in DOMAIN Tasks'
                                             /\ Tasks[i].status = "done" => Tasks'[i].status = "done"
<1>0. wk \in [EveryWorker -> WorkerRec] /\ x[1] \in Runs /\ run \in [Runs -> RunRec]
  BY DEF Shape, WorkersOK, RunOK, EveryWorker
<1>1. CASE Middle(x)
  <2>1. PICK t, w : Moved(x, t, w)
    BY <1>1, MiddleMoves
  <2>2. Holding(x) /\ UNCHANGED <<run, cur>>
    BY <1>1, MiddleMoves DEF control
  <2>3. PointStep(x, wk[x].gen, wk[x].idx, t, w) /\ t.status = TaskOf(x).status
    BY <2>1, <2>2, MovedPoint DEF Moved
  <2>4. /\ DOMAIN Tasks' = DOMAIN Tasks
        /\ \A i \in DOMAIN Tasks : Tasks'[i].status = Tasks[i].status
    <3>1. cur = wk[x].gen => TaskOf(x) = Tasks[wk[x].idx]
      <4>1. wk[x].gen # 0
        BY <2>2, TaskOfType DEF Shape, TasksOK
      <4> QED BY <4>1 DEF TaskOf, Tasks
    <3> QED BY <2>2, <2>3, <3>1, TasksAfter
  <2>5. /\ wk' = [wk EXCEPT ![x] = w] /\ w.pc \notin {"idle", "picked", "exit"}
        /\ w.gen = wk[x].gen /\ w.idx = wk[x].idx
    BY <2>1 DEF Moved, Attempt
  <2>6. \A y \in EveryWorker : /\ Holding(y)' <=> Holding(y)
                               /\ Taken(y)' <=> Taken(y)
                               /\ wk'[y].gen = wk[y].gen /\ wk'[y].idx = wk[y].idx
    BY <1>0, <2>2, <2>5 DEF Holding, Taken
  <2>7. \A i : Handed(i)' => Handed(i)
    BY <2>2, <2>6 DEF Handed
  <2> QED BY <2>2, <2>4, <2>6, <2>7, TaskInvKeeps
<1>2. CASE WorkerTake(x) \/ WorkerExit(x)
  <2>1. UNCHANGED <<batches, cur>> /\ wk[x].pc = "idle"
    BY <1>2, TakeFacts, ExitFacts DEF control
  <2>2. PICK w : /\ wk' = [wk EXCEPT ![x] = w]
                 /\ \/ w.pc = "exit"
                    \/ /\ w.pc = "picked" /\ run[x[1]].chan \in Seq(Nat) /\ run[x[1]].chan # <<>>
                       /\ w.idx = Head(run[x[1]].chan)
    <3>1. CASE WorkerTake(x)
      <4>0. run[x[1]] \in RunRec /\ run[x[1]].chan # <<>>
        BY <3>1, TakeFacts
      <4>1. run[x[1]].chan \in Seq(Nat) /\ run[x[1]].chan # <<>>
        BY <4>0 DEF RunRec
      <4> QED BY <3>1, <4>1, TakeFacts
    <3>2. CASE WorkerExit(x)
      BY <3>2, ExitFacts
    <3> QED BY <1>2, <3>1, <3>2
  <2>3. run' = run \/ (run' = [run EXCEPT ![x[1]].chan = Tail(run[x[1]].chan)]
                       /\ run[x[1]].chan \in Seq(Nat) /\ run[x[1]].chan # <<>>)
    BY <1>2, TakeFacts, ExitFacts DEF RunRec
  <2>4. Tasks' = Tasks
    BY <2>1 DEF Tasks
  <2>5. \A y \in EveryWorker : y # x => wk'[y] = wk[y] /\ (Taken(y)' <=> Taken(y))
    BY <1>0, <2>2 DEF Taken
  <2>6. ~Holding(x) /\ ~Holding(x)'
    BY <1>0, <2>1, <2>2 DEF Holding
  <2>7. ASSUME NEW i, Handed(i)'
        PROVE  Handed(i)
    <3>1. CASE \E r \in Runs : \E k \in DOMAIN run'[r].chan : run'[r].chan[k] = i
      <4>1. PICK r \in Runs : \E k \in DOMAIN run'[r].chan : run'[r].chan[k] = i
        BY <3>1
      <4>2. \/ run'[r].chan = run[r].chan
            \/ run'[r].chan = Tail(run[r].chan) /\ run[r].chan \in Seq(Nat) /\ run[r].chan # <<>>
        <5>1. CASE run' = run
          BY <5>1
        <5>2. CASE /\ run' = [run EXCEPT ![x[1]].chan = Tail(run[x[1]].chan)]
                   /\ run[x[1]].chan \in Seq(Nat) /\ run[x[1]].chan # <<>>
          <6>1. r # x[1] => run'[r] = run[r]
            BY <1>0, <5>2
          <6>2. r = x[1] => run'[r].chan = Tail(run[r].chan)
            BY <1>0, <5>2 DEF RunRec
          <6> QED BY <5>2, <6>1, <6>2
        <5> QED BY <2>3, <5>1, <5>2
      <4>3. ASSUME NEW s \in Seq(Nat), s # <<>>, NEW k \in DOMAIN Tail(s)
            PROVE  k + 1 \in DOMAIN s /\ s[k + 1] = Tail(s)[k]
        BY <4>3
      <4>4. \E k \in DOMAIN run[r].chan : run[r].chan[k] = i
        BY <4>1, <4>2, <4>3
      <4> QED BY <4>4 DEF Handed
    <3>2. CASE \E y \in EveryWorker : Taken(y)' /\ wk'[y].idx = i
      <4>1. PICK y \in EveryWorker : Taken(y)' /\ wk'[y].idx = i
        BY <3>2
      <4>2. CASE y # x
        BY <2>5, <4>1, <4>2 DEF Handed
      <4>3. CASE y = x
        <5>1. run[x[1]].chan \in Seq(Nat) /\ run[x[1]].chan # <<>> /\ i = Head(run[x[1]].chan)
          BY <1>0, <2>2, <4>1, <4>3 DEF Taken
        <5>2. 1 \in DOMAIN run[x[1]].chan /\ run[x[1]].chan[1] = i
          BY <5>1
        <5> QED BY <1>0, <5>2 DEF Handed
      <4> QED BY <4>2, <4>3
    <3> QED BY <2>7, <3>1, <3>2 DEF Handed
  <2>8. \A y \in EveryWorker : /\ Holding(y)' <=> Holding(y)
                               /\ Holding(y) => wk'[y] = wk[y]
    BY <2>5, <2>6 DEF Holding
  <2> QED BY <2>1, <2>4, <2>7, <2>8, TaskInvKeeps
<1>3. CASE WorkerPanic(x)
  <2>1. UNCHANGED <<batches, cur, run, wk>>
    BY <1>3 DEF WorkerPanic, control
  <2>2. Tasks' = Tasks /\ \A i : Handed(i)' => Handed(i)
    BY <2>1 DEF Tasks, Handed, Taken
  <2> QED BY <2>1, <2>2, SameTaskInv
<1>4. CASE WorkerMark(x)
  <2> DEFINE i == wk[x].idx
  <2>1. /\ Taken(x) /\ UNCHANGED <<run, cur>> /\ cur # 0
        /\ cur \in DOMAIN batches /\ i \in DOMAIN batches[cur] /\ Tasks = batches[cur]
    BY <1>4, MarkFacts DEF control, Taken, Tasks
  <2>2. PICK w \in WorkerRec : /\ wk' = [wk EXCEPT ![x] = w]
                               /\ w.pc = "begin" /\ w.gen = cur /\ w.idx = i
    BY <1>4, MarkFacts
  <2>3. PICK t \in Task : /\ batches' = [batches EXCEPT ![cur][i] = t]
                          /\ t.video = batches[cur][i].video /\ t.status = "downloading"
    BY <1>4, MarkFacts
  <2>4. PointStep(x, cur, i, t, w)
    BY <2>1, <2>2, <2>3 DEF PointStep
  <2>5. /\ DOMAIN Tasks' = DOMAIN Tasks
        /\ \A j \in DOMAIN Tasks : Tasks'[j] = IF j = i THEN t ELSE Tasks[j]
    BY <2>1, <2>4, TasksAfter
  <2>6. \A y \in EveryWorker : y # x =>
          wk'[y] = wk[y] /\ (Taken(y)' <=> Taken(y)) /\ (Holding(y)' <=> Holding(y))
    BY <1>0, <2>2 DEF Taken, Holding
  <2>7. wk'[x] = w /\ Taken(x)' /\ Holding(x)'
    BY <1>0, <2>2 DEF Taken, Holding
  <2>8. \A j : Handed(j)' => Handed(j)
    BY <2>1, <2>2, <2>6, <2>7 DEF Handed
  <2>9. Handed(i)
    BY <2>1 DEF Handed
  <2>10. OneBatch'
    <3>1. \A y \in EveryWorker : Holding(y)' => wk'[y].gen = cur
      BY <2>1, <2>2, <2>6, <2>7 DEF TaskInv, OneBatch
    <3> QED BY <2>1, <3>1 DEF OneBatch
  <2>11. DownloadingHeld'
    <3>1. ASSUME NEW j \in DOMAIN Tasks, Tasks'[j].status = "downloading"
          PROVE  \E y \in EveryWorker : Holding(y)' /\ wk'[y].gen = cur /\ wk'[y].idx = j
      <4>1. CASE j = i
        BY <2>2, <2>7, <4>1
      <4>2. CASE j # i
        <5>1. Held(cur, j)
          BY <2>5, <3>1, <4>2 DEF TaskInv, DownloadingHeld
        <5>2. PICK y \in EveryWorker : Holding(y) /\ wk[y].gen = cur /\ wk[y].idx = j
          BY <5>1 DEF Held
        <5> QED BY <2>6, <4>2, <5>2
      <4> QED BY <4>1, <4>2
    <3> QED BY <2>1, <2>5, <3>1 DEF DownloadingHeld, Held
  <2>12. NotDone'
    BY <2>3, <2>5, <2>8 DEF TaskInv, NotDone
  <2>13. Tasks[i].status # "done"
    BY <2>1, <2>9 DEF TaskInv, NotDone
  <2> QED BY <2>5, <2>10, <2>11, <2>12, <2>13 DEF TaskInv
<1>5. CASE WorkerSettle(x)
  <2>0. PICK i : i = wk[x].idx
    OBVIOUS
  <2>1. Holding(x) /\ Taken(x) /\ UNCHANGED <<run, cur>> /\ wk' = [wk EXCEPT ![x] = FreeWorker]
    BY <1>5, SettleFacts DEF control, Taken, Holding
  <2>2. PICK t \in Task : /\ batches' = [batches EXCEPT ![wk[x].gen][wk[x].idx] = t]
                          /\ t.video = TaskOf(x).video /\ t.status # "downloading"
    BY <1>5, SettleFacts
  <2>3. PointStep(x, wk[x].gen, i, t, FreeWorker)
    BY <2>1, <2>2, <2>0, TaskOfType, FreeWorkerOK DEF PointStep, TaskOf, Loose, FreeWorker
  <2>4. /\ DOMAIN Tasks' = DOMAIN Tasks
        /\ \A j \in DOMAIN Tasks : Tasks'[j] = IF wk[x].gen = cur /\ j = i THEN t ELSE Tasks[j]
    BY <2>1, <2>3, TasksAfter
  <2>5. \A y \in EveryWorker : y # x =>
          wk'[y] = wk[y] /\ (Taken(y)' <=> Taken(y)) /\ (Holding(y)' <=> Holding(y))
    BY <1>0, <2>1 DEF Taken, Holding
  <2>6. ~Taken(x)' /\ ~Holding(x)'
    BY <1>0, <2>1 DEF Taken, Holding, FreeWorker
  <2>7. ASSUME NEW j, Handed(j)'
        PROVE  \/ \E r \in Runs : \E k \in DOMAIN run[r].chan : run[r].chan[k] = j
               \/ \E y \in EveryWorker : y # x /\ Taken(y) /\ wk[y].idx = j
    BY <2>1, <2>5, <2>6, <2>7 DEF Handed
  <2>8. (\A j : Handed(j)' => Handed(j)) /\ ~Handed(i)'
    <3>1. \A j : Handed(j)' => Handed(j)
      BY <2>7 DEF Handed
    <3>2. ~Handed(i)'
      BY <2>0, <2>1, <2>7, Alone
    <3> QED BY <3>1, <3>2
  <2>9. OneBatch'
    BY <2>1, <2>5, <2>6 DEF TaskInv, OneBatch
  <2>10. DownloadingHeld'
    <3>1. ASSUME NEW j \in DOMAIN Tasks, Tasks'[j].status = "downloading"
          PROVE  \E y \in EveryWorker : Holding(y)' /\ wk'[y].gen = cur /\ wk'[y].idx = j
      <4>1. ~(wk[x].gen = cur /\ j = i) /\ Tasks[j].status = "downloading"
        BY <2>2, <2>4, <3>1
      <4>2. PICK y \in EveryWorker : Holding(y) /\ wk[y].gen = cur /\ wk[y].idx = j
        BY <4>1 DEF TaskInv, DownloadingHeld, Held
      <4>3. y # x
        BY <2>0, <4>1, <4>2
      <4> QED BY <2>5, <4>2, <4>3
    <3> QED BY <2>1, <2>4, <3>1 DEF DownloadingHeld, Held
  <2>11. NotDone'
    BY <2>2, <2>4, <2>8 DEF TaskInv, NotDone
  <2>12. ASSUME NEW j \in DOMAIN Tasks, Tasks[j].status = "done"
         PROVE  Tasks'[j].status = "done"
    <3>1. Handed(i)
      BY <2>0, <2>1 DEF Handed
    <3>2. j # i
      BY <2>12, <3>1 DEF TaskInv, NotDone
    <3> QED BY <2>4, <2>12, <3>2
  <2> QED BY <2>4, <2>9, <2>10, <2>11, <2>12 DEF TaskInv
<1> QED BY <1>1, <1>2, <1>3, <1>4, <1>5 DEF Worker, Middle

LEMMA RunnerTasks ==
  ASSUME Shape, TaskInv, NEW r \in Runs, Runner(r)
  PROVE  TaskInv' /\ Tasks' = Tasks
<1>1. UNCHANGED <<batches, cur, wk>>
  BY DEF Runner, RunnerBegin, RunnerSetup, DispatchPanic, DispatchSkip, DispatchSend,
         DispatchStop, DispatchEnd, RunnerWait, RunnerFinish, control
<1>2. Tasks' = Tasks
  BY <1>1 DEF Tasks
<1>3. run \in [Runs -> RunRec] /\ run[r] \in RunRec
  BY DEF Shape, RunOK
<1>4. \/ \A s \in Runs : run'[s].chan = run[s].chan \/ run'[s].chan = <<>>
      \/ /\ \A s \in Runs : s # r => run'[s].chan = run[s].chan
         /\ run'[r].chan = Append(run[r].chan, run[r].next)
         /\ Tasks[run[r].next].status = "pending"
  <2>1. CASE DispatchSend(r)
    BY <1>3, <2>1 DEF DispatchSend, RunRec
  <2>2. CASE RunnerFinish(r)
    BY <1>3, <2>2 DEF RunnerFinish, NewRun
  <2>3. CASE RunnerSetup(r) \/ DispatchSkip(r)
    <3>1. ASSUME NEW s \in Runs
          PROVE  run'[s].chan = run[s].chan
      <4>1. s # r => run'[s] = run[s]
        BY <1>3, <2>3 DEF RunnerSetup, DispatchSkip
      <4>2. run'[r].chan = run[r].chan
        BY <1>3, <2>3 DEF RunnerSetup, DispatchSkip, RunRec
      <4> QED BY <4>1, <4>2
    <3> QED BY <3>1
  <2>4. CASE RunnerBegin(r) \/ DispatchPanic(r) \/ DispatchStop(r) \/ DispatchEnd(r) \/ RunnerWait(r)
    <3>1. run' = run
      BY <2>4 DEF RunnerBegin, DispatchPanic, DispatchStop, DispatchEnd, RunnerWait
    <3> QED BY <3>1
  <2> QED BY <2>1, <2>2, <2>3, <2>4 DEF Runner
<1>5. ASSUME NEW i, Handed(i)'
      PROVE  Handed(i) \/ Tasks[i].status # "done"
  <2>1. CASE \E x \in EveryWorker : Taken(x)' /\ wk'[x].idx = i
    BY <1>1, <2>1 DEF Handed, Taken
  <2>2. CASE \E s \in Runs : \E k \in DOMAIN run'[s].chan : run'[s].chan[k] = i
    <3>1. PICK s \in Runs : \E k \in DOMAIN run'[s].chan : run'[s].chan[k] = i
      BY <2>2
    <3>2. CASE run'[s].chan \in {run[s].chan, <<>>}
      BY <3>1, <3>2 DEF Handed
    <3>3. CASE /\ s = r /\ run'[r].chan = Append(run[r].chan, run[r].next)
               /\ Tasks[run[r].next].status = "pending"
      <4>1. run[r].chan \in Seq(Nat) /\ run[r].next \in Nat
        BY <1>3 DEF RunRec
      <4>2. i = run[r].next \/ \E k \in DOMAIN run[r].chan : run[r].chan[k] = i
        BY <3>1, <3>3, <4>1, AppendFacts
      <4> QED BY <3>3, <4>2 DEF Handed
    <3> QED BY <1>4, <3>2, <3>3
  <2> QED BY <1>5, <2>1, <2>2 DEF Handed
<1> QED BY <1>1, <1>2, <1>5, SameTaskInv

LEMMA InstallTasks ==
  ASSUME Shape, ControlInv, CrewInv, NEW c \in Clients, StartInstall(c)
  PROVE  TaskInv'
<1>1. ActiveRuns = {}
  BY DEF StartInstall, ControlInv, StartAlone
<1>2. (\A x \in EveryWorker : ~Holding(x) /\ ~Taken(x)) /\ wk' = wk
  BY <1>1, QuietHands DEF StartInstall
<1>3. \A x \in EveryWorker : ~Holding(x)' /\ ~Taken(x)'
  BY <1>2 DEF Holding, Taken
<1>4. cur' # 0 /\ Tasks' = batches'[cur'] /\ DOMAIN Tasks' = DOMAIN req[c].list
  <2>1. cur' = Len(batches) + 1 /\ Len(batches) \in Nat
    BY InstallFacts DEF Shape, TasksOK
  <2>2. cur' # 0
    BY <2>1
  <2> QED BY <2>2, InstallFacts DEF Tasks
<1>5. \A i \in DOMAIN Tasks' : Tasks'[i].status = "pending"
  <2>1. \A i \in DOMAIN req[c].list : Tasks'[i] = NewTask(req[c].list[i])
    BY <1>4, InstallFacts
  <2>2. \A v : NewTask(v).status = "pending"
    BY DEF NewTask
  <2> QED BY <1>4, <2>1, <2>2
<1> QED BY <1>3, <1>5 DEF TaskInv, OneBatch, DownloadingHeld, NotDone

\* What batch_cancel does to the tasks of the batch.
LEMMA CancelTasks ==
  ASSUME Shape, NEW c \in Clients, CancelLock(c)
  PROVE  /\ DOMAIN Tasks' = DOMAIN Tasks
         /\ \A i \in DOMAIN Tasks :
              /\ Tasks[i] \in Task
              /\ \/ Tasks'[i] = Tasks[i]
                 \/ Tasks[i].status = "downloading" /\ Tasks'[i] = [Tasks[i] EXCEPT !.status = "pending"]
<1>0. cur' = cur
  BY DEF CancelLock
<1>1. CASE cur = 0
  BY <1>0, <1>1 DEF Tasks
<1>2. CASE cur # 0
  <2>1. cur \in DOMAIN batches /\ Tasks = batches[cur] /\ Tasks' = batches'[cur]
    BY <1>0, <1>2, CurFacts DEF Tasks
  <2> QED BY <2>1, CancelFacts, TaskType
<1> QED BY <1>1, <1>2

LEMMA RequestTasks ==
  ASSUME Shape, ControlInv, CrewInv, TaskInv, NEW c \in Clients, Request(c)
  PROVE  /\ TaskInv'
         /\ cur' = cur => \A i \in DOMAIN Tasks :
              i \in DOMAIN Tasks' /\ (Tasks[i].status = "done" => Tasks'[i].status = "done")
<1>1. CASE CancelLock(c)
  <2>1. UNCHANGED <<cur, run, wk>>
    BY <1>1 DEF CancelLock
  <2>2. \A i : Handed(i)' => Handed(i)
    BY <2>1 DEF Handed, Taken
  <2>3. /\ DOMAIN Tasks' = DOMAIN Tasks
        /\ \A i \in DOMAIN Tasks :
             \/ Tasks'[i] = Tasks[i]
             \/ Tasks[i].status = "downloading" /\ Tasks'[i].status = "pending"
    <3>1. \A u \in Task : [u EXCEPT !.status = "pending"].status = "pending"
      BY DEF Task
    <3> QED BY <1>1, <3>1, CancelTasks
  <2>4. TaskInv'
    BY <2>1, <2>2, <2>3, TaskInvKeeps DEF Holding
  <2> QED BY <2>3, <2>4
<1>2. CASE StartInstall(c)
  <2>1. cur' # cur
    BY <1>2, InstallFacts DEF Shape, TasksOK
  <2> QED BY <1>2, <2>1, InstallTasks
<1>3. ASSUME UNCHANGED <<batches, wk>>, cur' \in {cur, 0},
             \A r \in Runs : run'[r].chan = run[r].chan
      PROVE  TaskInv' /\ (cur' = cur => Tasks' = Tasks)
  <2>1. \A i : Handed(i)' => Handed(i)
    BY <1>3 DEF Handed, Taken
  <2> QED BY <1>3, <2>1, SameTaskInv DEF Tasks
<1>4. CASE Resume(c)
  <2>1. UNCHANGED <<batches, cur, wk>> /\ \E force \in Forces : Spawn(force)
    BY <1>4 DEF Resume
  <2>2. PICK r \in Runs, force \in Forces : run' = [run EXCEPT ![r].force = force]
    BY <2>1 DEF Spawn
  <2>3. \A s \in Runs : run'[s].chan = run[s].chan
    BY <2>2 DEF Shape, RunOK, RunRec
  <2> QED BY <1>3, <2>1, <2>3
<1>5. CASE StartCheck(c) \/ StartClean(c) \/ CancelPause(c) \/ CancelCtx(c) \/ ClearLock(c)
           \/ ClearCancel(c) \/ ClearWait(c) \/ ClearDrop(c) \/ ClearClean(c)
  <2>1. UNCHANGED <<batches, wk, run>> /\ cur' \in {cur, 0}
    BY <1>5 DEF StartCheck, StartClean, CancelPause, CancelCtx, ClearLock, ClearCancel,
         ClearWait, ClearDrop, ClearClean, control
  <2> QED BY <1>3, <2>1
<1> QED BY <1>1, <1>2, <1>4, <1>5 DEF Request

LEMMA StepTasks ==
  ASSUME Shape, ControlInv, CrewInv, TaskInv, [Next]_vars
  PROVE  /\ TaskInv'
         /\ cur' = cur => \A i \in DOMAIN Tasks :
              Tasks[i].status = "done" => Tasks'[i].status = "done"
<1>1. CASE UNCHANGED vars \/ \E e \in Transfers : Alive /\ EngineEnds(e)
  <2>1. UNCHANGED <<batches, cur, run, wk>>
    BY <1>1 DEF EngineEnds, control, vars
  <2>2. Tasks' = Tasks /\ \A i : Handed(i)' => Handed(i)
    BY <2>1 DEF Tasks, Handed, Taken
  <2> QED BY <2>1, <2>2, SameTaskInv
<1>2. ASSUME NEW c \in Clients, Request(c)
      PROVE  /\ TaskInv'
             /\ cur' = cur => \A i \in DOMAIN Tasks :
                  Tasks[i].status = "done" => Tasks'[i].status = "done"
  BY <1>2, RequestTasks
<1>3. ASSUME NEW r \in Runs, Runner(r)
      PROVE  TaskInv' /\ Tasks' = Tasks
  BY <1>3, RunnerTasks
<1>4. ASSUME NEW x \in EveryWorker, Worker(x)
      PROVE  /\ TaskInv'
             /\ \A i \in DOMAIN Tasks : Tasks[i].status = "done" => Tasks'[i].status = "done"
  BY <1>4, WorkerTasks
<1> QED BY <1>1, <1>2, <1>3, <1>4 DEF Next, EveryWorker

LEMMA InitTasks == Init => TaskInv /\ RunningRuns
BY DEF Init, TaskInv, OneBatch, DownloadingHeld, NotDone, RunningRuns, Tasks, Holding, FreeWorker,
       EveryWorker

LEMMA StepRunning ==
  ASSUME Shape, ControlInv, RunningRuns, [Next]_vars
  PROVE  RunningRuns'
<1>0. runPc \in [Runs -> RunPcs]
  BY DEF Shape, ControlOK
<1>1. ASSUME ActiveRuns' = ActiveRuns \/ ActiveRuns \subseteq ActiveRuns', running' => running
      PROVE  RunningRuns'
  BY <1>1 DEF RunningRuns
<1>2. ASSUME NEW c \in Clients, Request(c)
      PROVE  RunningRuns'
  <2>1. CASE StartInstall(c) \/ Resume(c)
    <3>1. \E force : Spawn(force)
      BY <2>1 DEF StartInstall, Resume
    <3>2. PICK r \in Runs : runPc' = [runPc EXCEPT ![r] = "spawned"]
      BY <3>1 DEF Spawn
    <3>3. r \in ActiveRuns'
      BY <1>0, <3>2 DEF ActiveRuns
    <3> QED BY <3>3 DEF RunningRuns
  <2>2. CASE CancelLock(c) \/ CancelPause(c) \/ CancelCtx(c) \/ StartCheck(c) \/ StartClean(c)
             \/ ClearLock(c) \/ ClearCancel(c) \/ ClearWait(c) \/ ClearDrop(c) \/ ClearClean(c)
    <3>0. running \in BOOLEAN
      BY DEF Shape, ControlOK
    <3>1. runPc' = runPc /\ (running' => running)
      BY <2>2, <3>0 DEF CancelLock, CancelPause, CancelCtx, StartCheck, StartClean, ClearLock,
           ClearCancel, ClearWait, ClearDrop, ClearClean, control
    <3> QED BY <1>1, <3>1 DEF ActiveRuns
  <2> QED BY <1>2, <2>1, <2>2 DEF Request
<1>3. ASSUME NEW r \in Runs, Runner(r)
      PROVE  RunningRuns'
  <2>1. CASE RunnerFinish(r)
    BY <2>1 DEF RunnerFinish, RunningRuns
  <2>2. CASE ~RunnerFinish(r)
    <3>1. running' = running /\ ActiveRuns \subseteq ActiveRuns'
      BY <1>0, <1>3, <2>2 DEF Runner, RunnerBegin, RunnerSetup, DispatchPanic, DispatchSkip,
         DispatchSend, DispatchStop, DispatchEnd, RunnerWait, control, ActiveRuns
    <3> QED BY <1>1, <3>1
  <2> QED BY <2>1, <2>2
<1>4. ASSUME NEW x \in EveryWorker, Worker(x)
      PROVE  UNCHANGED control
  <2>1. CASE Middle(x)
    BY <2>1, MiddleMoves
  <2>2. CASE ~Middle(x)
    BY <1>4, <2>2, TakeFacts, ExitFacts, MarkFacts, SettleFacts DEF Worker, Middle, WorkerPanic
  <2> QED BY <2>1, <2>2
<1>5. ASSUME UNCHANGED control
      PROVE  RunningRuns'
  BY <1>5, <1>1 DEF control, ActiveRuns
<1>6. CASE UNCHANGED vars \/ \E e \in Transfers : Alive /\ EngineEnds(e)
  BY <1>5, <1>6 DEF EngineEnds, vars
<1> QED BY <1>2, <1>3, <1>4, <1>5, <1>6 DEF Next, EveryWorker

CoreInv == Shape /\ ControlInv /\ CrewInv /\ TaskInv /\ RunningRuns

LEMMA InitCore == Init => CoreInv
BY InitShape, InitControlInv, InitCrew, InitTasks DEF CoreInv

LEMMA StepCore ==
  ASSUME SerialClients
  PROVE  CoreInv /\ [Next]_vars => CoreInv'
BY StepShape, NextControlInv, StepCrew, StepTasks, StepRunning DEF CoreInv

\* With no run left the handler says so and no task is still "downloading": a
\* worker writes its result (the Lock at the end of its loop) before wg.Wait
\* lets the run go, whatever a cancel did to the status in between.
THEOREM QuietSettled ==
  ASSUME SerialClients
  PROVE  Spec => []QuietMeansSettled
<1>1. CoreInv => QuietMeansSettled
  <2> SUFFICES ASSUME CoreInv, ActiveRuns = {}
               PROVE  /\ cancelFunc = NoRun /\ ~running
                      /\ \A i \in DOMAIN Tasks : Tasks[i].status # "downloading"
    BY DEF QuietMeansSettled
  <2>1. cancelFunc = NoRun
    BY DEF CoreInv, ControlInv, ControlType, BusyWhileActive, ActiveRuns, Begun
  <2>2. ~running
    BY DEF CoreInv, RunningRuns
  <2>3. \A x \in EveryWorker : ~Holding(x)
    BY QuietHands DEF CoreInv
  <2>4. \A i \in DOMAIN Tasks : Tasks[i].status # "downloading"
    BY <2>3 DEF CoreInv, TaskInv, DownloadingHeld, Held
  <2> QED BY <2>1, <2>2, <2>4
<1> QED BY InitCore, StepCore, <1>1, PTL DEF Spec

\* No cancel, resume or worker takes a task out of "done": an index is handed
\* out once, and only for a task that is pending.
THEOREM FinishedStays ==
  ASSUME SerialClients
  PROVE  Spec => DoneIsFinal
<1>1. CoreInv /\ [Next]_vars =>
        (cur' = cur => \A i \in DOMAIN Tasks : Tasks[i].status = "done" => Tasks'[i].status = "done")
  BY StepTasks DEF CoreInv
<1> QED BY InitCore, StepCore, <1>1, PTL DEF Spec, DoneIsFinal

-----------------------------------------------------------------------------
(* What a worker knows of its task, with one run at a time.                *)

\* The same task, whatever its status.
Alike(t, u) == t.video = u.video /\ t.gid = u.gid /\ t.temp = u.temp /\ t.final = u.final

\* A step at the task of one worker leaves the others theirs.
LEMMA OthersTask ==
  ASSUME CoreInv, NEW x \in EveryWorker, Taken(x), NEW g, NEW t, NEW w,
         PointStep(x, g, wk[x].idx, t, w)
  PROVE  /\ \A y \in EveryWorker : y # x =>
              /\ wk'[y] = wk[y] /\ (Holding(y)' <=> Holding(y))
              /\ Holding(y) => TaskOf(y)' = TaskOf(y)
         /\ wk'[x] = w
         /\ Holding(x)' => TaskOf(x)' = t
<1>0. Shape /\ ControlInv /\ CrewInv
  BY DEF CoreInv
<1>1. PICK i : i = wk[x].idx /\ PointStep(x, g, i, t, w)
  OBVIOUS
<1>2. /\ \A h \in DOMAIN batches : \A j \in DOMAIN batches[h] :
           batches'[h][j] = IF h = g /\ j = i THEN t ELSE batches[h][j]
      /\ wk'[x] = w /\ \A y \in EveryWorker : y # x => wk'[y] = wk[y]
      /\ g \in DOMAIN batches /\ i \in DOMAIN batches[g]
  <2>1. g \in DOMAIN batches /\ i \in DOMAIN batches[g]
    BY <1>1 DEF PointStep
  <2> QED BY <1>0, <1>1, <2>1, PointFacts
<1>3. ASSUME NEW y \in EveryWorker, y # x, Holding(y)
      PROVE  TaskOf(y)' = TaskOf(y)
  <2>1. wk[y].gen \in DOMAIN batches /\ wk[y].idx \in DOMAIN batches[wk[y].gen]
    BY <1>0, <1>3, TaskOfType
  <2>2. wk[y].idx # i
    BY <1>0, <1>1, <1>3, Alone DEF Taken, Holding
  <2>3. wk'[y] = wk[y]
    BY <1>2, <1>3
  <2> QED BY <1>2, <2>1, <2>2, <2>3 DEF TaskOf
<1>4. ASSUME Holding(x)'
      PROVE  TaskOf(x)' = t
  <2>1. w.gen = g /\ w.idx = i
    BY <1>1, <1>2, <1>4 DEF PointStep, Holding, Loose
  <2> QED BY <1>2, <2>1 DEF TaskOf
<1> QED BY <1>2, <1>3, <1>4 DEF Holding

\* A step of the requests, the dispatchers or the engine: the workers keep
\* their locals and, but for its status, what they know of their tasks.
Outside == \/ \E c \in Clients : Request(c)
           \/ \E r \in Runs : Runner(r)
           \/ \E e \in Transfers : EngineEnds(e)
           \/ UNCHANGED vars

LEMMA OutsideFacts ==
  ASSUME Shape, Outside
  PROVE  /\ wk' = wk
         /\ \A y \in EveryWorker : Holding(y) => Alike(TaskOf(y)', TaskOf(y))
         /\ \A h \in DOMAIN batches' : \A j \in DOMAIN batches'[h] :
              \/ /\ h \in DOMAIN batches /\ j \in DOMAIN batches[h]
                 /\ DOMAIN batches'[h] = DOMAIN batches[h]
                 /\ Alike(batches'[h][j], batches[h][j])
              \/ \E c \in Clients : /\ StartInstall(c) /\ h = cur'
                                    /\ DOMAIN batches'[h] = DOMAIN req[c].list
                                    /\ batches'[h][j] = NewTask(req[c].list[j])
<1>0. batches \in Seq(Seq(Task)) /\ \A t : Alike(t, t)
  BY DEF Shape, TasksOK, Alike
<1>1. CASE UNCHANGED <<batches, wk>>
  BY <1>0, <1>1 DEF TaskOf
<1>2. ASSUME NEW c \in Clients, CancelLock(c)
      PROVE  /\ wk' = wk
             /\ DOMAIN batches' = DOMAIN batches
             /\ \A h \in DOMAIN batches : DOMAIN batches'[h] = DOMAIN batches[h]
             /\ \A h \in DOMAIN batches : \A j \in DOMAIN batches[h] :
                  Alike(batches'[h][j], batches[h][j])
  <2>1. wk' = wk
    BY <1>2 DEF CancelLock
  <2>2. \A u \in Task : Alike([u EXCEPT !.status = "pending"], u)
    BY DEF Alike, Task
  <2> QED BY <1>0, <1>2, <2>1, <2>2, CancelFacts, TaskType
<1>3. CASE \E c \in Clients : CancelLock(c)
  <2>1. PICK c \in Clients : CancelLock(c)
    BY <1>3
  <2>2. ASSUME NEW y \in EveryWorker, Holding(y)
        PROVE  Alike(TaskOf(y)', TaskOf(y))
    <3>1. wk[y].gen \in DOMAIN batches /\ wk[y].idx \in DOMAIN batches[wk[y].gen]
      BY <2>2, TaskOfType
    <3> QED BY <1>2, <2>1, <3>1 DEF TaskOf
  <2> QED BY <1>2, <2>1, <2>2
<1>4. CASE \E c \in Clients : StartInstall(c)
  <2>1. PICK c \in Clients : StartInstall(c)
    BY <1>4
  <2>2. wk' = wk
    BY <2>1 DEF StartInstall
  <2>3. ASSUME NEW y \in EveryWorker, Holding(y)
        PROVE  Alike(TaskOf(y)', TaskOf(y))
    <3>1. batches'[wk[y].gen] = batches[wk[y].gen]
      BY <2>1, <2>3, InstallFacts
    <3> QED BY <1>0, <2>2, <3>1 DEF TaskOf
  <2>4. ASSUME NEW h \in DOMAIN batches', NEW j \in DOMAIN batches'[h]
        PROVE  \/ /\ h \in DOMAIN batches /\ j \in DOMAIN batches[h]
                  /\ DOMAIN batches'[h] = DOMAIN batches[h]
                  /\ Alike(batches'[h][j], batches[h][j])
               \/ /\ h = cur' /\ DOMAIN batches'[h] = DOMAIN req[c].list
                  /\ batches'[h][j] = NewTask(req[c].list[j])
    <3>1. /\ batches' \in Seq(Seq(Task)) /\ Len(batches') = Len(batches) + 1
          /\ cur' = Len(batches) + 1
      BY <2>1, InstallFacts
    <3>2. CASE h \in DOMAIN batches
      <4>1. batches'[h] \in {batches[h], <<>>}
        BY <2>1, <3>2, InstallFacts
      <4>2. batches'[h] = batches[h]
        BY <4>1
      <4> QED BY <1>0, <3>2, <4>2
    <3>3. CASE h \notin DOMAIN batches
      <4>1. h = cur'
        BY <1>0, <3>1, <3>3
      <4> QED BY <2>1, <4>1, InstallFacts
    <3> QED BY <3>2, <3>3
  <2> QED BY <2>1, <2>2, <2>3, <2>4
<1>5. ASSUME NEW c \in Clients, Request(c), ~CancelLock(c), ~StartInstall(c)
      PROVE  UNCHANGED <<batches, wk>>
  BY <1>5 DEF Request, StartCheck, StartClean, CancelPause, CancelCtx, Resume, ClearLock, ClearCancel,
       ClearWait, ClearDrop, ClearClean
<1>6. ASSUME NEW r \in Runs, Runner(r)
      PROVE  UNCHANGED <<batches, wk>>
  BY <1>6 DEF Runner, RunnerBegin, RunnerSetup, DispatchPanic, DispatchSkip,
       DispatchSend, DispatchStop, DispatchEnd, RunnerWait, RunnerFinish
<1>7. ASSUME NEW e \in Transfers, EngineEnds(e)
      PROVE  UNCHANGED <<batches, wk>>
  BY <1>7 DEF EngineEnds
<1>8. ASSUME UNCHANGED vars
      PROVE  UNCHANGED <<batches, wk>>
  BY <1>8 DEF vars
<1> QED BY <1>1, <1>3, <1>4, <1>5, <1>6, <1>7, <1>8 DEF Outside

\* A step of the system is one of a worker or one outside.
LEMMA WorkerOrOutside ==
  ASSUME [Next]_vars
  PROVE  Outside \/ \E x \in EveryWorker : Worker(x)
BY DEF Next, Outside, EveryWorker

\* The worker steps that are not at a task: nobody begins to hold one.
LEMMA LooseFacts ==
  ASSUME Shape, NEW x \in EveryWorker, WorkerTake(x) \/ WorkerExit(x) \/ WorkerPanic(x)
  PROVE  /\ UNCHANGED <<batches, cur, running, cancelFunc, runPc, ctx, files, reqPc, req>>
         /\ \A y \in EveryWorker : /\ Holding(y)' <=> Holding(y)
                                   /\ Holding(y) => wk'[y] = wk[y] /\ TaskOf(y)' = TaskOf(y)
                                   /\ wk'[y].gid = wk[y].gid
<1>0. wk \in [EveryWorker -> WorkerRec] /\ \A y \in EveryWorker : PointerOK(wk[y])
  BY DEF Shape, WorkersOK
<1>1. CASE WorkerPanic(x)
  <2>1. UNCHANGED <<batches, control, files, reqPc, req, wk>>
    BY <1>1 DEF WorkerPanic
  <2> QED BY <2>1 DEF TaskOf, Holding, control
<1>2. ASSUME NEW w, wk' = [wk EXCEPT ![x] = w], w.gid = NoId, w.pc \in {"exit", "picked"},
             wk[x].pc = "idle", UNCHANGED <<batches, control, files, reqPc, req>>
      PROVE  /\ UNCHANGED <<batches, cur, running, cancelFunc, runPc, ctx, files, reqPc, req>>
             /\ \A y \in EveryWorker : /\ Holding(y)' <=> Holding(y)
                                       /\ Holding(y) => wk'[y] = wk[y] /\ TaskOf(y)' = TaskOf(y)
                                       /\ wk'[y].gid = wk[y].gid
  <2>1. wk[x].gid = NoId /\ wk'[x] = w /\ \A y \in EveryWorker : y # x => wk'[y] = wk[y]
    BY <1>0, <1>2 DEF PointerOK
  <2> QED BY <1>2, <2>1 DEF TaskOf, Holding, control
<1>3. CASE WorkerTake(x)
  <2>1. PICK w : /\ wk' = [wk EXCEPT ![x] = w] /\ w.gid = NoId /\ w.pc \in {"exit", "picked"}
    BY <1>3, TakeFacts
  <2>2. wk[x].pc = "idle" /\ UNCHANGED <<batches, control, files, reqPc, req>>
    BY <1>3, TakeFacts
  <2> QED BY <1>2, <2>1, <2>2
<1>4. CASE WorkerExit(x)
  <2>1. PICK w : /\ wk' = [wk EXCEPT ![x] = w] /\ w.gid = NoId /\ w.pc \in {"exit", "picked"}
    BY <1>4, ExitFacts
  <2>2. wk[x].pc = "idle" /\ UNCHANGED <<batches, control, files, reqPc, req>>
    BY <1>4, ExitFacts
  <2> QED BY <1>2, <2>1, <2>2
<1> QED BY <1>1, <1>3, <1>4

\* The steps at a task, in one form.
LEMMA MarkPoint ==
  ASSUME Shape, NEW x \in EveryWorker, WorkerMark(x)
  PROVE  /\ Taken(x) /\ ~Holding(x) /\ UNCHANGED <<control, run, files, reqPc, req, crashed>>
         /\ \E t, w : /\ PointStep(x, cur, wk[x].idx, t, w)
                      /\ Alike(t, batches[cur][wk[x].idx])
                      /\ w.pc = "begin" /\ w.gid = NoId /\ wk[x].gid = NoId
<1>1. /\ wk[x].pc = "picked" /\ UNCHANGED <<control, run, files, reqPc, req, crashed>>
      /\ cur \in DOMAIN batches /\ wk[x].idx \in DOMAIN batches[cur]
  BY MarkFacts
<1>2. PICK w \in WorkerRec : /\ wk' = [wk EXCEPT ![x] = w] /\ w.gid = NoId
                             /\ w.pc = "begin" /\ w.gen = cur /\ w.idx = wk[x].idx
  BY MarkFacts
<1>3. PICK t \in Task : /\ batches' = [batches EXCEPT ![cur][wk[x].idx] = t]
                        /\ Alike(t, batches[cur][wk[x].idx])
  BY MarkFacts DEF Alike
<1>4. PointStep(x, cur, wk[x].idx, t, w)
  BY <1>1, <1>2, <1>3 DEF PointStep, Alike
<1>5. wk[x].gid = NoId
  BY <1>1 DEF Shape, WorkersOK, PointerOK
<1> QED BY <1>1, <1>2, <1>3, <1>4, <1>5 DEF Taken, Holding

LEMMA SettlePoint ==
  ASSUME Shape, NEW x \in EveryWorker, WorkerSettle(x)
  PROVE  /\ Taken(x) /\ Holding(x) /\ wk[x].pc = "settle"
         /\ UNCHANGED <<control, run, files, reqPc, req, crashed>>
         /\ \E t : /\ PointStep(x, wk[x].gen, wk[x].idx, t, FreeWorker) /\ Alike(t, TaskOf(x))
         /\ wk[x].gid = NoId /\ ~Holding(x)'
<1>1. /\ Holding(x) /\ wk[x].pc = "settle" /\ UNCHANGED <<control, run, files, reqPc, req, crashed>>
      /\ wk' = [wk EXCEPT ![x] = FreeWorker]
  BY SettleFacts
<1>2. PICK t \in Task : /\ batches' = [batches EXCEPT ![wk[x].gen][wk[x].idx] = t]
                        /\ Alike(t, TaskOf(x))
  BY SettleFacts DEF Alike
<1>3. PointStep(x, wk[x].gen, wk[x].idx, t, FreeWorker)
  BY <1>1, <1>2, TaskOfType, FreeWorkerOK DEF PointStep, TaskOf, Loose, FreeWorker, Alike
<1>4. wk[x].gid = NoId /\ wk \in [EveryWorker -> WorkerRec]
  BY <1>1 DEF Shape, WorkersOK, PointerOK
<1>5. ~Holding(x)'
  BY <1>1, <1>4 DEF Holding, FreeWorker
<1> QED BY <1>1, <1>2, <1>3, <1>4, <1>5 DEF Taken, Holding

\* From its FinalPath to its transfer a worker is alone with a task that has none.
WorkOf(w, t) == /\ w.pc \in {"create", "created"} => t.gid = NoId
                /\ w.pc \in {"prepare", "create"} => t.temp \in TempPaths
WorkInv == /\ tmpFiles \subseteq TempPaths
           /\ \A x \in EveryWorker : Holding(x) => WorkOf(wk[x], TaskOf(x))

LEMMA PointWork ==
  ASSUME CoreInv, WorkInv, NEW x \in EveryWorker, Taken(x), NEW g, NEW t, NEW w,
         PointStep(x, g, wk[x].idx, t, w), WorkOf(w, t), tmpFiles' \subseteq TempPaths
  PROVE  WorkInv'
<1>1. ASSUME NEW y \in EveryWorker, Holding(y)'
      PROVE  WorkOf(wk[y], TaskOf(y))'
  <2>1. CASE y = x
    <3>1. Holding(x)'
      BY <1>1, <2>1
    <3>2. wk'[x] = w /\ TaskOf(x)' = t
      BY <3>1, OthersTask
    <3>3. WorkOf(wk[x], TaskOf(x))'
      BY <3>2 DEF WorkOf
    <3> QED BY <2>1, <3>3
  <2>2. CASE y # x
    <3>1. wk'[y] = wk[y] /\ TaskOf(y)' = TaskOf(y) /\ Holding(y)
      BY <1>1, <2>2, OthersTask
    <3> QED BY <3>1 DEF WorkInv, WorkOf
  <2> QED BY <2>1, <2>2
<1> QED BY <1>1 DEF WorkInv

LEMMA CleanFiles ==
  ASSUME NEW arts, Clean(arts)
  PROVE  tmpFiles' \subseteq tmpFiles
BY DEF Clean

LEMMA MiddleWork ==
  ASSUME CoreInv, WorkInv, NEW x \in EveryWorker, Middle(x)
  PROVE  WorkInv'
<1> DEFINE u == TaskOf(x)
<1>0. Shape /\ Holding(x) /\ Taken(x) /\ WorkOf(wk[x], u)
  BY MiddleMoves DEF CoreInv, WorkInv, Taken, Holding
<1>1. ASSUME NEW t, NEW w, Moved(x, t, w), WorkOf(w, t), tmpFiles' \subseteq TempPaths
      PROVE  WorkInv'
  <2>1. PointStep(x, wk[x].gen, wk[x].idx, t, w)
    BY <1>0, <1>1, MovedPoint
  <2> QED BY <1>0, <1>1, <2>1, PointWork
<1>2. ASSUME tmpFiles' = tmpFiles \/ Clean(ArtsOf(u)) \/ tmpFiles' = tmpFiles \ {u.temp}
      PROVE  tmpFiles' \subseteq TempPaths
  BY <1>2, CleanFiles DEF WorkInv
<1>3. CASE WorkerBegin(x)
  <2>1. PICK t, w : Moved(x, t, w) /\ w.pc \in {"try", "settle"}
    BY <1>0, <1>3, BeginMoves
  <2>2. tmpFiles' = tmpFiles
    BY <1>0, <1>3, BeginMoves DEF files
  <2> QED BY <1>1, <1>2, <2>1, <2>2 DEF WorkOf
<1>4. CASE WorkerTry(x)
  <2>1. PICK t, w : Moved(x, t, w) /\ (w.pc = "settle" \/ (w.pc = "prepare" /\ t.temp \in TempPaths))
    BY <1>0, <1>4, TryMoves
  <2>2. tmpFiles' = tmpFiles
    BY <1>0, <1>4, TryMoves DEF files
  <2> QED BY <1>1, <1>2, <2>1, <2>2 DEF WorkOf
<1>5. CASE WorkerPrepare(x)
  <2>0. wk[x].pc = "prepare"
    BY <1>0, <1>5, PrepareMoves
  <2>1. PICK t, w : /\ Moved(x, t, w) /\ t.temp = u.temp
                    /\ \/ w.pc \in {"wait", "try", "settle"}
                       \/ w.pc = "create" /\ t.gid = NoId
    BY <1>0, <1>5, PrepareMoves
  <2>2. tmpFiles' = tmpFiles \/ Clean(ArtsOf(u))
    BY <1>0, <1>5, PrepareMoves
  <2> QED BY <1>0, <1>1, <1>2, <2>0, <2>1, <2>2 DEF WorkOf
<1>6. CASE WorkerCreate(x)
  <2>0. wk[x].pc = "create"
    BY <1>0, <1>6, CreateMoves
  <2>1. PICK w : /\ Moved(x, u, w)
                 /\ w.pc \in {"try", "settle", "created"}
    BY <1>0, <1>6, CreateMoves
  <2>2. tmpFiles' = tmpFiles \ {u.temp} \/ tmpFiles' = tmpFiles \cup {u.temp}
    BY <1>0, <1>6, CreateMoves
  <2>3. u.gid = NoId /\ u.temp \in TempPaths
    BY <1>0, <2>0 DEF WorkOf
  <2> QED BY <1>1, <1>2, <2>1, <2>2, <2>3 DEF WorkOf, WorkInv
<1>7. CASE WorkerCreated(x)
  <2>1. PICK t, w : Moved(x, t, w) /\ w.pc = "wait"
    BY <1>0, <1>7, CreatedMoves
  <2>2. tmpFiles' = tmpFiles
    BY <1>0, <1>7, CreatedMoves DEF files
  <2> QED BY <1>1, <1>2, <2>1, <2>2 DEF WorkOf
<1>8. CASE WorkerWait(x)
  <2>1. PICK t, w : Moved(x, t, w) /\ w.pc \in {"try", "settle", "check"}
    BY <1>0, <1>8, WaitMoves
  <2>2. tmpFiles' = tmpFiles \/ Clean(ArtsOf(u))
    BY <1>0, <1>8, WaitMoves
  <2> QED BY <1>1, <1>2, <2>1, <2>2 DEF WorkOf
<1>9. CASE WorkerCheck(x)
  <2>1. PICK t, w : Moved(x, t, w) /\ w.pc \in {"move", "settle", "try"}
    BY <1>0, <1>9, CheckMoves
  <2>2. tmpFiles' = tmpFiles \/ Clean(ArtsOf(u))
    BY <1>0, <1>9, CheckMoves
  <2> QED BY <1>1, <1>2, <2>1, <2>2 DEF WorkOf
<1>10. CASE WorkerMove(x)
  <2>1. PICK t, w : Moved(x, t, w) /\ w.pc \in {"settle", "try"}
    BY <1>0, <1>10, MoveMoves
  <2>2. tmpFiles' = tmpFiles \ {u.temp} \/ Clean(ArtsOf(u))
    BY <1>0, <1>10, MoveMoves
  <2> QED BY <1>1, <1>2, <2>1, <2>2 DEF WorkOf
<1> QED BY <1>3, <1>4, <1>5, <1>6, <1>7, <1>8, <1>9, <1>10 DEF Middle

LEMMA StepWork ==
  ASSUME CoreInv, WorkInv, [Next]_vars
  PROVE  WorkInv'
<1>0. Shape
  BY DEF CoreInv
<1>1. CASE Outside
  <2>1. tmpFiles' \subseteq tmpFiles
    <3>1. ASSUME NEW c \in Clients, Request(c)
          PROVE  tmpFiles' \subseteq tmpFiles
      <4>1. CASE StartClean(c) \/ ClearClean(c)
        BY <4>1, CleanFiles DEF StartClean, ClearClean
      <4>2. CASE ~(StartClean(c) \/ ClearClean(c))
        BY <3>1, <4>2 DEF Request, StartCheck, StartInstall, CancelLock, CancelPause, CancelCtx, Resume,
             ClearLock, ClearCancel, ClearWait, ClearDrop, files
      <4> QED BY <4>1, <4>2
    <3>2. ASSUME NEW r \in Runs, Runner(r)
          PROVE  tmpFiles' \subseteq tmpFiles
      BY <3>2 DEF Runner, RunnerBegin, RunnerSetup, DispatchPanic, DispatchSkip,
           DispatchSend, DispatchStop, DispatchEnd, RunnerWait, RunnerFinish, files
    <3> QED BY <1>1, <3>1, <3>2 DEF Outside, EngineEnds, vars, files
  <2>2. ASSUME NEW y \in EveryWorker, Holding(y)'
        PROVE  WorkOf(wk[y], TaskOf(y))'
    <3>1. wk'[y] = wk[y] /\ Holding(y)
      BY <1>0, <1>1, <2>2, OutsideFacts DEF Holding
    <3>2. Alike(TaskOf(y)', TaskOf(y)) /\ WorkOf(wk[y], TaskOf(y))
      BY <1>0, <1>1, <3>1, OutsideFacts DEF WorkInv
    <3> QED BY <3>1, <3>2 DEF WorkOf, Alike
  <2> QED BY <2>1, <2>2 DEF WorkInv
<1>2. ASSUME NEW x \in EveryWorker, Worker(x)
      PROVE  WorkInv'
  <2>1. CASE WorkerTake(x) \/ WorkerExit(x) \/ WorkerPanic(x)
    <3>1. UNCHANGED files
      BY <1>0, <2>1, LooseFacts
    <3> QED BY <1>0, <2>1, <3>1, LooseFacts DEF WorkInv, WorkOf, files
  <2>2. CASE WorkerMark(x)
    <3>1. PICK t, w : PointStep(x, cur, wk[x].idx, t, w) /\ w.pc = "begin"
      BY <1>0, <2>2, MarkPoint
    <3>2. Taken(x) /\ tmpFiles' \subseteq TempPaths
      BY <1>0, <2>2, MarkPoint DEF files, WorkInv
    <3> QED BY <3>1, <3>2, PointWork DEF WorkOf
  <2>3. CASE WorkerSettle(x)
    <3>1. PICK t : PointStep(x, wk[x].gen, wk[x].idx, t, FreeWorker)
      BY <1>0, <2>3, SettlePoint
    <3>2. Taken(x) /\ tmpFiles' \subseteq TempPaths
      BY <1>0, <2>3, SettlePoint DEF files, WorkInv
    <3>3. WorkOf(FreeWorker, t)
      BY DEF WorkOf, FreeWorker
    <3> QED BY <3>1, <3>2, <3>3, PointWork
  <2>4. CASE Middle(x)
    BY <2>4, MiddleWork
  <2> QED BY <1>2, <2>1, <2>2, <2>3, <2>4 DEF Worker, Middle
<1> QED BY <1>1, <1>2, WorkerOrOutside

LEMMA InitWork == Init => WorkInv
BY DEF Init, WorkInv, Holding, FreeWorker, EveryWorker

\* The history names runs that are going on and artifacts.
HistoryOK == cut \subseteq ActiveRuns /\ strays \subseteq Arts

LEMMA StepHistory ==
  ASSUME Shape', HistoryOK, [Next]_vars
  PROVE  HistoryOK'
<1>1. CASE UNCHANGED vars
  BY <1>1 DEF HistoryOK, ActiveRuns, vars, control, history
<1>2. CASE Next
  <2>1. ASSUME NEW x \in EveryWorker, At(x, "created")'
        PROVE  [gid |-> wk'[x].gid, temp |-> (TaskOf(x)').temp] \in Arts
    <3>1. wk'[x] \in WorkerRec /\ PointerOK(wk[x])'
      BY DEF Shape, WorkersOK
    <3>2. wk'[x].gen \in DOMAIN batches' /\ wk'[x].idx \in DOMAIN batches'[wk'[x].gen]
      BY <2>1, <3>1 DEF PointerOK, At
    <3>3. batches' \in Seq(Seq(Task))
      BY DEF Shape, TasksOK
    <3>4. batches'[wk'[x].gen][wk'[x].idx] \in Task
      BY <3>2, <3>3, Element
    <3>5. wk'[x].gid \in Transfers \cup {NoId} /\ (TaskOf(x)').temp \in TempPaths \cup {NoPath}
      BY <3>1, <3>4 DEF TaskOf, Task, WorkerRec
    <3> QED BY <3>5 DEF Arts
  <2>2. Remember
    BY <1>2 DEF Next
  <2>3. strays' \subseteq Arts
    BY <2>1, <2>2 DEF Remember, HistoryOK, EveryWorker
  <2> QED BY <2>2, <2>3 DEF Remember, HistoryOK
<1> QED BY <1>1, <1>2

SafeInv == CoreInv /\ WorkInv /\ HistoryOK

LEMMA InitSafe == Init => SafeInv
<1>1. Init => HistoryOK
  BY DEF Init, HistoryOK
<1> QED BY <1>1, InitCore, InitWork DEF SafeInv

LEMMA StepSafe ==
  ASSUME SerialClients
  PROVE  SafeInv /\ [Next]_vars => SafeInv'
<1>1. CoreInv /\ [Next]_vars => Shape'
  BY StepShape DEF CoreInv
<1> QED BY <1>1, StepCore, StepWork, StepHistory DEF SafeInv

\* Every variable keeps its type: in particular createTask is never called with
\* an empty TempPath.
THEOREM TypesHold ==
  ASSUME SerialClients
  PROVE  Spec => []TypeOK
<1>1. SafeInv => TypeOK
  <2> SUFFICES ASSUME SafeInv PROVE TypeOK
    OBVIOUS
  <2>0. Shape /\ tmpFiles \subseteq TempPaths
    BY DEF SafeInv, CoreInv, WorkInv
  <2>1. run \in [Runs -> [force: BOOLEAN, len: Nat, next: Nat, sent: Nat, chan: Seq(Nat)]]
    <3>1. RunRec \subseteq [force: BOOLEAN, len: Nat, next: Nat, sent: Nat, chan: Seq(Nat)]
      BY DEF RunRec
    <3> QED BY <2>0, <3>1 DEF Shape, RunOK
  <2>2. wk \in [Runs \X Workers ->
       [pc: WorkerPcs, gen: Nat, idx: Nat, try: 0..MaxRetries, gid: Transfers \cup {NoId},
        dest: Paths \cup {NoPath}, result: {"none", "ok", "failed", "paused"}]]
    BY <2>0 DEF Shape, WorkersOK, WorkerRec, EveryWorker
  <2>3. /\ batches \in Seq(Seq(Task)) /\ cur \in 0..Len(batches)
        /\ resumable \in BOOLEAN /\ running \in BOOLEAN /\ crashed \in BOOLEAN
        /\ cancelFunc \in Runs \cup {NoRun}
        /\ runPc \in [Runs -> RunPcs] /\ ctx \in [Runs -> {"live", "cancelled"}]
    BY <2>0 DEF Shape, TasksOK, ControlOK
  <2>4. /\ reqPc \in [Clients -> ReqPcs]
        /\ req \in [Clients -> [list: Lists \cup {<<>>}, force: BOOLEAN,
                                stop: Runs \cup {NoRun}, left: SUBSET Arts]]
    BY <2>0 DEF Shape, ReqOK, ReqRec
  <2>5. /\ engine \in [Transfers -> [st: {"unused", "running", "pause", "done", "error", "gone"},
                                     temp: TempPaths \cup {NoPath}]]
        /\ disk \subseteq Paths \X Videos /\ records \in [Videos -> Paths \cup {NoPath}]
    BY <2>0 DEF Shape, FilesOK, EngineRec
  <2>6. cut \subseteq Runs /\ strays \subseteq Arts
    BY DEF SafeInv, HistoryOK, ActiveRuns
  <2> QED BY <2>0, <2>1, <2>2, <2>3, <2>4, <2>5, <2>6 DEF TypeOK
<1> QED BY InitSafe, StepSafe, <1>1, PTL DEF Spec

-----------------------------------------------------------------------------
(* What batch_cancel and batch_clear wait for.                             *)

\* Runs become active only by a batch_start or a batch_resume.
LEMMA ActiveShrinks ==
  ASSUME ControlInv, [Next]_vars, \A c \in Clients : ~StartInstall(c) /\ ~Resume(c)
  PROVE  ActiveRuns' \subseteq ActiveRuns
<1>1. CASE runPc' = runPc
  BY <1>1 DEF ActiveRuns
<1>2. ASSUME NEW r \in Runs, Runner(r)
      PROVE  ActiveRuns' \subseteq ActiveRuns
  <2>1. runPc \in [Runs -> RunPcs]
    BY DEF ControlInv, ControlType
  <2>2. CASE runPc' = runPc
    BY <2>2, <1>1
  <2>3. CASE runPc' # runPc
    <3>1. runPc[r] \notin {"none", "done"}
      BY <1>2, <2>3 DEF Runner, RunnerBegin, RunnerSetup, Dispatching, DispatchPanic, DispatchSkip,
         DispatchSend, DispatchStop, DispatchEnd, RunnerWait, RunnerFinish, control
    <3>2. \A s \in Runs : s # r => runPc'[s] = runPc[s]
      BY <1>2, <2>1, <2>3 DEF Runner, RunnerBegin, RunnerSetup, DispatchPanic, DispatchSkip,
         DispatchSend, DispatchStop, DispatchEnd, RunnerWait, RunnerFinish, control
    <3> QED BY <3>1, <3>2 DEF ActiveRuns
  <2> QED BY <2>2, <2>3
<1>3. ASSUME NEW c \in Clients, Request(c)
      PROVE  runPc' = runPc
  BY <1>3 DEF Request, StartCheck, StartClean, CancelLock, CancelPause, CancelCtx,
     ClearLock, ClearCancel, ClearWait, ClearDrop, ClearClean, control
<1>4. ASSUME NEW x \in EveryWorker, Worker(x)
      PROVE  runPc' = runPc
  BY <1>4 DEF Worker, WorkerTake, WorkerExit, WorkerMark, WorkerPanic, WorkerBegin, WorkerTry,
     WorkerPrepare, WorkerCreate, WorkerCreated, WorkerWait, WorkerCheck, WorkerMove,
     WorkerSettle, control
<1>5. CASE UNCHANGED vars
  BY <1>1, <1>5 DEF vars, control
<1>6. ASSUME NEW e \in Transfers, EngineEnds(e)
      PROVE  runPc' = runPc
  BY <1>6 DEF EngineEnds, control
<1> QED BY <1>1, <1>2, <1>3, <1>4, <1>5, <1>6 DEF Next, EveryWorker

\* The history keeps the runs it names as long as they are going on.
CutKept == cut \cap ActiveRuns' \subseteq cut'

LEMMA CutKeeps ==
  ASSUME [Next]_vars
  PROVE  CutKept
BY DEF CutKept, Next, Remember, vars, history

\* A request that finds cancelFunc set has in it the run there is; one that
\* finds none comes before the run's first step.
LEMMA StopNamesRun ==
  ASSUME ControlInv
  PROVE  /\ cancelFunc # NoRun => ActiveRuns \subseteq {cancelFunc}
         /\ cancelFunc = NoRun => \A r \in ActiveRuns : runPc[r] = "spawned"
<1>1. cancelFunc # NoRun => cancelFunc \in ActiveRuns
  BY DEF ControlInv, ControlType, BusyWhileActive, Begun, ActiveRuns
<1>2. cancelFunc # NoRun => ActiveRuns \subseteq {cancelFunc}
  BY <1>1 DEF ControlInv, OneRunner
<1>3. ASSUME cancelFunc = NoRun, NEW r \in ActiveRuns
      PROVE  runPc[r] = "spawned"
  <2>1. r \in Runs /\ r # NoRun /\ runPc[r] \in {"spawned"} \cup Begun
    BY CountsAssumption DEF ControlInv, ControlType, ActiveRuns, RunPcs, Begun, Runs, NoRun
  <2> QED BY <1>3, <2>1 DEF ControlInv, BusyWhileActive
<1> QED BY <1>2, <1>3

\* Where the one request is, and how it came to be there.
CancelStops == \A c \in Clients :
  reqPc[c] = "cancel" /\ req[c].stop # NoRun => ActiveRuns \subseteq {req[c].stop}

LEMMA StepCancel ==
  ASSUME SerialClients, Shape, ControlInv, CancelStops, [Next]_vars
  PROVE  CancelStops'
<1> SUFFICES ASSUME NEW c \in Clients, reqPc'[c] = "cancel", req'[c].stop # NoRun
             PROVE  ActiveRuns' \subseteq {req'[c].stop}
  BY DEF CancelStops
<1>0. req \in [Clients -> ReqRec] /\ reqPc \in [Clients -> ReqPcs]
  BY DEF Shape, ReqOK
<1>1. CASE reqPc[c] = "cancel" /\ req'[c].stop = req[c].stop /\ ActiveRuns' \subseteq ActiveRuns
  BY <1>1 DEF CancelStops
<1>2. CASE CancelLock(c)
  <2>1. req'[c].stop = cancelFunc
    BY <1>0, <1>2 DEF CancelLock, NewReq
  <2>2. ActiveRuns' = ActiveRuns
    BY <1>2 DEF CancelLock, ActiveRuns
  <2> QED BY <1>2, <2>1, <2>2, StopNamesRun
<1>3. ASSUME NEW d \in Clients, Request(d), ~CancelLock(c)
      PROVE  reqPc[c] = "cancel" /\ req'[c].stop = req[c].stop /\ ActiveRuns' \subseteq ActiveRuns
  <2>1. d = c
    BY DEF SerialClients
  <2>2. CancelPause(c)
    BY <1>0, <1>3, <2>1 DEF Request, StartCheck, StartClean, StartInstall, CancelCtx, Resume, Accepting,
       ClearLock, ClearCancel, ClearWait, ClearDrop, ClearClean, Answer
  <2>3. reqPc[c] = "cancel" /\ req'[c].stop = req[c].stop
    BY <1>0, <2>2 DEF CancelPause, ReqRec
  <2> QED BY <2>2, <2>3 DEF CancelPause, ActiveRuns, control
<1>4. CASE \A d \in Clients : ~Request(d)
  <2>1. UNCHANGED <<reqPc, req>>
    <3>1. ASSUME NEW x \in EveryWorker, Worker(x)
          PROVE  UNCHANGED <<reqPc, req>>
      BY <3>1 DEF Worker, WorkerTake, WorkerExit, WorkerMark, WorkerPanic, WorkerBegin, WorkerTry,
         WorkerPrepare, WorkerCreate, WorkerCreated, WorkerWait, WorkerCheck, WorkerMove, WorkerSettle
    <3>2. ASSUME NEW r \in Runs, Runner(r)
          PROVE  UNCHANGED <<reqPc, req>>
      BY <3>2 DEF Runner, RunnerBegin, RunnerSetup, DispatchPanic, DispatchSkip,
         DispatchSend, DispatchStop, DispatchEnd, RunnerWait, RunnerFinish
    <3> QED BY <1>4, <3>1, <3>2 DEF Next, EngineEnds, vars, EveryWorker
  <2>2. ActiveRuns' \subseteq ActiveRuns
    BY <1>4, ActiveShrinks DEF Request
  <2> QED BY <1>1, <2>1, <2>2
<1> QED BY <1>1, <1>2, <1>3, <1>4

\* batch_cancel tells the run that is going on to stop (HandleBatchCancel calls
\* the cancelFunc it read under the lock) before it answers, in whatever order
\* the run's steps and the request's come; the only run it does not tell is one
\* whose goroutine had not made its first step when the request read cancelFunc.
THEOREM CancelTold ==
  ASSUME SerialClients
  PROVE  Spec => CancelTakesEffect
<1> DEFINE I == Shape /\ ControlInv /\ CancelStops
           A == \A c \in Clients :
                  /\ reqPc[c] = "idle" /\ reqPc'[c] = "cancel" /\ req'[c].stop = NoRun =>
                       \A r \in ActiveRuns : runPc[r] = "spawned"
                  /\ reqPc[c] = "cancel" /\ reqPc'[c] = "idle" /\ req[c].stop # NoRun =>
                       \A r \in ActiveRuns : ctx'[r] = "cancelled"
<1>1. Init => I
  <2>1. Init => CancelStops
    BY DEF Init, CancelStops
  <2> QED BY <2>1, InitShape, InitControlInv
<1>2. I /\ [Next]_vars => I'
  BY StepShape, NextControlInv, StepCancel
<1>3. ASSUME I, [Next]_vars, NEW c \in Clients, reqPc'[c] # reqPc[c]
      PROVE  Request(c)
  <2>2. \A x \in EveryWorker : ~Worker(x)
    BY <1>3 DEF Worker, WorkerTake, WorkerExit, WorkerMark, WorkerPanic, WorkerBegin, WorkerTry,
       WorkerPrepare, WorkerCreate, WorkerCreated, WorkerWait, WorkerCheck, WorkerMove, WorkerSettle
  <2>3. \A s \in Runs : ~Runner(s)
    BY <1>3 DEF Runner, RunnerBegin, RunnerSetup, DispatchPanic, DispatchSkip,
       DispatchSend, DispatchStop, DispatchEnd, RunnerWait, RunnerFinish
  <2>4. PICK d \in Clients : Request(d)
    BY <1>3, <2>2, <2>3 DEF Next, EngineEnds, vars, EveryWorker
  <2> QED BY <2>4 DEF SerialClients
<1>5. ASSUME I, [Next]_vars, NEW c \in Clients, reqPc[c] = "idle", reqPc'[c] = "cancel",
             req'[c].stop = NoRun, NEW r \in ActiveRuns
      PROVE  runPc[r] = "spawned"
  <2>1. Request(c) /\ reqPc \in [Clients -> ReqPcs] /\ req \in [Clients -> ReqRec]
    BY <1>3, <1>5 DEF Shape, ReqOK
  <2>2. CancelLock(c)
    BY <1>5, <2>1 DEF Request, StartCheck, StartClean, StartInstall, CancelPause, CancelCtx,
       Resume, Accepting, ClearLock, ClearCancel, ClearWait, ClearDrop, ClearClean, Answer
  <2>3. req'[c].stop = cancelFunc
    BY <2>1, <2>2 DEF CancelLock, NewReq
  <2> QED BY <1>5, <2>3, StopNamesRun
<1>6. ASSUME I, [Next]_vars, NEW c \in Clients, reqPc[c] = "cancel", reqPc'[c] = "idle",
             req[c].stop # NoRun, NEW r \in ActiveRuns
      PROVE  ctx'[r] = "cancelled"
  <2>1. Request(c)
    BY <1>3, <1>6
  <2>2. CancelCtx(c)
    BY <1>6, <2>1 DEF Request, StartCheck, StartClean, StartInstall, CancelLock, CancelPause,
       Resume, Accepting, ClearLock, ClearCancel, ClearWait, ClearDrop, ClearClean, Answer
  <2>3. r = req[c].stop /\ r \in Runs
    BY <1>6 DEF CancelStops, ActiveRuns
  <2> QED BY <2>2, <2>3 DEF CancelCtx
<1>7. I /\ [Next]_vars => A
  BY <1>5, <1>6
<1>4. Spec => [][A]_vars
  BY <1>1, <1>2, <1>7, PTL DEF Spec
<1> QED BY <1>4 DEF CancelTakesEffect

-----------------------------------------------------------------------------
(* No index beyond the batch, but by a run that a batch_clear did not wait  *)
(* for, if requests come one at a time.                                     *)

ClearAlone == \A c \in Clients : reqPc[c] \in {"clearDrop", "clearClean"} =>
  ActiveRuns \subseteq cut
\* What a dispatcher ranges over is in h.tasks as long as it sends and no
\* batch_clear has dropped its tasks.
RangeOf(r) == /\ Sending(r) /\ r \notin cut => 1..run[r].len \subseteq DOMAIN Tasks
              /\ run[r].next <= run[r].len + 1
InRange == \A r \in Runs : RangeOf(r)
Orderly == ClearAlone /\ InRange /\ (crashed => cut # {})

LEMMA StepClear ==
  ASSUME SerialClients, Shape, ControlInv, ClearAlone, [Next]_vars
  PROVE  ClearAlone'
<1> SUFFICES ASSUME NEW c \in Clients, reqPc'[c] \in {"clearDrop", "clearClean"}
             PROVE  ActiveRuns' \subseteq cut'
  BY DEF ClearAlone
<1>0. reqPc \in [Clients -> ReqPcs]
  BY DEF Shape, ReqOK
<1>1. CASE reqPc[c] \in {"clearDrop", "clearClean"} /\ ActiveRuns' \subseteq ActiveRuns
  BY <1>1, CutKeeps DEF ClearAlone, CutKept
<1>2. ASSUME NEW d \in Clients, Request(d)
      PROVE  ActiveRuns' \subseteq cut'
  <2>0. d = c
    BY DEF SerialClients
  <2>1. CASE ClearLock(c)
    <3>1. /\ cancelFunc = NoRun /\ reqPc'[c] = "clearDrop" /\ reqPc[c] = "idle"
          /\ ActiveRuns' = ActiveRuns
      BY <1>0, <2>1 DEF ClearLock, Accepting, ActiveRuns
    <3> QED BY <3>1 DEF Next, Remember, CutsShort, vars
  <2>2. CASE ClearWait(c)
    <3>1. reqPc'[c] = "clearDrop" /\ reqPc[c] = "clearWait" /\ ActiveRuns' = ActiveRuns
      BY <1>0, <2>2 DEF ClearWait, ActiveRuns, control
    <3> QED BY <3>1 DEF Next, Remember, CutsShort, vars
  <2>3. CASE ClearDrop(c)
    BY <1>0, <1>1, <2>3 DEF ClearDrop, ActiveRuns
  <2>4. ~(ClearLock(c) \/ ClearWait(c) \/ ClearDrop(c)) => FALSE
    BY <1>0, <1>2, <2>0 DEF Request, StartCheck, StartClean, StartInstall, CancelLock, CancelPause,
       CancelCtx, Resume, Accepting, ClearCancel, ClearClean, Answer
  <2> QED BY <2>1, <2>2, <2>3, <2>4
<1>3. CASE \A d \in Clients : ~Request(d)
  <2>1. reqPc' = reqPc
    <3>1. ASSUME NEW x \in EveryWorker, Worker(x)
          PROVE  reqPc' = reqPc
      BY <3>1 DEF Worker, WorkerTake, WorkerExit, WorkerMark, WorkerPanic, WorkerBegin, WorkerTry,
         WorkerPrepare, WorkerCreate, WorkerCreated, WorkerWait, WorkerCheck, WorkerMove, WorkerSettle
    <3>2. ASSUME NEW r \in Runs, Runner(r)
          PROVE  reqPc' = reqPc
      BY <3>2 DEF Runner, RunnerBegin, RunnerSetup, DispatchPanic, DispatchSkip,
         DispatchSend, DispatchStop, DispatchEnd, RunnerWait, RunnerFinish
    <3> QED BY <1>3, <3>1, <3>2 DEF Next, EngineEnds, vars, EveryWorker
  <2>2. ActiveRuns' \subseteq ActiveRuns
    BY <1>3, ActiveShrinks DEF Request
  <2> QED BY <1>1, <2>1, <2>2
<1> QED BY <1>2, <1>3

\* What a worker has taken is in the batch that is the handler's, unless its
\* run has been cut short.
LEMMA InBatch ==
  ASSUME CoreInv, InRange, NEW x \in EveryWorker, Taken(x), x[1] \notin cut
  PROVE  /\ wk[x].idx \in DOMAIN Tasks /\ wk[x].idx <= Len(Tasks) /\ cur # 0
         /\ Holding(x) => wk[x].gen = cur
<1>0. Shape /\ CrewInv /\ TaskInv
  BY DEF CoreInv
<1>1. x[1] \in Runs /\ x[2] \in Workers /\ x = <<x[1], x[2]>> /\ Sending(x[1])
  BY <1>0, TakenRuns DEF EveryWorker
<1>2. wk[x].idx < run[x[1]].next
  BY <1>0, <1>1 DEF CrewInv, SpreadOf
<1>3. run[x[1]] \in RunRec /\ wk[x] \in WorkerRec
  BY <1>0, <1>1 DEF Shape, RunOK, WorkersOK
<1>4. run[x[1]].next <= run[x[1]].len + 1 /\ 1..run[x[1]].len \subseteq DOMAIN Tasks
  BY <1>1 DEF InRange, RangeOf
<1>5. wk[x].idx \in Nat \ {0}
  <2>1. CASE Holding(x)
    <3>1. wk[x].gen \in DOMAIN batches /\ wk[x].idx \in DOMAIN batches[wk[x].gen]
      BY <1>0, <2>1, TaskOfType
    <3>2. batches[wk[x].gen] \in Seq(Task)
      BY <1>0, <3>1, TaskType DEF Shape, TasksOK
    <3> QED BY <3>1, <3>2
  <2>2. CASE ~Holding(x)
    <3>1. wk[x].pc = "picked"
      BY <2>2 DEF Holding, Taken
    <3> QED BY <1>0, <1>3, <3>1 DEF Shape, WorkersOK, PointerOK, WorkerRec
  <2> QED BY <2>1, <2>2
<1>6. run[x[1]].next \in Nat /\ run[x[1]].len \in Nat
  BY <1>3 DEF RunRec
<1>7. wk[x].idx \in 1..run[x[1]].len
  BY <1>2, <1>4, <1>5, <1>6
<1>8. wk[x].idx \in DOMAIN Tasks
  BY <1>4, <1>7
<1>9. Tasks \in Seq(Task)
  BY <1>0, TasksType
<1>10. cur # 0
  BY <1>8 DEF Tasks
<1> QED BY <1>0, <1>8, <1>9, <1>10 DEF TaskInv, OneBatch

\* A step that leaves the handler its array leaves the array its indices.
LEMMA TasksKept ==
  ASSUME CoreInv, [Next]_vars, cur' = cur
  PROVE  DOMAIN Tasks \subseteq DOMAIN Tasks'
<1>0. Shape /\ ControlInv /\ CrewInv /\ TaskInv
  BY DEF CoreInv
<1>1. ASSUME NEW x \in EveryWorker, Worker(x)
      PROVE  DOMAIN Tasks \subseteq DOMAIN Tasks'
  BY <1>0, <1>1, WorkerTasks
<1>2. ASSUME NEW c \in Clients, Request(c)
      PROVE  DOMAIN Tasks \subseteq DOMAIN Tasks'
  BY <1>0, <1>2, RequestTasks
<1>3. ASSUME NEW r \in Runs, Runner(r)
      PROVE  DOMAIN Tasks \subseteq DOMAIN Tasks'
  BY <1>0, <1>3, RunnerTasks
<1>4. CASE UNCHANGED <<batches, cur>>
  BY <1>4 DEF Tasks
<1> QED BY <1>1, <1>2, <1>3, <1>4 DEF Next, EngineEnds, vars, control, EveryWorker

\* ... and it changes its array only while there is no run but one cut short.
LEMMA ArrayChanges ==
  ASSUME ControlInv, ClearAlone, [Next]_vars, cur' # cur
  PROVE  /\ ActiveRuns \subseteq cut
         /\ \E c \in Clients : StartInstall(c) \/ ClearDrop(c)
<1>1. PICK c \in Clients : StartInstall(c) \/ ClearDrop(c)
  <2>1. \A x \in EveryWorker : ~Worker(x)
    BY ZenonT(60) DEF Worker, WorkerTake, WorkerExit, WorkerMark, WorkerPanic, WorkerBegin, WorkerTry,
       WorkerPrepare, WorkerCreate, WorkerCreated, WorkerWait, WorkerCheck, WorkerMove,
       WorkerSettle, control
  <2>2. \A r \in Runs : ~Runner(r)
    BY DEF Runner, RunnerBegin, RunnerSetup, DispatchPanic, DispatchSkip,
       DispatchSend, DispatchStop, DispatchEnd, RunnerWait, RunnerFinish, control
  <2>3. PICK c \in Clients : Request(c)
    BY <2>1, <2>2 DEF Next, EngineEnds, vars, control, EveryWorker
  <2> QED BY <2>3 DEF Request, StartCheck, StartClean, CancelLock, CancelPause, CancelCtx, Resume,
             ClearLock, ClearCancel, ClearWait, ClearClean, control
<1> QED BY <1>1 DEF StartInstall, ClearDrop, ControlInv, StartAlone, ClearAlone

\* A run whose range, place and sends stay.
LEMMA SameRange ==
  ASSUME NEW r \in Runs, RangeOf(r), run'[r].len = run[r].len, run'[r].next = run[r].next,
         Sending(r)' => Sending(r), CutKept,
         Sending(r) /\ r \notin cut => DOMAIN Tasks \subseteq DOMAIN Tasks'
  PROVE  RangeOf(r)'
<1>1. Sending(r)' => r \in ActiveRuns'
  BY DEF Sending, ActiveRuns
<1> QED BY <1>1 DEF RangeOf, CutKept

LEMMA RunnerRange ==
  ASSUME CoreInv, InRange, CutKept, NEW r \in Runs, Runner(r)
  PROVE  InRange' /\ (crashed' = crashed \/ cut' # {})
<1>0. Shape /\ CrewInv /\ TaskInv
  BY DEF CoreInv
<1>1. Tasks' = Tasks /\ DOMAIN Tasks' = DOMAIN Tasks
  BY <1>0, RunnerTasks
<1>2. /\ run \in [Runs -> RunRec] /\ runPc \in [Runs -> RunPcs]
      /\ Tasks \in Seq(Task) /\ DOMAIN Tasks = 1..Len(Tasks)
  BY <1>0, TasksType DEF Shape, RunOK, ControlOK
<1>3. run[r] \in RunRec /\ RangeOf(r)
  BY <1>2 DEF InRange
<1>4. \A s \in Runs : s # r => runPc'[s] = runPc[s] /\ run'[s] = run[s]
  BY <1>2 DEF Runner, RunnerBegin, RunnerSetup, DispatchPanic, DispatchSkip,
     DispatchSend, DispatchStop, DispatchEnd, RunnerWait, RunnerFinish, control
<1>5. ASSUME NEW s \in Runs, s # r
      PROVE  RangeOf(s)'
  <2>1. RangeOf(s) /\ runPc'[s] = runPc[s] /\ run'[s] = run[s]
    BY <1>4, <1>5 DEF InRange
  <2> QED BY <1>1, <2>1, SameRange DEF Sending
<1>6. ASSUME RangeOf(r)', crashed' = crashed \/ cut' # {}
      PROVE  InRange' /\ (crashed' = crashed \/ cut' # {})
  BY <1>5, <1>6 DEF InRange
<1>7. CASE UNCHANGED run /\ (Sending(r)' => Sending(r)) /\ crashed' = crashed
  <2>1. RangeOf(r)'
    BY <1>1, <1>3, <1>7, SameRange
  <2> QED BY <1>6, <1>7, <2>1
<1>8. CASE RunnerBegin(r) \/ DispatchStop(r) \/ DispatchEnd(r) \/ RunnerWait(r)
  <2>1. UNCHANGED run /\ crashed' = crashed
    BY <1>8 DEF RunnerBegin, DispatchStop, DispatchEnd, RunnerWait
  <2>2. Sending(r)' => Sending(r)
    BY <1>2, <1>8 DEF RunnerBegin, Dispatching, DispatchStop, DispatchEnd, RunnerWait, Sending
  <2> QED BY <1>7, <2>1, <2>2
<1>9. CASE RunnerSetup(r)
  <2>1. crashed' = crashed /\ runPc[r] = "setup"
    BY <1>9 DEF RunnerSetup
  <2>2. CASE UNCHANGED run /\ runPc' = [runPc EXCEPT ![r] = "finish"]
    <3>1. ~Sending(r)'
      BY <1>2, <2>2 DEF Sending
    <3> QED BY <1>7, <2>1, <2>2, <3>1
  <2>3. CASE run' = [run EXCEPT ![r].len = Len(Tasks)]
    <3>1. run'[r].len = Len(Tasks) /\ run'[r].next = run[r].next
      BY <1>2, <1>3, <2>3 DEF RunRec
    <3>2. run[r].next = 1
      BY <1>0, <2>1 DEF CrewInv, CrewOf, Fresh
    <3>3. Len(Tasks) \in Nat
      BY <1>2
    <3>4. RangeOf(r)'
      BY <1>1, <1>2, <3>1, <3>2, <3>3 DEF RangeOf
    <3> QED BY <1>6, <2>1, <3>4
  <2> QED BY <1>9, <2>2, <2>3 DEF RunnerSetup
<1>10. CASE DispatchSkip(r) \/ DispatchSend(r)
  <2>1. /\ run'[r].len = run[r].len /\ run'[r].next = run[r].next + 1
    BY <1>2, <1>3, <1>10 DEF DispatchSkip, DispatchSend, RunRec
  <2>2. crashed' = crashed /\ Sending(r) /\ run[r].next <= run[r].len
    BY <1>10 DEF DispatchSkip, DispatchSend, Dispatching, Sending
  <2>3. run[r].next \in Nat /\ run[r].len \in Nat
    BY <1>3 DEF RunRec
  <2>4. Sending(r)' /\ r \notin cut' => r \notin cut
    BY DEF CutKept, Sending, ActiveRuns
  <2>5. RangeOf(r)'
    BY <1>1, <1>3, <2>1, <2>2, <2>3, <2>4 DEF RangeOf
  <2> QED BY <1>6, <2>2, <2>5
<1>11. CASE DispatchPanic(r)
  <2>1. run[r].next <= run[r].len /\ run[r].next > Len(Tasks) /\ Sending(r)
    BY <1>11 DEF DispatchPanic, Dispatching, Sending
  <2>2. run[r].next \in Nat /\ run[r].len \in Nat /\ Len(Tasks) \in Nat
    BY <1>2, <1>3 DEF RunRec
  <2>3. run[r].len \in 1..run[r].len
    BY <2>1, <2>2
  <2>4. r \in cut
    <3>1. r \notin cut => run[r].len \in 1..Len(Tasks)
      BY <1>2, <1>3, <2>1, <2>3 DEF RangeOf
    <3> QED BY <2>1, <2>2, <3>1
  <2>5. runPc' = runPc /\ run' = run
    BY <1>11 DEF DispatchPanic, control
  <2>6. r \in cut' /\ (Sending(r)' => Sending(r))
    BY <2>1, <2>4, <2>5 DEF CutKept, Sending, ActiveRuns
  <2>7. RangeOf(r)'
    BY <1>1, <1>3, <2>5, <2>6, SameRange
  <2> QED BY <1>6, <2>6, <2>7
<1>12. CASE RunnerFinish(r)
  <2>1. run'[r] = NewRun /\ crashed' = crashed /\ ~Sending(r)'
    BY <1>2, <1>12 DEF RunnerFinish, Sending
  <2>2. RangeOf(r)'
    BY <2>1 DEF RangeOf, NewRun
  <2> QED BY <1>6, <2>1, <2>2
<1> QED BY <1>8, <1>9, <1>10, <1>11, <1>12 DEF Runner

LEMMA WorkerRange ==
  ASSUME CoreInv, InRange, CutKept, NEW x \in EveryWorker, Worker(x)
  PROVE  InRange' /\ (crashed' = crashed \/ cut' # {})
<1>0. Shape /\ ControlInv /\ CrewInv /\ TaskInv
  BY DEF CoreInv
<1>1. DOMAIN Tasks \subseteq DOMAIN Tasks'
  BY <1>0, WorkerTasks
<1>3. UNCHANGED runPc
  BY DEF Worker, WorkerTake, WorkerExit, WorkerMark, WorkerPanic, WorkerBegin, WorkerTry,
     WorkerPrepare, WorkerCreate, WorkerCreated, WorkerWait, WorkerCheck, WorkerMove,
     WorkerSettle, control
<1>2. crashed' = crashed \/ cut' # {}
  <2>1. CASE WorkerPanic(x)
    <3>1. Taken(x) /\ wk[x].idx > Len(Tasks) /\ x[1] \in Runs
      BY <2>1 DEF WorkerPanic, At, Taken, EveryWorker
    <3>2. x[1] \in cut
      <4>1. wk[x].idx \in Nat /\ Len(Tasks) \in Nat
        BY <1>0, <3>1, TasksType DEF Shape, WorkersOK, WorkerRec
      <4>2. x[1] \notin cut => wk[x].idx <= Len(Tasks)
        BY <3>1, InBatch
      <4> QED BY <3>1, <4>1, <4>2
    <3>3. Sending(x[1])
      BY <1>0, <3>1, TakenRuns
    <3> QED BY <1>3, <3>1, <3>2, <3>3 DEF CutKept, Sending, ActiveRuns
  <2> QED BY <2>1 DEF Worker, WorkerTake, WorkerExit, WorkerMark, WorkerBegin, WorkerTry,
       WorkerPrepare, WorkerCreate, WorkerCreated, WorkerWait, WorkerCheck, WorkerMove, WorkerSettle
<1>4. \A r \in Runs : run'[r].len = run[r].len /\ run'[r].next = run[r].next
  <2>1. CASE WorkerTake(x)
    <3>1. /\ run[x[1]] \in RunRec /\ x[1] \in Runs
          /\ run' = [run EXCEPT ![x[1]].chan = Tail(run[x[1]].chan)]
      BY <1>0, <2>1, TakeFacts
    <3>2. run \in [Runs -> RunRec]
      BY <1>0 DEF Shape, RunOK
    <3> QED BY <3>1, <3>2 DEF RunRec
  <2>2. CASE ~WorkerTake(x)
    <3>1. run' = run
      BY <2>2 DEF Worker, WorkerExit, WorkerMark, WorkerPanic, WorkerBegin, WorkerTry,
         WorkerPrepare, WorkerCreate, WorkerCreated, WorkerWait, WorkerCheck, WorkerMove, WorkerSettle
    <3> QED BY <3>1
  <2> QED BY <2>1, <2>2
<1>5. ASSUME NEW r \in Runs
      PROVE  RangeOf(r)'
  <2>1. RangeOf(r) /\ (Sending(r)' <=> Sending(r))
    BY <1>3 DEF InRange, Sending
  <2> QED BY <1>1, <1>4, <2>1, SameRange
<1> QED BY <1>2, <1>5 DEF InRange

LEMMA RequestRange ==
  ASSUME CoreInv, ClearAlone, InRange, NEW c \in Clients, Alive /\ Request(c), Remember
  PROVE  InRange' /\ crashed' = crashed
<1>0. Shape /\ ControlInv /\ [Next]_vars /\ CutKept
  BY CutKeeps DEF CoreInv, Next
<1>1. run \in [Runs -> RunRec] /\ runPc \in [Runs -> RunPcs]
  BY <1>0 DEF Shape, RunOK, ControlOK
<1>2. ASSUME NEW force, Spawn(force), NEW r \in Runs
      PROVE  /\ run'[r].len = run[r].len /\ run'[r].next = run[r].next
             /\ Sending(r)' => Sending(r)
  <2>1. PICK s \in Runs : /\ runPc' = [runPc EXCEPT ![s] = "spawned"]
                          /\ run' = [run EXCEPT ![s].force = force]
    BY <1>2 DEF Spawn
  <2>2. run[s] \in RunRec
    BY <1>1
  <2> QED BY <1>1, <2>1, <2>2 DEF RunRec, Sending
<1>3. \A r \in Runs : /\ run'[r].len = run[r].len /\ run'[r].next = run[r].next
                      /\ Sending(r)' => Sending(r)
  <2>1. CASE StartInstall(c) \/ Resume(c)
    BY <1>2, <2>1 DEF StartInstall, Resume
  <2>2. CASE ~(StartInstall(c) \/ Resume(c))
    <3>1. UNCHANGED <<run, runPc>>
      BY <2>2 DEF Request, StartCheck, StartClean, CancelLock, CancelPause, CancelCtx,
         ClearLock, ClearCancel, ClearWait, ClearDrop, ClearClean, control
    <3> QED BY <3>1 DEF Sending
  <2> QED BY <2>1, <2>2
<1>4. ASSUME NEW r \in Runs, Sending(r), r \notin cut
      PROVE  DOMAIN Tasks \subseteq DOMAIN Tasks'
  <2>1. r \in ActiveRuns
    BY <1>4 DEF Sending, ActiveRuns
  <2>2. cur' = cur
    BY <1>0, <1>4, <2>1, ArrayChanges
  <2> QED BY <1>0, <2>2, TasksKept
<1>5. crashed' = crashed
  BY DEF Request, StartCheck, StartClean, StartInstall, CancelLock, CancelPause, CancelCtx,
     Resume, ClearLock, ClearCancel, ClearWait, ClearDrop, ClearClean
<1>6. ASSUME NEW r \in Runs
      PROVE  RangeOf(r)'
  <2>1. RangeOf(r)
    BY DEF InRange
  <2> QED BY <1>0, <1>3, <1>4, <2>1, SameRange
<1> QED BY <1>5, <1>6 DEF InRange

LEMMA InitOrderly == Init => Orderly
BY DEF Init, Orderly, ClearAlone, InRange, RangeOf, NewRun, Sending

LEMMA StepOrderly ==
  ASSUME SerialClients, CoreInv, Orderly, [Next]_vars
  PROVE  Orderly'
<1>0. Shape /\ ControlInv /\ ClearAlone /\ InRange /\ CutKept
  BY CutKeeps DEF CoreInv, Orderly
<1>1. ClearAlone'
  BY <1>0, StepClear
<1>2. InRange' /\ (crashed' = crashed \/ cut' # {})
  <2>1. CASE \E c \in Clients : Alive /\ Request(c) /\ Remember
    BY <1>0, <2>1, RequestRange
  <2>2. CASE \E r \in Runs : Runner(r)
    BY <1>0, <2>2, RunnerRange
  <2>3. CASE \E x \in EveryWorker : Worker(x)
    BY <1>0, <2>3, WorkerRange
  <2>4. CASE UNCHANGED <<batches, cur, run, runPc, crashed>>
    <3>1. Tasks' = Tasks
      BY <2>4 DEF Tasks
    <3>2. ASSUME NEW r \in Runs
          PROVE  RangeOf(r)'
      BY <1>0, <2>4, <3>1, SameRange DEF InRange, Sending
    <3> QED BY <2>4, <3>2 DEF InRange
  <2> QED BY <2>1, <2>2, <2>3, <2>4 DEF Next, EngineEnds, vars, control, EveryWorker
<1>3. crashed' => cut' # {}
  <2>1. CASE UNCHANGED vars
    BY <2>1 DEF Orderly, vars, history
  <2>2. CASE Next
    <3>1. ~crashed
      BY <2>2 DEF Next, Alive
    <3> QED BY <1>2, <3>1
  <2> QED BY <2>1, <2>2
<1> QED BY <1>1, <1>2, <1>3 DEF Orderly

\* batch.go indexes h.tasks with the indices a dispatcher took from its length.
\* The slice is too short for them in one case only: a batch_clear has dropped
\* the tasks of the run without waiting for it, because it found no cancelFunc
\* yet or because the five seconds were not enough.
THEOREM NoPanic ==
  ASSUME SerialClients
  PROVE  Spec => []NoIndexPanic
<1>1. Init => CoreInv /\ Orderly
  BY InitCore, InitOrderly
<1>2. CoreInv /\ Orderly /\ [Next]_vars => (CoreInv /\ Orderly)'
  BY StepCore, StepOrderly
<1>3. Orderly => NoIndexPanic
  BY DEF Orderly, NoIndexPanic
<1> QED BY <1>1, <1>2, <1>3, PTL DEF Spec

-----------------------------------------------------------------------------
(* No transfer and no temporary file is lost track of.                     *)

InUse(e) == engine[e].st \notin {"unused", "gone"}
OwnsId(e) == \/ \E i \in DOMAIN Tasks : Tasks[i].gid = e
             \/ \E c \in Clients : reqPc[c] # "cancel" /\ \E a \in req[c].left : a.gid = e
             \/ \E x \in EveryWorker : wk[x].gid = e
             \/ \E a \in strays : a.gid = e
OwnsTemp(f) == \/ \E i \in DOMAIN Tasks : Tasks[i].temp = f
               \/ \E c \in Clients : reqPc[c] # "cancel" /\ \E a \in req[c].left : a.temp = f
               \/ \E a \in strays : a.temp = f
Owned == /\ \A e \in Transfers : InUse(e) => OwnsId(e)
         /\ \A f \in tmpFiles : OwnsTemp(f)

\* Nothing is left but strays.
Empty == /\ \A e \in Transfers : InUse(e) => \E a \in strays : a.gid = e
         /\ \A f \in tmpFiles : \E a \in strays : a.temp = f

\* A stray is remembered as long as its transfer or its file exists, ...
StraysKept == \A a \in strays : InUse(a.gid)' \/ a.temp \in tmpFiles' => a \in strays'
\* ... from the moment its worker has created it.
StrayInv == \A x \in EveryWorker : x[1] \in cut /\ wk[x].pc = "created" =>
              \E a \in strays : a.gid = wk[x].gid /\ a.temp = TaskOf(x).temp

LEMMA StepStray ==
  ASSUME StrayInv, [Next]_vars
  PROVE  StrayInv' /\ StraysKept
<1>1. CASE UNCHANGED vars
  BY <1>1 DEF StrayInv, StraysKept, TaskOf, vars, history
<1>2. CASE Next
  <2>1. Remember
    BY <1>2 DEF Next
  <2>2. StraysKept
    BY <2>1 DEF Remember, StraysKept, InUse
  <2>3. ASSUME NEW x \in EveryWorker, (x[1] \in cut)', (wk[x].pc = "created")'
        PROVE  [gid |-> wk'[x].gid, temp |-> (TaskOf(x)').temp] \in strays'
    BY <2>1, <2>3 DEF Remember, At, EveryWorker
  <2> QED BY <2>2, <2>3 DEF StrayInv
<1> QED BY <1>1, <1>2

\* What a request has left to clean up, step by step.
LeftOf(c) == /\ reqPc[c] \notin {"startClean", "cancel", "clearClean"} => req[c].left = {}
             /\ reqPc[c] = "startClean" => Artifacts(Tasks) \subseteq req[c].left
             /\ reqPc[c] = "startInstall" => Empty
LeftInv == \A c \in Clients : LeftOf(c)

OwnInv == Owned /\ LeftInv /\ StrayInv

\* A worker's step at a task leaves what is neither the task's nor its own.
LEMMA PointOwned ==
  ASSUME CoreInv, Owned, StraysKept,
         NEW x \in EveryWorker, wk[x].idx \in DOMAIN Tasks, NEW t, NEW w,
         PointStep(x, cur, wk[x].idx, t, w), UNCHANGED <<cur, reqPc, req>>,
         \A e \in Transfers : InUse(e)' =>
           \/ t.gid = e \/ w.gid = e
           \/ InUse(e) /\ e # Tasks[wk[x].idx].gid /\ e # wk[x].gid,
         \A f \in tmpFiles' : t.temp = f \/ (f \in tmpFiles /\ f # Tasks[wk[x].idx].temp)
  PROVE  Owned'
<1>0. Shape
  BY DEF CoreInv
<1>1. PICK i : i = wk[x].idx
  OBVIOUS
<1>2. /\ DOMAIN Tasks' = DOMAIN Tasks /\ i \in DOMAIN Tasks
      /\ \A j \in DOMAIN Tasks : Tasks'[j] = IF j = i THEN t ELSE Tasks[j]
  BY <1>0, <1>1, TasksAfter
<1>3. wk'[x] = w /\ \A y \in EveryWorker : y # x => wk'[y] = wk[y]
  BY <1>0, PointFacts
<1>4. ASSUME NEW e \in Transfers, InUse(e)'
      PROVE  OwnsId(e)'
  <2>1. CASE t.gid = e
    BY <1>2, <2>1 DEF OwnsId
  <2>2. CASE w.gid = e
    BY <1>3, <2>2 DEF OwnsId
  <2>3. CASE InUse(e) /\ e # Tasks[i].gid /\ e # wk[x].gid
    <3>1. OwnsId(e)
      BY <2>3 DEF Owned
    <3>2. CASE \E j \in DOMAIN Tasks : Tasks[j].gid = e
      BY <1>2, <2>3, <3>2 DEF OwnsId
    <3>3. CASE \E c \in Clients : reqPc[c] # "cancel" /\ \E a \in req[c].left : a.gid = e
      BY <3>3 DEF OwnsId
    <3>4. CASE \E y \in EveryWorker : wk[y].gid = e
      BY <1>3, <2>3, <3>4 DEF OwnsId
    <3>5. CASE \E a \in strays : a.gid = e
      BY <1>4, <3>5 DEF OwnsId, StraysKept
    <3> QED BY <3>1, <3>2, <3>3, <3>4, <3>5 DEF OwnsId
  <2> QED BY <1>1, <1>4, <2>1, <2>2, <2>3
<1>5. ASSUME NEW f \in tmpFiles'
      PROVE  OwnsTemp(f)'
  <2>1. CASE t.temp = f
    BY <1>2, <2>1 DEF OwnsTemp
  <2>2. CASE f \in tmpFiles /\ f # Tasks[i].temp
    <3>1. OwnsTemp(f)
      BY <2>2 DEF Owned
    <3>2. CASE \E j \in DOMAIN Tasks : Tasks[j].temp = f
      BY <1>2, <2>2, <3>2 DEF OwnsTemp
    <3>3. CASE \E c \in Clients : reqPc[c] # "cancel" /\ \E a \in req[c].left : a.temp = f
      BY <3>3 DEF OwnsTemp
    <3>4. CASE \E a \in strays : a.temp = f
      BY <1>5, <3>4 DEF OwnsTemp, StraysKept
    <3> QED BY <3>1, <3>2, <3>3, <3>4 DEF OwnsTemp
  <2> QED BY <1>1, <1>5, <2>1, <2>2
<1> QED BY <1>4, <1>5 DEF Owned

LEMMA CleanTask ==
  ASSUME NEW u \in Task, Clean(ArtsOf(u))
  PROVE  /\ \A e \in Transfers : InUse(e)' => InUse(e) /\ e # u.gid
         /\ \A f \in tmpFiles' : f \in tmpFiles /\ f # u.temp
<1> DEFINE ids == {a.gid : a \in ArtsOf(u)} \ {NoId}
<1>1. Delete(ids) /\ tmpFiles' = tmpFiles \ ({a.temp : a \in ArtsOf(u)} \cup {engine[e].temp : e \in ids})
  BY DEF Clean
<1>2. ids = {u.gid} \ {NoId} /\ {a.temp : a \in ArtsOf(u)} = {u.temp}
  BY DEF ArtsOf
<1>3. ASSUME NEW e \in Transfers, InUse(e)'
      PROVE  InUse(e) /\ e # u.gid
  <2>1. e # NoId
    BY CountsAssumption DEF Transfers, NoId
  <2>2. engine'[e] = IF e \in ids THEN [st |-> "gone", temp |-> NoPath] ELSE engine[e]
    BY <1>1 DEF Delete
  <2>3. e \notin ids
    BY <1>3, <2>2 DEF InUse
  <2> HIDE DEF ids
  <2> QED BY <1>2, <1>3, <2>1, <2>2, <2>3 DEF InUse
<1> QED BY <1>1, <1>2, <1>3

LEMMA MiddleOwned ==
  ASSUME SafeInv, Owned, StraysKept, NEW x \in EveryWorker, Middle(x), cur # 0
  PROVE  Owned'
<1> DEFINE u == TaskOf(x)
           i == wk[x].idx
<1>0. /\ CoreInv /\ Shape /\ Holding(x) /\ Taken(x) /\ WorkOf(wk[x], u) /\ u \in Task
      /\ UNCHANGED <<cur, reqPc, req>> /\ tmpFiles \subseteq TempPaths
  BY MiddleMoves, TaskOfType DEF SafeInv, CoreInv, WorkInv, Taken, Holding, control
<1>1. i \in DOMAIN Tasks /\ wk[x].gen = cur
  BY <1>0, TaskOfType DEF CoreInv, TaskInv, OneBatch, Tasks
<1>2. u = Tasks[i]
  BY <1>1 DEF TaskOf, Tasks
<1>3. wk[x].gid # NoId => wk[x].pc = "created"
  BY <1>0 DEF Shape, WorkersOK, PointerOK
<1>4. \A e \in Transfers : e # NoId
  BY CountsAssumption DEF Transfers, NoId
<1>5. ASSUME NEW t, NEW w, Moved(x, t, w),
             \A e \in Transfers : InUse(e)' =>
               t.gid = e \/ w.gid = e \/ (InUse(e) /\ e # u.gid /\ e # wk[x].gid),
             \A f \in tmpFiles' : t.temp = f \/ (f \in tmpFiles /\ f # u.temp)
      PROVE  Owned'
  <2>1. PointStep(x, cur, i, t, w)
    BY <1>0, <1>1, <1>5, MovedPoint
  <2> QED BY <1>0, <1>1, <1>2, <1>5, <2>1, PointOwned
\* Nothing is added or removed, and the task keeps what it has.
<1>6. ASSUME NEW t, NEW w, Moved(x, t, w), t.gid = u.gid, wk[x].pc # "created",
             t.temp = u.temp \/ u.temp = NoPath,
             \A e \in Transfers : InUse(e)' => InUse(e) \/ e = w.gid, tmpFiles' \subseteq tmpFiles
      PROVE  Owned'
  <2>1. \A f \in tmpFiles' : f # NoPath
    BY <1>0, <1>6, NoPathAssumption
  <2> QED BY <1>3, <1>4, <1>5, <1>6, <2>1
<1>7. ASSUME NEW t, NEW w, Moved(x, t, w), Clean(ArtsOf(u)), wk[x].pc # "created"
      PROVE  Owned'
  <2>0. PICK k \in Task : k = u
    BY <1>0
  <2>1. /\ \A e \in Transfers : InUse(e)' => InUse(e) /\ e # k.gid
        /\ \A f \in tmpFiles' : f \in tmpFiles /\ f # k.temp
    BY <1>7, <2>0, CleanTask
  <2>2. \A e \in Transfers : InUse(e)' => InUse(e) /\ e # u.gid /\ e # wk[x].gid
    BY <1>3, <1>4, <1>7, <2>0, <2>1
  <2> QED BY <1>5, <1>7, <2>0, <2>1, <2>2
<1>8. CASE WorkerBegin(x)
  <2>1. PICK t, w : Moved(x, t, w) /\ t.gid = u.gid /\ t.temp = u.temp
    BY <1>0, <1>8, BeginMoves
  <2>2. wk[x].pc = "begin" /\ UNCHANGED <<engine, tmpFiles>>
    BY <1>0, <1>8, BeginMoves DEF files
  <2> QED BY <1>6, <2>1, <2>2 DEF InUse
<1>9. CASE WorkerTry(x)
  <2>1. PICK t, w : Moved(x, t, w) /\ t.gid = u.gid /\ (t.temp = u.temp \/ u.temp = NoPath)
    BY <1>0, <1>9, TryMoves
  <2>2. wk[x].pc = "try" /\ UNCHANGED <<engine, tmpFiles>>
    BY <1>0, <1>9, TryMoves DEF files
  <2> QED BY <1>6, <2>1, <2>2 DEF InUse
<1>10. CASE WorkerPrepare(x)
  <2>1. wk[x].pc = "prepare"
    BY <1>0, <1>10, PrepareMoves
  <2>2. PICK t, w : /\ Moved(x, t, w) /\ t.temp = u.temp
                    /\ \/ t = u /\ UNCHANGED <<engine, tmpFiles>>
                       \/ Clean(ArtsOf(u))
                       \/ /\ t = u /\ engine' = [engine EXCEPT ![t.gid].st = "running"]
                          /\ engine[t.gid].st = "pause" /\ UNCHANGED tmpFiles
    BY <1>0, <1>10, PrepareMoves
  <2>3. CASE t = u /\ UNCHANGED <<engine, tmpFiles>>
    BY <1>6, <2>1, <2>2, <2>3 DEF InUse
  <2>4. CASE Clean(ArtsOf(u))
    BY <1>7, <2>1, <2>2, <2>4
  <2>5. CASE /\ t = u /\ engine' = [engine EXCEPT ![t.gid].st = "running"]
             /\ engine[t.gid].st = "pause" /\ UNCHANGED tmpFiles
    <3>1. engine \in [Transfers -> EngineRec]
      BY <1>0 DEF Shape, FilesOK
    <3>2. \A e \in Transfers : InUse(e)' => InUse(e)
      BY <2>5, <3>1 DEF InUse
    <3> QED BY <1>6, <2>1, <2>2, <2>5, <3>2
  <2> QED BY <2>2, <2>3, <2>4, <2>5
<1>11. CASE WorkerCreate(x)
  <2>1. wk[x].pc = "create" /\ engine \in [Transfers -> EngineRec]
    BY <1>0, <1>11, CreateMoves DEF Shape, FilesOK
  <2>2. PICK w : /\ Moved(x, u, w)
                 /\ \/ tmpFiles' = tmpFiles \ {u.temp} /\ UNCHANGED engine
                    \/ \E e \in Transfers :
                         /\ w.gid = e /\ engine' = [engine EXCEPT ![e] = [st |-> "running", temp |-> u.temp]]
                         /\ tmpFiles' = tmpFiles \cup {u.temp}
    BY <1>0, <1>11, CreateMoves
  <2>3. CASE tmpFiles' = tmpFiles \ {u.temp} /\ UNCHANGED engine
    BY <1>6, <2>1, <2>2, <2>3 DEF InUse
  <2>4. ASSUME NEW e \in Transfers, w.gid = e,
               engine' = [engine EXCEPT ![e] = [st |-> "running", temp |-> u.temp]],
               tmpFiles' = tmpFiles \cup {u.temp}
        PROVE  Owned'
    <3>1. \A d \in Transfers : InUse(d)' => d = w.gid \/ InUse(d)
      BY <2>1, <2>4 DEF InUse
    <3>2. wk[x].gid = NoId
      BY <1>3, <2>1
    <3>3. \A d \in Transfers : InUse(d)' =>
            u.gid = d \/ w.gid = d \/ (InUse(d) /\ d # u.gid /\ d # wk[x].gid)
      BY <1>4, <3>1, <3>2
    <3>4. \A f \in tmpFiles' : u.temp = f \/ (f \in tmpFiles /\ f # u.temp)
      BY <2>4
    <3> QED BY <1>5, <2>2, <3>3, <3>4
  <2> QED BY <2>2, <2>3, <2>4
<1>12. CASE WorkerCreated(x)
  <2>1. PICK t, w : Moved(x, t, w) /\ t.gid = wk[x].gid /\ t.temp = u.temp
    BY <1>0, <1>12, CreatedMoves
  <2>2. wk[x].pc = "created" /\ UNCHANGED <<engine, tmpFiles>>
    BY <1>0, <1>12, CreatedMoves DEF files
  <2>3. u.gid = NoId
    BY <1>0, <2>2 DEF WorkOf
  <2> QED BY <1>4, <1>5, <2>1, <2>2, <2>3 DEF InUse
<1>13. CASE WorkerWait(x)
  <2>1. wk[x].pc = "wait"
    BY <1>0, <1>13, WaitMoves
  <2>2. PICK t, w : /\ Moved(x, t, w)
                    /\ Clean(ArtsOf(u)) \/ (t = u /\ UNCHANGED <<engine, tmpFiles>>)
    BY <1>0, <1>13, WaitMoves
  <2> QED BY <1>6, <1>7, <2>1, <2>2 DEF InUse
<1>14. CASE WorkerCheck(x)
  <2>1. wk[x].pc = "check"
    BY <1>0, <1>14, CheckMoves
  <2>2. PICK t, w : /\ Moved(x, t, w)
                    /\ Clean(ArtsOf(u)) \/ (t = u /\ UNCHANGED <<engine, tmpFiles>>)
    BY <1>0, <1>14, CheckMoves
  <2> QED BY <1>6, <1>7, <2>1, <2>2 DEF InUse
<1>15. CASE WorkerMove(x)
  <2>1. wk[x].pc = "move"
    BY <1>0, <1>15, MoveMoves
  <2>2. PICK t, w : /\ Moved(x, t, w)
                    /\ Clean(ArtsOf(u)) \/ (Delete({u.gid}) /\ tmpFiles' = tmpFiles \ {u.temp})
    BY <1>0, <1>15, MoveMoves
  <2>3. CASE Clean(ArtsOf(u))
    BY <1>7, <2>1, <2>2, <2>3
  <2>4. CASE Delete({u.gid}) /\ tmpFiles' = tmpFiles \ {u.temp}
    <3>1. \A e \in Transfers : InUse(e)' => InUse(e) /\ e # u.gid
      BY <2>4 DEF Delete, InUse
    <3>2. \A e \in Transfers : e # wk[x].gid
      BY <1>3, <1>4, <2>1
    <3> QED BY <1>5, <2>2, <2>4, <3>1, <3>2
  <2> QED BY <2>2, <2>3, <2>4
<1> QED BY <1>8, <1>9, <1>10, <1>11, <1>12, <1>13, <1>14, <1>15 DEF Middle

\* The steps of the one request: the tasks keep their transfers and files.
SameArtifacts == /\ DOMAIN Tasks' = DOMAIN Tasks
                 /\ \A i \in DOMAIN Tasks : Tasks'[i].gid = Tasks[i].gid /\ Tasks'[i].temp = Tasks[i].temp

LEMMA RequestKeepsOwned ==
  ASSUME SerialClients, Owned, StraysKept, NEW c \in Clients, SameArtifacts, wk' = wk,
         \A e \in Transfers : InUse(e)' => InUse(e),
         tmpFiles' \subseteq tmpFiles,
         reqPc[c] # "cancel" => \A a \in req[c].left :
           (\A e \in Transfers : InUse(e)' => a.gid # e) /\ a.temp \notin tmpFiles'
  PROVE  Owned'
<1>1. ASSUME NEW e \in Transfers, InUse(e)'
      PROVE  OwnsId(e)'
  <2>1. OwnsId(e)
    BY <1>1 DEF Owned
  <2>2. CASE \E d \in Clients : reqPc[d] # "cancel" /\ \E a \in req[d].left : a.gid = e
    BY <1>1, <2>2 DEF SerialClients
  <2>3. CASE \E a \in strays : a.gid = e
    BY <1>1, <2>3 DEF OwnsId, StraysKept
  <2> QED BY <2>1, <2>2, <2>3 DEF OwnsId, SameArtifacts
<1>2. ASSUME NEW f \in tmpFiles'
      PROVE  OwnsTemp(f)'
  <2>1. OwnsTemp(f)
    BY <1>2 DEF Owned
  <2>2. CASE \E d \in Clients : reqPc[d] # "cancel" /\ \E a \in req[d].left : a.temp = f
    BY <1>2, <2>2 DEF SerialClients
  <2>3. CASE \E a \in strays : a.temp = f
    BY <1>2, <2>3 DEF OwnsTemp, StraysKept
  <2> QED BY <2>1, <2>2, <2>3 DEF OwnsTemp, SameArtifacts
<1> QED BY <1>1, <1>2 DEF Owned

\* Cleaning up, from the point of view of one artifact of the list.
LEMMA CleanEach ==
  ASSUME NEW arts, Clean(arts)
  PROVE  /\ \A e \in Transfers : InUse(e)' => InUse(e) /\ \A a \in arts : a.gid # e
         /\ \A f \in tmpFiles' : f \in tmpFiles /\ \A a \in arts : a.temp # f
<1> DEFINE ids == {a.gid : a \in arts} \ {NoId}
<1>1. Delete(ids) /\ tmpFiles' = tmpFiles \ ({a.temp : a \in arts} \cup {engine[e].temp : e \in ids})
  BY DEF Clean
<1>2. ASSUME NEW e \in Transfers, InUse(e)'
      PROVE  InUse(e) /\ \A a \in arts : a.gid # e
  <2>1. e # NoId
    BY CountsAssumption DEF Transfers, NoId
  <2>2. engine'[e] = IF e \in ids THEN [st |-> "gone", temp |-> NoPath] ELSE engine[e]
    BY <1>1 DEF Delete
  <2>3. e \notin ids
    BY <1>2, <2>2 DEF InUse
  <2>4. \A a \in arts : a.gid # e
    BY <2>1, <2>3
  <2> HIDE DEF ids
  <2> QED BY <1>2, <2>2, <2>3, <2>4 DEF InUse
<1> QED BY <1>1, <1>2

\* The artifacts of all tasks cleaned up, nothing but strays is left.
LEMMA CleanAll ==
  ASSUME Owned, StraysKept, SerialClients, NEW c \in Clients, Artifacts(Tasks) \subseteq req[c].left,
         Clean(req[c].left), \A x \in EveryWorker : wk[x].gid = NoId
  PROVE  Empty'
<1>1. \A i \in DOMAIN Tasks : \E a \in req[c].left : a.gid = Tasks[i].gid /\ a.temp = Tasks[i].temp
  <2>1. ASSUME NEW i \in DOMAIN Tasks
        PROVE  [gid |-> Tasks[i].gid, temp |-> Tasks[i].temp] \in req[c].left
    BY DEF Artifacts
  <2> QED BY <2>1
<1>2. ASSUME NEW e \in Transfers, InUse(e)'
      PROVE  \E a \in strays' : a.gid = e
  <2>1. InUse(e) /\ \A a \in req[c].left : a.gid # e
    BY <1>2, CleanEach
  <2>2. OwnsId(e) /\ e # NoId
    BY <2>1, CountsAssumption DEF Owned, Transfers, NoId
  <2>3. \E a \in strays : a.gid = e
    BY <1>1, <2>1, <2>2 DEF OwnsId, SerialClients
  <2> QED BY <1>2, <2>3 DEF StraysKept
<1>3. ASSUME NEW f \in tmpFiles'
      PROVE  \E a \in strays' : a.temp = f
  <2>1. f \in tmpFiles /\ \A a \in req[c].left : a.temp # f
    BY <1>3, CleanEach
  <2>2. OwnsTemp(f)
    BY <2>1 DEF Owned
  <2>3. \E a \in strays : a.temp = f
    BY <1>1, <2>1, <2>2 DEF OwnsTemp, SerialClients
  <2> QED BY <1>3, <2>3 DEF StraysKept
<1> QED BY <1>2, <1>3 DEF Empty

LEMMA RequestOwned ==
  ASSUME SerialClients, CoreInv, OwnInv, NEW c \in Clients, Request(c), StrayInv', StraysKept
  PROVE  OwnInv'
<1>0. Shape /\ ControlInv /\ CrewInv /\ Owned /\ LeftOf(c)
  BY DEF CoreInv, OwnInv, LeftInv
<1>1. req \in [Clients -> ReqRec] /\ reqPc \in [Clients -> ReqPcs] /\ req[c] \in ReqRec
  BY <1>0 DEF Shape, ReqOK
<1>2. ASSUME LeftOf(c)', Owned'
      PROVE  OwnInv'
  BY <1>2 DEF OwnInv, LeftInv, SerialClients
<1>3. ASSUME UNCHANGED <<batches, cur>>
      PROVE  SameArtifacts /\ Tasks' = Tasks
  BY <1>3 DEF SameArtifacts, Tasks
<1>4. ASSUME UNCHANGED files
      PROVE  (\A e \in Transfers : InUse(e)' => InUse(e)) /\ tmpFiles' \subseteq tmpFiles /\ (Empty => Empty')
  BY <1>4 DEF InUse, files, Empty, StraysKept
<1>5. ASSUME NEW a \in {"idle", "startClean", "startInstall"}, reqPc[c] = a, a # "idle"
      PROVE  \A x \in EveryWorker : wk[x].gid = NoId
  <2>1. ActiveRuns = {}
    BY <1>0, <1>5 DEF ControlInv, StartAlone
  <2>2. \A x \in EveryWorker : ~Taken(x)
    BY <1>0, <2>1, QuietHands
  <2> QED BY <1>0, <2>2 DEF Shape, WorkersOK, PointerOK, Taken
<1>6. CASE StartCheck(c)
  <2>1. reqPc'[c] = "startClean" /\ req'[c].left = Artifacts(Tasks) /\ reqPc[c] = "idle"
        /\ UNCHANGED <<batches, cur, wk, files>>
    BY <1>1, <1>6 DEF StartCheck, Accepting, control
  <2>2. LeftOf(c)'
    BY <1>3, <2>1 DEF LeftOf
  <2>3. Owned'
    BY <1>0, <1>3, <1>4, <2>1, RequestKeepsOwned DEF LeftOf
  <2> QED BY <1>2, <2>2, <2>3
<1>7. CASE StartClean(c)
  <2>1. reqPc[c] = "startClean" /\ Clean(req[c].left) /\ reqPc'[c] = "startInstall" /\ req'[c].left = {}
    BY <1>1, <1>7 DEF StartClean, ReqRec
  <2>2. Empty'
    BY <1>0, <1>5, <2>1, CleanAll DEF LeftOf
  <2>3. LeftOf(c)'
    BY <2>1, <2>2 DEF LeftOf
  <2>4. Owned'
    BY <2>2 DEF Empty, Owned, OwnsId, OwnsTemp
  <2> QED BY <1>2, <2>3, <2>4
<1>8. CASE StartInstall(c)
  <2>1. reqPc[c] = "startInstall" /\ reqPc'[c] = "idle" /\ req'[c].left = {} /\ UNCHANGED files
    BY <1>1, <1>8 DEF StartInstall, Answer, NewReq
  <2>2. Empty'
    BY <1>0, <1>4, <2>1 DEF LeftOf
  <2>3. LeftOf(c)'
    BY <2>1 DEF LeftOf
  <2>4. Owned'
    BY <2>2 DEF Empty, Owned, OwnsId, OwnsTemp
  <2> QED BY <1>2, <2>3, <2>4
<1>9. CASE CancelLock(c)
  <2>1. reqPc[c] = "idle" /\ reqPc'[c] = "cancel" /\ UNCHANGED <<wk, files, cur>>
    BY <1>1, <1>9 DEF CancelLock, Accepting
  <2>2. SameArtifacts
    <3>1. \A u \in Task : [u EXCEPT !.status = "pending"].gid = u.gid /\ [u EXCEPT !.status = "pending"].temp = u.temp
      BY DEF Task
    <3> QED BY <1>0, <1>9, <3>1, CancelTasks DEF SameArtifacts
  <2>3. LeftOf(c)'
    BY <2>1 DEF LeftOf
  <2>4. Owned'
    BY <1>0, <1>4, <2>1, <2>2, RequestKeepsOwned DEF LeftOf
  <2> QED BY <1>2, <2>3, <2>4
<1>10. CASE CancelPause(c)
  <2>1. /\ reqPc[c] = "cancel" /\ reqPc'[c] = "cancel" /\ UNCHANGED <<wk, batches, cur, tmpFiles>>
        /\ \E a : engine' = [engine EXCEPT ![a].st = IF @ = "running" THEN "pause" ELSE @]
    BY <1>10 DEF CancelPause, control
  <2>2. \A e \in Transfers : InUse(e)' => InUse(e)
    <3>1. engine \in [Transfers -> EngineRec]
      BY <1>0 DEF Shape, FilesOK
    <3>2. PICK a : engine' = [engine EXCEPT ![a].st = IF @ = "running" THEN "pause" ELSE @]
      BY <2>1
    <3>3. \A e \in Transfers : engine[e] \in EngineRec
      BY <3>1
    <3>4. \A e \in Transfers : engine'[e] = engine[e] \/ engine[e].st = "running"
      BY <3>1, <3>2, <3>3 DEF EngineRec
    <3> QED BY <3>4 DEF InUse
  <2>3. LeftOf(c)'
    BY <2>1 DEF LeftOf
  <2>4. Owned'
    BY <1>0, <1>3, <2>1, <2>2, RequestKeepsOwned
  <2> QED BY <1>2, <2>3, <2>4
<1>11. CASE CancelCtx(c)
  <2>1. /\ reqPc[c] = "cancel" /\ reqPc'[c] = "idle" /\ req'[c].left = {}
        /\ UNCHANGED <<wk, batches, cur, files>>
    BY <1>1, <1>11 DEF CancelCtx, Answer, NewReq
  <2>2. LeftOf(c)'
    BY <2>1 DEF LeftOf
  <2>3. Owned'
    BY <1>0, <1>3, <1>4, <2>1, RequestKeepsOwned
  <2> QED BY <1>2, <2>2, <2>3
<1>12. CASE Resume(c)
  <2>1. reqPc[c] = "idle" /\ UNCHANGED <<wk, batches, cur, files, req, reqPc>>
    BY <1>12 DEF Resume, Accepting
  <2>2. LeftOf(c)'
    BY <1>0, <2>1 DEF LeftOf
  <2>3. Owned'
    BY <1>0, <1>3, <1>4, <2>1, RequestKeepsOwned DEF LeftOf
  <2> QED BY <1>2, <2>2, <2>3
<1>13. CASE ClearLock(c)
  <2>1. /\ reqPc[c] = "idle" /\ reqPc'[c] \in {"clearCancel", "clearDrop"} /\ req'[c].left = {}
        /\ UNCHANGED <<wk, batches, cur, files>>
    BY <1>1, <1>13 DEF ClearLock, Accepting, NewReq
  <2>2. LeftOf(c)'
    BY <2>1 DEF LeftOf
  <2>3. Owned'
    BY <1>0, <1>3, <1>4, <2>1, RequestKeepsOwned DEF LeftOf
  <2> QED BY <1>2, <2>2, <2>3
<1>14. CASE ClearCancel(c) \/ ClearWait(c)
  <2>1. /\ reqPc[c] \in {"clearCancel", "clearWait"} /\ reqPc'[c] \in {"clearWait", "clearDrop"}
        /\ UNCHANGED <<wk, batches, cur, files, req>>
    BY <1>1, <1>14 DEF ClearCancel, ClearWait, control
  <2>2. LeftOf(c)'
    BY <1>0, <2>1 DEF LeftOf
  <2>3. Owned'
    BY <1>0, <1>3, <1>4, <2>1, RequestKeepsOwned DEF LeftOf
  <2> QED BY <1>2, <2>2, <2>3
<1>15. CASE ClearDrop(c)
  <2>1. /\ reqPc[c] = "clearDrop" /\ reqPc'[c] = "clearClean" /\ req'[c].left = Artifacts(Tasks)
        /\ UNCHANGED <<wk, files>> /\ req[c].left = {}
    BY <1>0, <1>1, <1>15 DEF ClearDrop, ReqRec, LeftOf
  <2>2. LeftOf(c)'
    BY <2>1 DEF LeftOf
  <2>3. \A i \in DOMAIN Tasks : \E a \in req'[c].left : a.gid = Tasks[i].gid /\ a.temp = Tasks[i].temp
    <3>1. ASSUME NEW i \in DOMAIN Tasks
          PROVE  [gid |-> Tasks[i].gid, temp |-> Tasks[i].temp] \in req'[c].left
      BY <2>1 DEF Artifacts
    <3> QED BY <3>1
  <2>4. \A e \in Transfers : InUse(e)' => OwnsId(e)'
    BY <1>0, <1>4, <2>1, <2>3 DEF Owned, OwnsId, SerialClients, StraysKept
  <2>5. \A f \in tmpFiles' : OwnsTemp(f)'
    BY <1>0, <1>4, <2>1, <2>3 DEF Owned, OwnsTemp, SerialClients, StraysKept
  <2> QED BY <1>2, <2>2, <2>4, <2>5 DEF Owned
<1>16. CASE ClearClean(c)
  <2>1. /\ reqPc[c] = "clearClean" /\ reqPc'[c] = "idle" /\ req'[c].left = {}
        /\ Clean(req[c].left) /\ UNCHANGED <<wk, batches, cur>>
    BY <1>1, <1>16 DEF ClearClean, Answer, NewReq, control
  <2>2. LeftOf(c)'
    BY <2>1 DEF LeftOf
  <2>3. Owned'
    BY <1>0, <1>3, <2>1, CleanEach, RequestKeepsOwned
  <2> QED BY <1>2, <2>2, <2>3
<1> QED BY <1>6, <1>7, <1>8, <1>9, <1>10, <1>11, <1>12, <1>13, <1>14, <1>15, <1>16 DEF Request

\* A step that leaves the tasks, the files and the requests alone.
LEMMA SameOwned ==
  ASSUME OwnInv, StrayInv', StraysKept, SameArtifacts, UNCHANGED <<reqPc, req, tmpFiles>>,
         \A e \in Transfers : InUse(e)' <=> InUse(e),
         \A x \in EveryWorker : wk'[x].gid = wk[x].gid,
         Artifacts(Tasks)' = Artifacts(Tasks)
  PROVE  OwnInv'
<1>1. ASSUME NEW e \in Transfers, InUse(e)', OwnsId(e)
      PROVE  OwnsId(e)'
  BY <1>1 DEF OwnsId, SameArtifacts, StraysKept
<1>2. ASSUME NEW f \in tmpFiles', OwnsTemp(f)
      PROVE  OwnsTemp(f)'
  BY <1>2 DEF OwnsTemp, SameArtifacts, StraysKept
<1>3. Owned'
  BY <1>1, <1>2 DEF Owned, OwnInv
<1>4. Empty => Empty'
  BY DEF Empty, StraysKept
<1>5. LeftInv'
  BY <1>4 DEF OwnInv, LeftInv, LeftOf
<1> QED BY <1>3, <1>5 DEF OwnInv

LEMMA SameOwnedTasks ==
  ASSUME OwnInv, StrayInv', StraysKept, Tasks' = Tasks, UNCHANGED <<reqPc, req, tmpFiles>>,
         \A e \in Transfers : InUse(e)' <=> InUse(e),
         \A x \in EveryWorker : wk'[x].gid = wk[x].gid
  PROVE  OwnInv'
BY SameOwned DEF SameArtifacts

\* What a worker makes while it works at a task: at most the transfer it has
\* just created and the task's file.
LEMMA MiddleMakes ==
  ASSUME Shape, NEW x \in EveryWorker, Middle(x)
  PROVE  \E t, w : /\ Moved(x, t, w)
                   /\ \A e \in Transfers : InUse(e)' => InUse(e) \/ w.gid = e
                   /\ \A f \in tmpFiles' : f \in tmpFiles \/ (w.pc = "created" /\ t.temp = f)
<1> DEFINE u == TaskOf(x)
<1>0. engine \in [Transfers -> EngineRec] /\ Holding(x) /\ u \in Task
  BY MiddleMoves, TaskOfType DEF Shape, FilesOK
<1>1. ASSUME Clean(ArtsOf(u))
      PROVE  (\A e \in Transfers : InUse(e)' => InUse(e)) /\ tmpFiles' \subseteq tmpFiles
  BY <1>1, CleanEach
<1>2. CASE WorkerBegin(x) \/ WorkerTry(x) \/ WorkerCreated(x)
  <2>1. (\E t, w : Moved(x, t, w)) /\ UNCHANGED files
    BY <1>2, BeginMoves, TryMoves, CreatedMoves
  <2> QED BY <2>1 DEF files, InUse
<1>3. CASE WorkerPrepare(x)
  <2>1. PICK t, w : /\ Moved(x, t, w) /\ t.temp = u.temp
                    /\ \/ t = u /\ UNCHANGED <<engine, tmpFiles>>
                       \/ Clean(ArtsOf(u))
                       \/ /\ t = u /\ engine' = [engine EXCEPT ![t.gid].st = "running"]
                          /\ engine[t.gid].st = "pause" /\ UNCHANGED tmpFiles
    BY <1>3, PrepareMoves
  <2>2. CASE engine' = [engine EXCEPT ![t.gid].st = "running"] /\ engine[t.gid].st = "pause"
    <3>1. \A e \in Transfers : InUse(e)' => InUse(e)
      BY <1>0, <2>2 DEF InUse
    <3> QED BY <1>1, <2>1, <3>1
  <2> QED BY <1>1, <2>1, <2>2 DEF InUse
<1>4. CASE WorkerCreate(x)
  <2>1. PICK w : /\ Moved(x, u, w)
                 /\ \/ tmpFiles' = tmpFiles \ {u.temp} /\ UNCHANGED engine
                    \/ \E e \in Transfers :
                         /\ w.gid = e /\ engine' = [engine EXCEPT ![e] = [st |-> "running", temp |-> u.temp]]
                         /\ tmpFiles' = tmpFiles \cup {u.temp}
    BY <1>4, CreateMoves
  <2>2. CASE tmpFiles' = tmpFiles \ {u.temp} /\ UNCHANGED engine
    BY <2>1, <2>2 DEF InUse
  <2>3. ASSUME NEW e \in Transfers, w.gid = e, tmpFiles' = tmpFiles \cup {u.temp},
               engine' = [engine EXCEPT ![e] = [st |-> "running", temp |-> u.temp]]
        PROVE  /\ \A d \in Transfers : InUse(d)' => InUse(d) \/ w.gid = d
               /\ \A f \in tmpFiles' : f \in tmpFiles \/ (w.pc = "created" /\ u.temp = f)
    <3>1. w.pc = "created"
      BY <2>1, <2>3, CountsAssumption DEF Moved, Transfers, NoId
    <3> QED BY <1>0, <2>3, <3>1 DEF InUse
  <2> QED BY <2>1, <2>2, <2>3
<1>5. CASE WorkerWait(x) \/ WorkerCheck(x)
  <2>1. \E t, w : /\ Moved(x, t, w)
                  /\ Clean(ArtsOf(u)) \/ UNCHANGED <<engine, tmpFiles>>
    BY <1>5, WaitMoves, CheckMoves
  <2> QED BY <1>1, <2>1 DEF InUse
<1>6. CASE WorkerMove(x)
  <2>1. PICK t, w : /\ Moved(x, t, w)
                    /\ Clean(ArtsOf(u)) \/ (Delete({u.gid}) /\ tmpFiles' = tmpFiles \ {u.temp})
    BY <1>6, MoveMoves
  <2>2. CASE Delete({u.gid}) /\ tmpFiles' = tmpFiles \ {u.temp}
    BY <2>1, <2>2 DEF Delete, InUse
  <2> QED BY <1>1, <2>1, <2>2
<1> QED BY <1>2, <1>3, <1>4, <1>5, <1>6 DEF Middle

\* The worker of a run whose tasks a batch_clear has dropped.
LEMMA DroppedOwned ==
  ASSUME SafeInv, CutKept, OwnInv, StrayInv', StraysKept, NEW x \in EveryWorker, x[1] \in cut,
         Holding(x), cur = 0, UNCHANGED <<control, reqPc, req>>, NEW w,
         wk' = [wk EXCEPT ![x] = w], (w.gid # NoId) => (w.pc = "created"),
         \A e \in Transfers : InUse(e)' => InUse(e) \/ w.gid = e,
         \A f \in tmpFiles' : f \in tmpFiles \/ (w.pc = "created" /\ (TaskOf(x).temp)' = f)
  PROVE  Owned'
<1>0. Shape /\ CrewInv /\ Owned /\ StrayInv /\ wk \in [EveryWorker -> WorkerRec] /\ PointerOK(wk[x])
  BY DEF SafeInv, CoreInv, OwnInv, Shape, WorkersOK
<1>1. x[1] \in cut'
  <2>1. x[1] \in ActiveRuns
    BY <1>0, TakenRuns DEF Taken, Holding
  <2> QED BY <2>1 DEF CutKept, ActiveRuns, control
<1>2. wk'[x] = w /\ \A y \in EveryWorker : y # x => wk'[y] = wk[y]
  BY <1>0
<1>3. Tasks' = Tasks
  BY DEF Tasks, control
<1>4. \A e \in Transfers : e # NoId
  BY CountsAssumption DEF Transfers, NoId
<1>5. w.pc = "created" => \E a \in strays' : a.gid = w.gid /\ a.temp = (TaskOf(x).temp)'
  BY <1>1, <1>2 DEF StrayInv
<1>6. ASSUME NEW e \in Transfers, InUse(e)'
      PROVE  OwnsId(e)'
  <2>1. CASE w.gid = e
    BY <1>4, <1>5, <2>1 DEF OwnsId
  <2>2. CASE InUse(e)
    <3>1. OwnsId(e)
      BY <1>0, <2>2 DEF Owned
    <3>2. CASE wk[x].gid = e
      <4>1. wk[x].pc = "created"
        BY <1>0, <1>4, <3>2 DEF PointerOK
      <4>2. \E a \in strays : a.gid = e
        BY <1>0, <3>2, <4>1 DEF StrayInv
      <4> QED BY <1>6, <4>2 DEF StraysKept, OwnsId
    <3>3. CASE \E a \in strays : a.gid = e
      BY <1>6, <3>3 DEF StraysKept, OwnsId
    <3> QED BY <1>2, <1>3, <3>1, <3>2, <3>3 DEF OwnsId
  <2> QED BY <1>6, <2>1, <2>2
<1>7. ASSUME NEW f \in tmpFiles'
      PROVE  OwnsTemp(f)'
  <2>1. CASE w.pc = "created" /\ (TaskOf(x).temp)' = f
    BY <1>5, <2>1 DEF OwnsTemp
  <2>2. CASE f \in tmpFiles
    <3>1. OwnsTemp(f)
      BY <1>0, <2>2 DEF Owned
    <3>2. CASE \E a \in strays : a.temp = f
      BY <1>7, <3>2 DEF StraysKept, OwnsTemp
    <3> QED BY <1>3, <3>1, <3>2 DEF OwnsTemp
  <2> QED BY <1>7, <2>1, <2>2
<1> QED BY <1>6, <1>7 DEF Owned

LEMMA WorkerOwned ==
  ASSUME SafeInv, InRange, CutKept, OwnInv, NEW x \in EveryWorker, Worker(x), StrayInv', StraysKept
  PROVE  OwnInv'
<1>0. CoreInv /\ Shape /\ ControlInv /\ CrewInv /\ Owned /\ LeftInv
  BY DEF SafeInv, CoreInv, OwnInv
<1>1. CASE WorkerTake(x) \/ WorkerExit(x) \/ WorkerPanic(x)
  <2>1. /\ UNCHANGED <<batches, cur, files, reqPc, req>>
        /\ \A y \in EveryWorker : wk'[y].gid = wk[y].gid
    BY <1>0, <1>1, LooseFacts
  <2>2. Tasks' = Tasks
    BY <2>1 DEF Tasks
  <2> QED BY <2>1, <2>2, SameOwnedTasks DEF files, InUse
\* A worker with a task in hand is in a run, and no batch_start is under way.
<1>2. ASSUME Taken(x), UNCHANGED <<reqPc, req>>, Owned'
      PROVE  OwnInv'
  <2>1. ActiveRuns # {}
    BY <1>0, <1>2, TakenRuns
  <2>2. \A c \in Clients : reqPc[c] \notin {"startClean", "startInstall"}
    BY <1>0, <2>1 DEF ControlInv, StartAlone
  <2>3. LeftInv'
    BY <1>0, <1>2, <2>2 DEF LeftInv, LeftOf
  <2> QED BY <1>2, <2>3 DEF OwnInv
<1>3. CASE Middle(x)
  <2>1. Taken(x) /\ UNCHANGED <<reqPc, req>>
    BY <1>0, <1>3, MiddleMoves DEF Taken, Holding
  <2>2. CASE cur # 0
    <3>1. Owned'
      BY <1>0, <1>3, <2>2, MiddleOwned
    <3> QED BY <1>2, <2>1, <3>1
  <2>3. CASE cur = 0
    <3>1. x[1] \in cut
      BY <1>0, <2>1, <2>3, InBatch
    <3>2. PICK t, w : /\ Moved(x, t, w)
                      /\ \A e \in Transfers : InUse(e)' => InUse(e) \/ w.gid = e
                      /\ \A f \in tmpFiles' : f \in tmpFiles \/ (w.pc = "created" /\ t.temp = f)
      BY <1>0, <1>3, MiddleMakes
    <3>3. Holding(x) /\ UNCHANGED <<control, reqPc, req>>
      BY <1>0, <1>3, MiddleMoves
    <3>4. TaskOf(x)' = t
      BY <1>0, <3>2, <3>3, MovedTasks, TaskOfType DEF Moved, TaskOf
    <3>5. Owned'
      BY <2>3, <3>1, <3>2, <3>3, <3>4, DroppedOwned DEF Moved
    <3> QED BY <1>2, <2>1, <3>5
  <2> QED BY <2>2, <2>3
<1>4. ASSUME Taken(x), NEW t, NEW w, PointStep(x, cur, wk[x].idx, t, w), wk[x].gid = NoId,
             wk[x].idx \in DOMAIN Tasks, UNCHANGED <<control, files, reqPc, req>>,
             Alike(t, Tasks[wk[x].idx])
      PROVE  OwnInv'
  <2>1. wk[x].idx \in DOMAIN Tasks
    BY <1>4
  <2>2. \A e \in Transfers : InUse(e)' => t.gid = e \/ (InUse(e) /\ e # Tasks[wk[x].idx].gid /\ e # wk[x].gid)
    BY <1>4, CountsAssumption DEF InUse, files, Alike, Transfers, NoId
  <2>3. \A f \in tmpFiles' : t.temp = f \/ (f \in tmpFiles /\ f # Tasks[wk[x].idx].temp)
    BY <1>4 DEF files, Alike
  <2>4. Owned'
    BY <1>0, <1>4, <2>1, <2>2, <2>3, PointOwned DEF control
  <2> QED BY <1>2, <1>4, <2>4
<1>5. CASE WorkerMark(x)
  <2>1. /\ Taken(x) /\ UNCHANGED <<control, files, reqPc, req>>
        /\ \E t, w : /\ PointStep(x, cur, wk[x].idx, t, w) /\ Alike(t, batches[cur][wk[x].idx])
                     /\ wk[x].gid = NoId
    BY <1>0, <1>5, MarkPoint
  <2>2. wk[x].idx \in DOMAIN Tasks
    <3>1. wk[x].idx \in Nat \ {0} /\ wk[x].idx <= Len(Tasks) /\ Tasks \in Seq(Task)
      BY <1>0, <1>5, TasksType DEF WorkerMark, At, Shape, WorkersOK, WorkerRec, PointerOK
    <3> QED BY <3>1
  <2>3. Tasks = batches[cur]
    BY <2>2 DEF Tasks
  <2> QED BY <1>4, <2>1, <2>2, <2>3
<1>6. CASE WorkerSettle(x)
  <2>1. /\ Taken(x) /\ Holding(x) /\ UNCHANGED <<control, files, reqPc, req>> /\ wk[x].gid = NoId
        /\ \E t : PointStep(x, wk[x].gen, wk[x].idx, t, FreeWorker) /\ Alike(t, TaskOf(x))
    BY <1>0, <1>6, SettlePoint
  <2>2. CASE cur # 0
    <3>1. wk[x].gen = cur /\ wk[x].idx \in DOMAIN Tasks
      BY <1>0, <2>1, <2>2, TaskOfType DEF CoreInv, TaskInv, OneBatch, Tasks
    <3>2. TaskOf(x) = Tasks[wk[x].idx]
      BY <2>2, <3>1 DEF Tasks, TaskOf
    <3> QED BY <1>4, <2>1, <3>1, <3>2
  <2>3. CASE cur = 0
    <3>1. Tasks' = Tasks
      BY <2>1, <2>3 DEF Tasks, control
    <3>2. \A y \in EveryWorker : wk'[y].gid = wk[y].gid
      <4>1. wk \in [EveryWorker -> WorkerRec] /\ wk' = [wk EXCEPT ![x] = FreeWorker]
        BY <1>0, <1>6 DEF WorkerSettle, Shape, WorkersOK
      <4> QED BY <2>1, <4>1 DEF FreeWorker
    <3> QED BY <2>1, <3>1, <3>2, SameOwnedTasks DEF files, InUse
  <2> QED BY <2>2, <2>3
<1> QED BY <1>1, <1>3, <1>5, <1>6 DEF Worker, Middle

LEMMA StepOwned ==
  ASSUME SerialClients, SafeInv, InRange, OwnInv, [Next]_vars
  PROVE  OwnInv'
<1>0. CoreInv /\ Shape /\ TaskInv /\ StrayInv' /\ StraysKept /\ CutKept
  BY StepStray, CutKeeps DEF SafeInv, CoreInv, OwnInv
<1>1. ASSUME NEW r \in Runs, Runner(r)
      PROVE  OwnInv'
  <2>1. Tasks' = Tasks
    BY <1>0, <1>1, RunnerTasks
  <2>2. UNCHANGED <<wk, files, reqPc, req>>
    BY <1>1 DEF Runner, RunnerBegin, RunnerSetup, DispatchPanic, DispatchSkip,
       DispatchSend, DispatchStop, DispatchEnd, RunnerWait, RunnerFinish
  <2> QED BY <1>0, <2>1, <2>2, SameOwnedTasks DEF InUse, files
<1>2. ASSUME NEW e \in Transfers, EngineEnds(e)
      PROVE  OwnInv'
  <2>1. engine \in [Transfers -> EngineRec]
    BY <1>0 DEF Shape, FilesOK
  <2>2. \A d \in Transfers : InUse(d)' <=> InUse(d)
    BY <1>2, <2>1 DEF EngineEnds, InUse, EngineRec
  <2>3. UNCHANGED <<batches, cur, wk, tmpFiles, reqPc, req>>
    BY <1>2 DEF EngineEnds, control
  <2>4. Tasks' = Tasks
    BY <2>3 DEF Tasks
  <2> QED BY <1>0, <2>2, <2>3, <2>4, SameOwnedTasks
<1>3. CASE UNCHANGED vars
  <2>1. Tasks' = Tasks /\ UNCHANGED <<wk, engine, tmpFiles, reqPc, req>>
    BY <1>3 DEF vars, control, files, Tasks
  <2> QED BY <1>0, <2>1, SameOwnedTasks DEF InUse
<1> QED BY <1>0, <1>1, <1>2, <1>3, RequestOwned, WorkerOwned DEF Next, EveryWorker

LEMMA InitOwned == Init => OwnInv
BY DEF Init, OwnInv, Owned, LeftInv, LeftOf, StrayInv, NewReq, InUse

\* Every transfer of the engine and every temporary file is a task's, a
\* worker's that has just created it, or on the list of a request that deletes
\* it: batch_start and batch_clear clean up all there is.  Only what a worker
\* creates after a batch_clear has given up waiting for its run, or has found no
\* cancelFunc to call, can be lost, and until then nothing is.
THEOREM ArtifactsKept ==
  ASSUME SerialClients
  PROVE  Spec => []ArtifactsOwned
<1> DEFINE I == SafeInv /\ Orderly /\ OwnInv
<1>1. Init => I
  BY InitSafe, InitOrderly, InitOwned
<1>2. I /\ [Next]_vars => I'
  <2> SUFFICES ASSUME I, [Next]_vars PROVE I'
    OBVIOUS
  <2>1. CoreInv /\ InRange
    BY DEF SafeInv, Orderly
  <2> QED BY <2>1, StepSafe, StepOrderly, StepOwned
<1>3. I => ArtifactsOwned
  <2> SUFFICES ASSUME OwnInv PROVE ArtifactsOwned
    OBVIOUS
  <2> DEFINE arts == Artifacts(Tasks) \cup strays \cup
              UNION {req[c].left : c \in {d \in Clients : reqPc[d] # "cancel"}}
  <2>1. \A i \in DOMAIN Tasks : [gid |-> Tasks[i].gid, temp |-> Tasks[i].temp] \in arts
    BY DEF Artifacts
  <2>2. strays \subseteq arts /\ \A c \in Clients : reqPc[c] # "cancel" => req[c].left \subseteq arts
    OBVIOUS
  <2>3. \A i \in DOMAIN Tasks : \E a \in arts : a.gid = Tasks[i].gid /\ a.temp = Tasks[i].temp
    BY <2>1
  <2> HIDE DEF arts
  <2>4. ASSUME NEW e \in Transfers, engine[e].st \notin {"unused", "gone"}
        PROVE  (\E a \in arts : a.gid = e) \/ (\E x \in EveryWorker : wk[x].gid = e)
    <3>1. OwnsId(e)
      BY <2>4 DEF OwnInv, Owned, InUse
    <3> QED BY <2>2, <2>3, <3>1 DEF OwnsId
  <2>5. ASSUME NEW f \in tmpFiles
        PROVE  \E a \in arts : a.temp = f
    <3>1. OwnsTemp(f)
      BY <2>5 DEF OwnInv, Owned
    <3> QED BY <2>2, <2>3, <3>1 DEF OwnsTemp
  <2> QED BY <2>4, <2>5 DEF ArtifactsOwned, arts, EveryWorker
<1> QED BY <1>1, <1>2, <1>3, PTL DEF Spec

-----------------------------------------------------------------------------
(* Without resume a transfer ends with the worker that waits for it.       *)

AtTransfer == {"wait", "check", "move"}
\* Only the worker at a task's transfer leaves the task its id.
IdsHeld == \A g \in DOMAIN batches : \A i \in DOMAIN batches[g] : batches[g][i].gid # NoId =>
             \E x \in EveryWorker : wk[x].pc \in AtTransfer /\ wk[x].gen = g /\ wk[x].idx = i
\* Only a worker that has just created a transfer or waits for it lets it run.
Waits(x, e) == wk[x].gid = e \/ (wk[x].pc = "wait" /\ TaskOf(x).gid = e)
RunsHeld == \A e \in Transfers : engine[e].st = "running" => \E x \in EveryWorker : Waits(x, e)
NoPauses == /\ \A e \in Transfers : engine[e].st # "pause"
            /\ \A c \in Clients : reqPc[c] = "cancel" => req[c].left = {}
NoResume == ~resumable => IdsHeld /\ RunsHeld /\ NoPauses

\* What a worker that is not at a transfer has in hand has no transfer.
LEMMA NoTransfer ==
  ASSUME CoreInv, IdsHeld, NEW x \in EveryWorker, Taken(x), wk[x].pc \notin AtTransfer,
         NEW g \in DOMAIN batches, wk[x].idx \in DOMAIN batches[g]
  PROVE  batches[g][wk[x].idx].gid = NoId
<1>0. ControlInv /\ CrewInv
  BY DEF CoreInv
<1>1. ASSUME NEW y \in EveryWorker, wk[y].pc \in AtTransfer, wk[y].idx = wk[x].idx
      PROVE  FALSE
  <2>1. Taken(y)
    BY <1>1 DEF Taken, AtTransfer
  <2>2. y = x
    BY <1>0, <1>1, <2>1, Alone
  <2> QED BY <1>1, <2>2
<1> QED BY <1>1 DEF IdsHeld

LEMMA PointHeld ==
  ASSUME CoreInv, IdsHeld, RunsHeld, NoPauses, NEW x \in EveryWorker, Taken(x),
         NEW g, NEW t, NEW w, PointStep(x, g, wk[x].idx, t, w), UNCHANGED <<reqPc, req>>,
         Holding(x) => g = wk[x].gen,
         t.gid # NoId => w.pc \in AtTransfer,
         \A e \in Transfers : engine'[e].st = "running" =>
           \/ w.gid = e \/ (w.pc = "wait" /\ t.gid = e)
           \/ engine[e].st = "running" /\ ~Waits(x, e),
         \A e \in Transfers : engine'[e].st # "pause"
  PROVE  IdsHeld' /\ RunsHeld' /\ NoPauses'
<1>0. Shape /\ ControlInv /\ CrewInv
  BY DEF CoreInv
<1>1. /\ \A y \in EveryWorker : y # x =>
           /\ wk'[y] = wk[y] /\ (Holding(y)' <=> Holding(y))
           /\ Holding(y) => TaskOf(y)' = TaskOf(y)
      /\ wk'[x] = w
      /\ Holding(x)' => TaskOf(x)' = t
  BY OthersTask
<1>2. PICK i : i = wk[x].idx /\ PointStep(x, g, i, t, w)
  OBVIOUS
<1>3. /\ DOMAIN batches' = DOMAIN batches
      /\ \A h \in DOMAIN batches : DOMAIN batches'[h] = DOMAIN batches[h]
      /\ \A h \in DOMAIN batches : \A j \in DOMAIN batches[h] :
           batches'[h][j] = IF h = g /\ j = i THEN t ELSE batches[h][j]
      /\ wk'[x] = w /\ \A y \in EveryWorker : y # x => wk'[y] = wk[y]
  <2>1. g \in DOMAIN batches /\ i \in DOMAIN batches[g]
    BY <1>2 DEF PointStep
  <2> QED BY <1>0, <1>2, <2>1, PointFacts
<1>4. w.pc \in AtTransfer => w.gen = g /\ w.idx = i
  BY <1>2 DEF PointStep, Loose, AtTransfer
<1>5. ASSUME NEW h \in DOMAIN batches, NEW j \in DOMAIN batches[h], batches'[h][j].gid # NoId
      PROVE  \E y \in EveryWorker : wk'[y].pc \in AtTransfer /\ wk'[y].gen = h /\ wk'[y].idx = j
  <2>1. CASE h = g /\ j = i
    BY <1>3, <1>4, <1>5, <2>1
  <2>2. CASE ~(h = g /\ j = i)
    <3>1. PICK y \in EveryWorker : wk[y].pc \in AtTransfer /\ wk[y].gen = h /\ wk[y].idx = j
      BY <1>3, <1>5, <2>2 DEF IdsHeld
    <3>2. CASE y # x
      BY <1>3, <3>1, <3>2
    <3>3. CASE y = x
      <4>1. Holding(x)
        BY <3>1, <3>3 DEF Holding, AtTransfer
      <4> QED BY <1>2, <2>2, <3>1, <3>3, <4>1
    <3> QED BY <3>2, <3>3
  <2> QED BY <2>1, <2>2
<1>6. IdsHeld'
  BY <1>3, <1>5 DEF IdsHeld
<1>7. ASSUME NEW e \in Transfers, engine'[e].st = "running"
      PROVE  \E y \in EveryWorker : Waits(y, e)'
  <2>1. CASE w.gid = e
    BY <1>3, <2>1 DEF Waits
  <2>2. CASE w.pc = "wait" /\ t.gid = e
    <3>1. Holding(x)'
      BY <1>3, <2>2 DEF Holding
    <3>2. TaskOf(x)' = t /\ wk'[x] = w
      BY <1>1, <3>1
    <3>3. Waits(x, e)'
      BY <2>2, <3>2 DEF Waits
    <3> QED BY <3>3
  <2>3. CASE engine[e].st = "running" /\ ~Waits(x, e)
    <3>1. PICK y \in EveryWorker : Waits(y, e)
      BY <2>3 DEF RunsHeld
    <3>2. y # x
      BY <2>3, <3>1
    <3>3. wk'[y] = wk[y] /\ (Holding(y) => TaskOf(y)' = TaskOf(y))
      BY <1>1, <3>2
    <3>4. Waits(y, e)'
      BY <3>1, <3>3 DEF Waits, Holding
    <3> QED BY <3>4
  <2> QED BY <1>7, <2>1, <2>2, <2>3
<1>8. RunsHeld' /\ NoPauses'
  BY <1>7 DEF RunsHeld, NoPauses
<1> QED BY <1>6, <1>8

\* A cleaned-up transfer does not run; cleaning up starts and pauses none.
LEMMA CleanEngine ==
  ASSUME NEW arts, Clean(arts), NEW e \in Transfers
  PROVE  /\ engine'[e].st = "running" => engine[e].st = "running" /\ \A a \in arts : a.gid # e
         /\ engine'[e].st = "pause" => engine[e].st = "pause"
<1>1. engine'[e] = [st |-> "gone", temp |-> NoPath] \/ (engine'[e] = engine[e] /\ \A a \in arts : a.gid # e)
  <2> DEFINE ids == {a.gid : a \in arts} \ {NoId}
  <2>1. Delete(ids) /\ e # NoId
    BY CountsAssumption DEF Clean, Transfers, NoId
  <2>2. engine'[e] = IF e \in ids THEN [st |-> "gone", temp |-> NoPath] ELSE engine[e]
    BY <2>1 DEF Delete
  <2>3. e \notin ids => \A a \in arts : a.gid # e
    BY <2>1
  <2> QED BY <2>2, <2>3
<1> QED BY <1>1

LEMMA MiddleHeld ==
  ASSUME SafeInv, ~resumable, IdsHeld, RunsHeld, NoPauses, NEW x \in EveryWorker, Middle(x)
  PROVE  IdsHeld' /\ RunsHeld' /\ NoPauses'
<1> DEFINE u == TaskOf(x)
<1>0. /\ CoreInv /\ Shape /\ Holding(x) /\ Taken(x) /\ WorkOf(wk[x], u) /\ u \in Task
      /\ UNCHANGED <<reqPc, req>>
  BY MiddleMoves, TaskOfType DEF SafeInv, CoreInv, WorkInv, Taken, Holding
<1>1. /\ \A e \in Transfers : e # NoId
      /\ u.gid \in Transfers \cup {NoId}
  BY <1>0, CountsAssumption DEF Transfers, NoId, Task
<1>2. wk[x].gid # NoId => wk[x].pc = "created"
  BY <1>0 DEF Shape, WorkersOK, PointerOK
<1>3. wk[x].pc \notin AtTransfer => u.gid = NoId
  BY <1>0, NoTransfer, TaskOfType DEF TaskOf
<1>4. ASSUME NEW t, NEW w, Moved(x, t, w),
             t.gid # NoId => w.pc \in AtTransfer,
             \A e \in Transfers : engine'[e].st = "running" =>
               \/ w.gid = e \/ (w.pc = "wait" /\ t.gid = e)
               \/ engine[e].st = "running" /\ ~Waits(x, e),
             \A e \in Transfers : engine'[e].st # "pause"
      PROVE  IdsHeld' /\ RunsHeld' /\ NoPauses'
  <2>1. PointStep(x, wk[x].gen, wk[x].idx, t, w)
    BY <1>0, <1>4, MovedPoint
  <2> QED BY <1>0, <1>4, <2>1, PointHeld, ZenonT(60)
\* Neither the engine nor the task's transfer changes.
<1>5. ASSUME NEW t, NEW w, Moved(x, t, w), t.gid = u.gid, engine' = engine,
             u.gid = NoId \/ w.pc \in AtTransfer, wk[x].pc \notin {"wait", "created"}
      PROVE  IdsHeld' /\ RunsHeld' /\ NoPauses'
  <2>1. \A e \in Transfers : ~Waits(x, e)
    BY <1>1, <1>2, <1>5 DEF Waits
  <2> QED BY <1>4, <1>5, <2>1 DEF NoPauses
<1>6. ASSUME NEW t, NEW w, Moved(x, t, w), Clean(ArtsOf(u)), t.gid = NoId, wk[x].pc # "created"
      PROVE  IdsHeld' /\ RunsHeld' /\ NoPauses'
  <2>1. [gid |-> u.gid, temp |-> u.temp] \in ArtsOf(u)
    BY DEF ArtsOf
  <2>2. ASSUME NEW e \in Transfers
        PROVE  /\ engine'[e].st = "running" => engine[e].st = "running" /\ u.gid # e
               /\ engine'[e].st # "pause"
    <3>1. /\ engine'[e].st = "running" => engine[e].st = "running" /\ \A a \in ArtsOf(u) : a.gid # e
          /\ engine'[e].st = "pause" => engine[e].st = "pause"
      BY <1>6, CleanEngine
    <3> QED BY <2>1, <3>1 DEF NoPauses
  <2>3. \A e \in Transfers : e # u.gid => ~Waits(x, e)
    BY <1>1, <1>2, <1>6 DEF Waits
  <2> QED BY <1>4, <1>6, <2>2, <2>3
<1>7. CASE WorkerBegin(x)
  <2>1. PICK t, w : Moved(x, t, w) /\ t.gid = u.gid
    BY <1>0, <1>7, BeginMoves
  <2>2. wk[x].pc = "begin" /\ engine' = engine
    BY <1>0, <1>7, BeginMoves DEF files
  <2> QED BY <1>3, <1>5, <2>1, <2>2 DEF AtTransfer
<1>8. CASE WorkerTry(x)
  <2>1. PICK t, w : Moved(x, t, w) /\ t.gid = u.gid
    BY <1>0, <1>8, TryMoves
  <2>2. wk[x].pc = "try" /\ engine' = engine
    BY <1>0, <1>8, TryMoves DEF files
  <2> QED BY <1>3, <1>5, <2>1, <2>2 DEF AtTransfer
<1>9. CASE WorkerPrepare(x)
  <2>1. wk[x].pc = "prepare"
    BY <1>0, <1>9, PrepareMoves
  <2>2. u.gid = NoId
    BY <1>3, <2>1 DEF AtTransfer
  <2>3. PICK t, w : Moved(x, t, w) /\ t = u /\ engine' = engine
    BY <1>0, <1>9, <2>2, PrepareMoves
  <2> QED BY <1>5, <2>1, <2>2, <2>3
<1>10. CASE WorkerCreate(x)
  <2>1. wk[x].pc = "create" /\ engine \in [Transfers -> EngineRec]
    BY <1>0, <1>10, CreateMoves DEF Shape, FilesOK
  <2>2. u.gid = NoId
    BY <1>3, <2>1 DEF AtTransfer
  <2>3. PICK w : /\ Moved(x, u, w)
                 /\ \/ UNCHANGED engine
                    \/ \E e \in Transfers :
                         w.gid = e /\ engine' = [engine EXCEPT ![e] = [st |-> "running", temp |-> u.temp]]
    BY <1>0, <1>10, CreateMoves
  <2>4. CASE UNCHANGED engine
    BY <1>5, <2>1, <2>2, <2>3, <2>4
  <2>5. ASSUME NEW e \in Transfers, w.gid = e,
               engine' = [engine EXCEPT ![e] = [st |-> "running", temp |-> u.temp]]
        PROVE  IdsHeld' /\ RunsHeld' /\ NoPauses'
    <3>1. \A d \in Transfers : d # e => engine'[d] = engine[d]
      BY <2>1, <2>5
    <3>2. engine'[e].st = "running"
      BY <2>1, <2>5
    <3>3. \A d \in Transfers : ~Waits(x, d)
      BY <1>1, <1>2, <2>1 DEF Waits
    <3>4. \A d \in Transfers : engine'[d].st # "pause"
      BY <3>1, <3>2 DEF NoPauses
    <3> QED BY <1>4, <2>2, <2>3, <2>5, <3>1, <3>3, <3>4
  <2> QED BY <2>3, <2>4, <2>5
<1>11. CASE WorkerCreated(x)
  <2>1. PICK t, w : Moved(x, t, w) /\ w.pc = "wait" /\ t.gid = wk[x].gid
    BY <1>0, <1>11, CreatedMoves
  <2>2. wk[x].pc = "created" /\ engine' = engine
    BY <1>0, <1>11, CreatedMoves DEF files
  <2>3. \A e \in Transfers : Waits(x, e) => t.gid = e
    BY <2>1, <2>2 DEF Waits
  <2> QED BY <1>4, <2>1, <2>2, <2>3 DEF AtTransfer, NoPauses
<1>12. CASE WorkerWait(x)
  <2>1. wk[x].pc = "wait" /\ wk[x].gid = NoId
    BY <1>0, <1>2, <1>12, WaitMoves
  <2>2. Status(u.gid) # "pause"
    BY <1>1 DEF Status, NoPauses
  <2>3. PICK t, w : /\ Moved(x, t, w)
                    /\ \/ Clean(ArtsOf(u)) /\ t.gid = NoId
                       \/ /\ t = u /\ UNCHANGED <<engine, tmpFiles>>
                          /\ w.pc = "check" /\ Status(t.gid) = "done"
    BY <1>0, <1>12, <2>2, WaitMoves
  <2>4. CASE Clean(ArtsOf(u)) /\ t.gid = NoId
    BY <1>6, <2>1, <2>3, <2>4
  <2>5. CASE t = u /\ UNCHANGED engine /\ w.pc = "check" /\ Status(t.gid) = "done"
    <3>1. \A e \in Transfers : engine[e].st = "running" => ~Waits(x, e)
      BY <1>1, <2>1, <2>5 DEF Waits, Status
    <3> QED BY <1>4, <2>3, <2>5, <3>1 DEF AtTransfer, NoPauses
  <2> QED BY <2>3, <2>4, <2>5
<1>13. CASE WorkerCheck(x)
  <2>1. wk[x].pc = "check"
    BY <1>0, <1>13, CheckMoves
  <2>2. PICK t, w : /\ Moved(x, t, w)
                    /\ \/ Clean(ArtsOf(u)) /\ t.gid = NoId
                       \/ t = u /\ w.pc = "move" /\ UNCHANGED <<engine, tmpFiles>>
    BY <1>0, <1>13, CheckMoves
  <2> QED BY <1>5, <1>6, <2>1, <2>2 DEF AtTransfer
<1>14. CASE WorkerMove(x)
  <2>1. wk[x].pc = "move" /\ wk[x].gid = NoId
    BY <1>0, <1>2, <1>14, MoveMoves
  <2>2. PICK t, w : /\ Moved(x, t, w) /\ t.gid = NoId
                    /\ Clean(ArtsOf(u)) \/ Delete({u.gid})
    BY <1>0, <1>14, MoveMoves
  <2>3. CASE Clean(ArtsOf(u))
    BY <1>6, <2>1, <2>2, <2>3
  <2>4. CASE Delete({u.gid})
    <3>1. \A e \in Transfers : /\ engine'[e].st = "running" => engine[e].st = "running"
                               /\ engine'[e].st # "pause" /\ ~Waits(x, e)
      BY <1>1, <2>1, <2>4 DEF Delete, NoPauses, Waits
    <3> QED BY <1>4, <2>2, <3>1
  <2> QED BY <2>2, <2>3, <2>4
<1> QED BY <1>7, <1>8, <1>9, <1>10, <1>11, <1>12, <1>13, <1>14 DEF Middle

LEMMA WorkerHeld ==
  ASSUME SafeInv, ~resumable, IdsHeld, RunsHeld, NoPauses, NEW x \in EveryWorker, Worker(x)
  PROVE  IdsHeld' /\ RunsHeld' /\ NoPauses'
<1>0. CoreInv /\ Shape
  BY DEF SafeInv, CoreInv
<1>1. CASE WorkerTake(x) \/ WorkerExit(x) \/ WorkerPanic(x)
  <2>1. /\ UNCHANGED <<batches, files, reqPc, req>>
        /\ \A y \in EveryWorker : /\ Holding(y)' <=> Holding(y)
                                  /\ Holding(y) => wk'[y] = wk[y] /\ TaskOf(y)' = TaskOf(y)
                                  /\ wk'[y].gid = wk[y].gid
    BY <1>0, <1>1, LooseFacts
  <2>2. IdsHeld'
    BY <2>1 DEF IdsHeld, Holding, AtTransfer
  <2>3. \A y \in EveryWorker, e \in Transfers : Waits(y, e) => Waits(y, e)'
    BY <2>1 DEF Waits, Holding
  <2>4. engine' = engine
    BY <2>1 DEF files
  <2> QED BY <2>1, <2>2, <2>3, <2>4 DEF RunsHeld, NoPauses
\* A step at a task that has no transfer, in the engine neither.
<1>2. ASSUME Taken(x), NEW g, NEW t, NEW w, PointStep(x, g, wk[x].idx, t, w), wk[x].gid = NoId,
             UNCHANGED <<files, reqPc, req>>, Holding(x) => g = wk[x].gen,
             Alike(t, batches[g][wk[x].idx]), wk[x].pc \notin AtTransfer
      PROVE  IdsHeld' /\ RunsHeld' /\ NoPauses'
  <2>1. t.gid = NoId
    BY <1>0, <1>2, NoTransfer DEF PointStep, Alike
  <2>2. \A e \in Transfers : ~Waits(x, e)
    BY <1>2, CountsAssumption DEF Waits, Transfers, NoId, AtTransfer
  <2>3. engine' = engine
    BY <1>2 DEF files
  <2> QED BY <1>0, <1>2, <2>1, <2>2, <2>3, PointHeld DEF NoPauses
<1>3. CASE WorkerMark(x)
  <2>1. /\ Taken(x) /\ ~Holding(x) /\ UNCHANGED <<files, reqPc, req>>
        /\ \E t, w : /\ PointStep(x, cur, wk[x].idx, t, w) /\ Alike(t, batches[cur][wk[x].idx])
                     /\ wk[x].gid = NoId
    BY <1>0, <1>3, MarkPoint
  <2> QED BY <1>2, <2>1 DEF Holding, AtTransfer
<1>4. CASE WorkerSettle(x)
  <2>1. /\ Taken(x) /\ wk[x].pc = "settle" /\ UNCHANGED <<files, reqPc, req>> /\ wk[x].gid = NoId
        /\ \E t : PointStep(x, wk[x].gen, wk[x].idx, t, FreeWorker) /\ Alike(t, TaskOf(x))
    BY <1>0, <1>4, SettlePoint
  <2> QED BY <1>2, <2>1 DEF TaskOf, AtTransfer
<1> QED BY <1>1, <1>3, <1>4, MiddleHeld DEF Worker, Middle

LEMMA OutsideHeld ==
  ASSUME Shape, ~resumable, IdsHeld, RunsHeld, NoPauses, Outside
  PROVE  IdsHeld' /\ RunsHeld' /\ NoPauses'
<1>1. /\ wk' = wk
      /\ \A y \in EveryWorker : Holding(y) => TaskOf(y)'.gid = TaskOf(y).gid
  BY OutsideFacts DEF Alike
<1>2. IdsHeld'
  <2>1. ASSUME NEW h \in DOMAIN batches', NEW j \in DOMAIN batches'[h], batches'[h][j].gid # NoId
        PROVE  \E x \in EveryWorker : wk'[x].pc \in AtTransfer /\ wk'[x].gen = h /\ wk'[x].idx = j
    <3>1. \/ h \in DOMAIN batches /\ j \in DOMAIN batches[h] /\ batches'[h][j].gid = batches[h][j].gid
          \/ \E v : batches'[h][j] = NewTask(v)
      BY OutsideFacts DEF Alike
    <3> QED BY <1>1, <2>1, <3>1 DEF IdsHeld, NewTask
  <2> QED BY <2>1 DEF IdsHeld
<1>3. /\ \A e \in Transfers : engine'[e].st = "running" => engine[e].st = "running"
      /\ \A e \in Transfers : engine'[e].st # "pause"
  <2>0. engine \in [Transfers -> EngineRec] /\ req \in [Clients -> ReqRec]
    BY DEF Shape, FilesOK, ReqOK
  <2>1. CASE engine' = engine
    BY <2>1 DEF NoPauses
  <2>2. ASSUME NEW arts, Clean(arts)
        PROVE  /\ \A e \in Transfers : engine'[e].st = "running" => engine[e].st = "running"
               /\ \A e \in Transfers : engine'[e].st # "pause"
    BY <2>2, CleanEngine DEF NoPauses
  <2>3. ASSUME NEW c \in Clients, Request(c)
        PROVE  engine' = engine \/ \E arts : Clean(arts)
    <3>1. ~CancelPause(c)
      BY DEF CancelPause, NoPauses
    <3> QED BY <2>3, <3>1 DEF Request, StartCheck, StartClean, StartInstall, CancelLock, CancelCtx,
         Resume, ClearLock, ClearCancel, ClearWait, ClearDrop, ClearClean, files
  <2>4. ASSUME NEW r \in Runs, Runner(r)
        PROVE  engine' = engine
    BY <2>4 DEF Runner, RunnerBegin, RunnerSetup, DispatchPanic, DispatchSkip,
       DispatchSend, DispatchStop, DispatchEnd, RunnerWait, RunnerFinish, files
  <2>5. ASSUME NEW e \in Transfers, EngineEnds(e)
        PROVE  /\ \A d \in Transfers : engine'[d].st = "running" => engine[d].st = "running"
               /\ \A d \in Transfers : engine'[d].st # "pause"
    <3>1. PICK st \in {"done", "error"} : engine' = [engine EXCEPT ![e].st = st]
      BY <2>5 DEF EngineEnds
    <3>2. engine'[e].st = st /\ \A d \in Transfers : d # e => engine'[d] = engine[d]
      BY <2>0, <3>1 DEF EngineRec
    <3> QED BY <3>2 DEF NoPauses
  <2>6. UNCHANGED vars => engine' = engine
    BY DEF vars, files
  <2> QED BY <2>1, <2>2, <2>3, <2>4, <2>5, <2>6 DEF Outside
<1>4. RunsHeld'
  <2>1. \A x \in EveryWorker, e \in Transfers : Waits(x, e) => Waits(x, e)'
    BY <1>1 DEF Waits, Holding
  <2> QED BY <1>3, <2>1 DEF RunsHeld
<1>5. ASSUME NEW c \in Clients, reqPc'[c] = "cancel"
      PROVE  req'[c].left = {}
  <2>0. req \in [Clients -> ReqRec] /\ reqPc \in [Clients -> ReqPcs]
    BY DEF Shape, ReqOK
  <2>1. CASE UNCHANGED <<reqPc, req>>
    BY <1>5, <2>1 DEF NoPauses
  <2>2. ASSUME NEW d \in Clients, Request(d), d # c
        PROVE  req'[c] = req[c] /\ reqPc'[c] = reqPc[c]
    BY <2>0, <2>2 DEF Request, StartCheck, StartClean, StartInstall, CancelLock, CancelPause, CancelCtx,
       Resume, ClearLock, ClearCancel, ClearWait, ClearDrop, ClearClean, Answer
  <2>3. CASE CancelLock(c)
    <3>1. req'[c].left = {a \in Artifacts(Tasks) : /\ resumable /\ a.gid # NoId
            /\ \E i \in Interrupted(running /\ cancelFunc # NoRun) : Tasks[i].gid = a.gid}
      BY <2>0, <2>3 DEF CancelLock, NewReq
    <3> QED BY <3>1
  <2>4. CASE Request(c) /\ ~CancelLock(c)
    <3>1. CancelPause(c)
      BY <1>5, <2>0, <2>4 DEF Request, StartCheck, StartClean, StartInstall, CancelCtx, Resume,
         Accepting, ClearLock, ClearCancel, ClearWait, ClearDrop, ClearClean, Answer
    <3> QED BY <3>1 DEF CancelPause, NoPauses
  <2>5. ASSUME NEW r \in Runs, Runner(r)
        PROVE  UNCHANGED <<reqPc, req>>
    BY <2>5 DEF Runner, RunnerBegin, RunnerSetup, DispatchPanic, DispatchSkip,
       DispatchSend, DispatchStop, DispatchEnd, RunnerWait, RunnerFinish
  <2> QED BY <1>5, <2>1, <2>2, <2>3, <2>4, <2>5 DEF Outside, EngineEnds, vars, NoPauses
<1> QED BY <1>2, <1>3, <1>4, <1>5 DEF NoPauses

LEMMA InitNoResume == Init => NoResume
BY DEF Init, NoResume, IdsHeld, RunsHeld, NoPauses

LEMMA StepNoResume ==
  ASSUME SafeInv, NoResume, [Next]_vars
  PROVE  NoResume'
<1>1. resumable' = resumable
  BY DEF Next, Alive, vars
<1>2. Shape
  BY DEF SafeInv, CoreInv
<1> QED BY <1>1, <1>2, WorkerOrOutside, WorkerHeld, OutsideHeld DEF NoResume

\* With DownloadResumeEnabled off, a worker that gives up deletes its transfer
\* (downloadVideoOnce's cleanup): once the run is over the engine is idle.
THEOREM IdleAfterRun ==
  ASSUME SerialClients
  PROVE  Spec => []StopWithoutResume
<1>1. Init => SafeInv /\ NoResume
  BY InitSafe, InitNoResume
<1>2. SafeInv /\ NoResume /\ [Next]_vars => (SafeInv /\ NoResume)'
  BY StepSafe, StepNoResume
<1>3. SafeInv /\ NoResume => StopWithoutResume
  <2> SUFFICES ASSUME SafeInv, NoResume, ~resumable, ActiveRuns = {}, NEW e \in Transfers,
                      engine[e].st = "running"
               PROVE  FALSE
    BY DEF StopWithoutResume, TransfersStop
  <2>1. Shape /\ CrewInv
    BY DEF SafeInv, CoreInv
  <2>2. PICK x \in EveryWorker : Waits(x, e)
    BY DEF NoResume, RunsHeld
  <2>3. ~Taken(x)
    BY <2>1, QuietHands
  <2>4. wk[x].gid = NoId /\ e # NoId
    BY <2>1, <2>3, CountsAssumption DEF Shape, WorkersOK, PointerOK, Taken, Transfers, NoId
  <2> QED BY <2>2, <2>3, <2>4 DEF Waits, Taken
<1> QED BY <1>1, <1>2, <1>3, PTL DEF Spec

-----------------------------------------------------------------------------
(* Unless a download is forced, a video is stored once.                    *)

\* Nothing is forced; no list of videos names one twice.
NeverForced == Forces \subseteq {FALSE}
DistinctVideos == \A l \in Lists : \A i, j \in DOMAIN l : l[i] = l[j] => i = j

Unforced == /\ \A r \in Runs : run[r].force = FALSE
            /\ \A c \in Clients : req[c].force = FALSE
Apart == \A g \in DOMAIN batches : \A i, j \in DOMAIN batches[g] :
           batches[g][i].video = batches[g][j].video => i = j
\* A record names a file that is there, and a file's video has a record.
Recorded == /\ \A v \in Videos : records[v] # NoPath => Stored(records[v])
            /\ \A f \in disk : records[f[2]] # NoPath
\* From its look at the record until its file is stored a worker is the one
\* that stores its video.
Unstored == \A x \in EveryWorker : wk[x].pc \in Attempt => records[TaskOf(x).video] = NoPath
OnceInv == Unforced /\ Apart /\ Recorded /\ Unstored /\ StoredOnce

LEMMA StepUnforced ==
  ASSUME NeverForced, Shape, Unforced, [Next]_vars
  PROVE  Unforced'
<1>0. /\ run \in [Runs -> RunRec] /\ req \in [Clients -> ReqRec]
      /\ \A r \in Runs : run[r] \in RunRec
      /\ \A c \in Clients : req[c] \in ReqRec
  BY DEF Shape, RunOK, ReqOK
<1>1. ASSUME NEW force \in {FALSE}, Spawn(force)
      PROVE  \A r \in Runs : run'[r].force = FALSE
  <2>1. PICK s \in Runs : run' = [run EXCEPT ![s].force = force]
    BY <1>1 DEF Spawn
  <2>2. run[s] \in RunRec
    BY <1>0
  <2>3. run'[s].force = force
    BY <1>0, <2>1, <2>2 DEF RunRec
  <2>4. \A r \in Runs : r # s => run'[r] = run[r]
    BY <1>0, <2>1
  <2> QED BY <2>3, <2>4 DEF Unforced
<1>2. ASSUME NEW c \in Clients, Request(c)
      PROVE  Unforced'
  <2>1. \A d \in Clients : req'[d].force = FALSE
    <3>1. \A d \in Clients : d # c => req'[d] = req[d]
      BY <1>0, <1>2 DEF Request, StartCheck, StartClean, StartInstall, CancelLock, CancelPause, CancelCtx,
         Resume, ClearLock, ClearCancel, ClearWait, ClearDrop, ClearClean, Answer
    <3>2. req'[c].force = FALSE
      <4>1. CASE StartCheck(c)
        <5>1. PICK l \in Lists, force \in Forces :
                req' = [req EXCEPT ![c] = [list |-> l, force |-> force,
                                           stop |-> NoRun, left |-> Artifacts(Tasks)]]
          BY <4>1 DEF StartCheck
        <5>2. force = FALSE
          BY DEF NeverForced
        <5>3. req'[c] = [list |-> l, force |-> force, stop |-> NoRun, left |-> Artifacts(Tasks)]
          BY <1>0, <5>1
        <5> QED BY <5>2, <5>3
      <4>2. CASE StartInstall(c) \/ CancelCtx(c) \/ ClearClean(c)
        BY <1>0, <4>2 DEF StartInstall, CancelCtx, ClearClean, Answer, NewReq
      <4>3. CASE CancelLock(c) \/ ClearLock(c)
        BY <1>0, <4>3 DEF CancelLock, ClearLock, NewReq
      <4>4. CASE StartClean(c) \/ ClearDrop(c) \/ CancelPause(c)
        BY <1>0, <4>4 DEF StartClean, ClearDrop, CancelPause, ReqRec, Unforced
      <4>5. CASE Resume(c) \/ ClearCancel(c) \/ ClearWait(c)
        BY <4>5 DEF Resume, ClearCancel, ClearWait, Unforced
      <4> QED BY <1>2, <4>1, <4>2, <4>3, <4>4, <4>5 DEF Request
    <3> QED BY <3>1, <3>2 DEF Unforced
  <2>2. \A r \in Runs : run'[r].force = FALSE
    <3>1. CASE StartInstall(c)
      BY <1>1, <3>1 DEF StartInstall, Unforced
    <3>2. CASE Resume(c)
      BY <1>1, <3>2 DEF Resume, NeverForced
    <3>3. CASE ~StartInstall(c) /\ ~Resume(c)
      BY <1>2, <3>3 DEF Request, StartCheck, StartClean, CancelLock, CancelPause, CancelCtx,
         ClearLock, ClearCancel, ClearWait, ClearDrop, ClearClean, Unforced
    <3> QED BY <3>1, <3>2, <3>3
  <2> QED BY <2>1, <2>2 DEF Unforced
<1>3. ASSUME NEW r \in Runs, Runner(r)
      PROVE  Unforced'
  <2>1. \A s \in Runs : s # r => run'[s] = run[s]
    BY <1>0, <1>3 DEF Runner, RunnerBegin, RunnerSetup, DispatchPanic, DispatchSkip,
       DispatchSend, DispatchStop, DispatchEnd, RunnerWait, RunnerFinish
  <2>2. run'[r].force = FALSE
    <3>1. CASE RunnerFinish(r)
      BY <1>0, <3>1 DEF RunnerFinish, NewRun
    <3>2. CASE DispatchSkip(r) \/ DispatchSend(r) \/ RunnerSetup(r)
      <4>1. run[r].force = FALSE /\ run[r] \in RunRec
        BY <1>0 DEF Unforced
      <4>2. run'[r].force = run[r].force
        <5>1. CASE DispatchSkip(r)
          BY <1>0, <4>1, <5>1 DEF DispatchSkip, RunRec
        <5>2. CASE DispatchSend(r)
          BY <1>0, <4>1, <5>2 DEF DispatchSend, RunRec
        <5>3. CASE RunnerSetup(r)
          BY <1>0, <4>1, <5>3 DEF RunnerSetup, RunRec
        <5> QED BY <3>2, <5>1, <5>2, <5>3
      <4> QED BY <4>1, <4>2
    <3>3. CASE ~RunnerFinish(r) /\ ~(DispatchSkip(r) \/ DispatchSend(r) \/ RunnerSetup(r))
      BY <1>3, <3>3 DEF Runner, RunnerBegin, DispatchPanic, DispatchStop, DispatchEnd,
         RunnerWait, Unforced
    <3> QED BY <3>1, <3>2, <3>3
  <2>3. req' = req
    BY <1>3 DEF Runner, RunnerBegin, RunnerSetup, DispatchPanic, DispatchSkip,
       DispatchSend, DispatchStop, DispatchEnd, RunnerWait, RunnerFinish
  <2> QED BY <2>1, <2>2, <2>3 DEF Unforced
<1>4. ASSUME NEW x \in EveryWorker, Worker(x)
      PROVE  Unforced'
  <2>1. CASE WorkerTake(x)
    <3>1. /\ run' = [run EXCEPT ![x[1]].chan = Tail(run[x[1]].chan)] /\ x[1] \in Runs
          /\ run[x[1]] \in RunRec
      BY <2>1, TakeFacts
    <3>2. \A r \in Runs : run'[r].force = run[r].force
      BY <1>0, <3>1 DEF RunRec
    <3>3. req' = req
      BY <2>1 DEF WorkerTake
    <3> QED BY <3>2, <3>3 DEF Unforced
  <2>2. CASE ~WorkerTake(x)
    <3>1. UNCHANGED <<run, req>>
      BY <1>4, <2>2 DEF Worker, WorkerExit, WorkerMark, WorkerPanic, WorkerBegin, WorkerTry,
         WorkerPrepare, WorkerCreate, WorkerCreated, WorkerWait, WorkerCheck, WorkerMove, WorkerSettle
    <3> QED BY <3>1 DEF Unforced
  <2> QED BY <2>1, <2>2
<1>5. CASE UNCHANGED <<run, req>>
  BY <1>5 DEF Unforced
<1> QED BY <1>2, <1>3, <1>4, <1>5 DEF Next, EngineEnds, vars, EveryWorker

LEMMA PointApart ==
  ASSUME Shape, Apart, NEW x \in EveryWorker, NEW g, NEW i, NEW t, NEW w, PointStep(x, g, i, t, w)
  PROVE  Apart'
<1>1. /\ DOMAIN batches' = DOMAIN batches
      /\ \A h \in DOMAIN batches : DOMAIN batches'[h] = DOMAIN batches[h]
      /\ \A h \in DOMAIN batches : \A j \in DOMAIN batches[h] :
           batches'[h][j] = IF h = g /\ j = i THEN t ELSE batches[h][j]
  BY PointFacts
<1>2. t.video = batches[g][i].video
  BY DEF PointStep
<1>3. \A h \in DOMAIN batches : \A j \in DOMAIN batches[h] : batches'[h][j].video = batches[h][j].video
  BY <1>1, <1>2
<1> QED BY <1>1, <1>3 DEF Apart

LEMMA OutsideApart ==
  ASSUME DistinctVideos, Shape, Apart, Outside
  PROVE  Apart'
<1>1. ASSUME NEW c \in Clients, StartInstall(c)
      PROVE  Apart'
  <2>1. /\ batches' \in Seq(Seq(Task)) /\ Len(batches') = Len(batches) + 1
        /\ \A g \in DOMAIN batches : batches'[g] \in {batches[g], <<>>}
        /\ cur' = Len(batches) + 1 /\ DOMAIN batches'[cur'] = DOMAIN req[c].list
        /\ \A i \in DOMAIN req[c].list : batches'[cur'][i] = NewTask(req[c].list[i])
        /\ req[c].list \in Lists
    BY <1>1, InstallFacts
  <2>2. ASSUME NEW h \in DOMAIN batches', NEW i \in DOMAIN batches'[h], NEW j \in DOMAIN batches'[h],
               batches'[h][i].video = batches'[h][j].video
        PROVE  i = j
    <3>1. CASE h \in DOMAIN batches
      <4>1. batches'[h] = batches[h] \/ batches'[h] = <<>>
        BY <2>1, <3>1
      <4>2. batches'[h] = batches[h]
        BY <2>2, <4>1
      <4> QED BY <2>2, <3>1, <4>2 DEF Apart
    <3>2. CASE h \notin DOMAIN batches
      <4>1. batches \in Seq(Seq(Task))
        BY DEF Shape, TasksOK
      <4>2. h = cur'
        BY <2>1, <3>2, <4>1
      <4>4. i \in DOMAIN req[c].list /\ j \in DOMAIN req[c].list
        BY <2>1, <2>2, <4>2
      <4>5. /\ batches'[h][i] = NewTask(req[c].list[i])
            /\ batches'[h][j] = NewTask(req[c].list[j])
        BY <2>1, <4>2, <4>4
      <4>6. \A z : NewTask(z).video = z
        BY DEF NewTask
      <4>3. req[c].list[i] = req[c].list[j]
        BY <2>2, <4>5, <4>6
      <4> QED BY <2>1, <4>4, <4>3 DEF DistinctVideos
    <3> QED BY <3>1, <3>2
  <2> QED BY <2>2 DEF Apart
<1>2. CASE \A c \in Clients : ~StartInstall(c)
  <2>1. \A h \in DOMAIN batches' : \A j \in DOMAIN batches'[h] :
          /\ h \in DOMAIN batches /\ j \in DOMAIN batches[h]
          /\ batches'[h][j].video = batches[h][j].video
    BY <1>2, OutsideFacts DEF Alike
  <2> QED BY <2>1 DEF Apart
<1> QED BY <1>1, <1>2

\* A step that stores nothing.
LEMMA SameRecords ==
  ASSUME Recorded, StoredOnce, UNCHANGED <<disk, records>>
  PROVE  Recorded' /\ StoredOnce'
BY DEF Recorded, StoredOnce, Stored

LEMMA PointUnstored ==
  ASSUME CoreInv, Unstored, NEW x \in EveryWorker, Taken(x), NEW g, NEW t, NEW w,
         PointStep(x, g, wk[x].idx, t, w), w.pc \in Attempt => records'[t.video] = NoPath,
         \A y \in EveryWorker : y # x /\ wk[y].pc \in Attempt =>
           records'[TaskOf(y).video] = records[TaskOf(y).video]
  PROVE  Unstored'
<1>1. /\ \A y \in EveryWorker : y # x =>
           /\ wk'[y] = wk[y] /\ (Holding(y)' <=> Holding(y))
           /\ Holding(y) => TaskOf(y)' = TaskOf(y)
      /\ wk'[x] = w
      /\ Holding(x)' => TaskOf(x)' = t
  BY OthersTask
<1>2. \A y \in EveryWorker : wk[y].pc \in Attempt => Holding(y)
  BY DEF Attempt, Holding
<1>3. ASSUME NEW y \in EveryWorker, wk'[y].pc \in Attempt
      PROVE  records'[TaskOf(y)'.video] = NoPath
  <2>1. CASE y = x
    <3>1. Holding(x)'
      BY <1>3, <2>1 DEF Attempt, Holding
    <3> QED BY <1>1, <1>3, <2>1, <3>1
  <2>2. CASE y # x
    <3>1. wk[y].pc \in Attempt /\ TaskOf(y)' = TaskOf(y)
      BY <1>1, <1>2, <1>3, <2>2
    <3> QED BY <2>2, <3>1 DEF Unstored
  <2> QED BY <2>1, <2>2
<1> QED BY <1>3 DEF Unstored

\* Two workers with a task each have different videos.
LEMMA OtherVideos ==
  ASSUME CoreInv, Apart, NEW x \in EveryWorker, Holding(x), NEW y \in EveryWorker, Holding(y), y # x
  PROVE  TaskOf(y).video # TaskOf(x).video
<1>0. Shape /\ ControlInv /\ CrewInv /\ TaskInv
  BY DEF CoreInv
<1>1. wk[y].gen = wk[x].gen
  BY <1>0 DEF TaskInv, OneBatch
<1>2. Taken(x) /\ Taken(y)
  BY DEF Taken, Holding
<1>3. wk[y].idx # wk[x].idx
  BY <1>0, <1>2, Alone
<1>4. /\ wk[x].gen \in DOMAIN batches /\ wk[x].idx \in DOMAIN batches[wk[x].gen]
      /\ wk[y].idx \in DOMAIN batches[wk[x].gen]
  BY <1>0, <1>1, TaskOfType
<1> QED BY <1>1, <1>3, <1>4 DEF TaskOf, Apart

LEMMA MiddleOnce ==
  ASSUME CoreInv, OnceInv, NEW x \in EveryWorker, Middle(x)
  PROVE  Apart' /\ Recorded' /\ Unstored' /\ StoredOnce'
<1> DEFINE u == TaskOf(x)
           v == u.video
<1>0. /\ Shape /\ Holding(x) /\ Taken(x) /\ u \in Task /\ v \in Videos
      /\ Apart /\ Recorded /\ Unstored /\ StoredOnce
  BY MiddleMoves, TaskOfType DEF CoreInv, OnceInv, Taken, Holding, Task
<1>1. /\ records \in [Videos -> Paths \cup {NoPath}] /\ disk \subseteq Paths \X Videos
  BY <1>0 DEF Shape, FilesOK
<1>2. ASSUME NEW t, NEW w, Moved(x, t, w)
      PROVE  /\ PointStep(x, wk[x].gen, wk[x].idx, t, w) /\ t.video = v
             /\ Apart'
  <2>1. PointStep(x, wk[x].gen, wk[x].idx, t, w)
    BY <1>0, <1>2, MovedPoint
  <2> QED BY <1>0, <1>2, <2>1, PointApart DEF Moved
\* A step that stores nothing, of a worker that goes on or has looked.
<1>3. ASSUME NEW t, NEW w, Moved(x, t, w), UNCHANGED <<disk, records>>,
             w.pc \in Attempt => records[v] = NoPath
      PROVE  Apart' /\ Recorded' /\ Unstored' /\ StoredOnce'
  <2>1. PointStep(x, wk[x].gen, wk[x].idx, t, w) /\ t.video = v /\ Apart'
    BY <1>2, <1>3
  <2>2. w.pc \in Attempt => records'[t.video] = NoPath
    BY <1>3, <2>1
  <2>3. \A y \in EveryWorker : y # x /\ wk[y].pc \in Attempt =>
           records'[TaskOf(y).video] = records[TaskOf(y).video]
    BY <1>3
  <2>4. Unstored'
    BY <1>0, <2>1, <2>2, <2>3, PointUnstored
  <2> QED BY <1>0, <1>3, <2>1, <2>4, SameRecords
<1>4. CASE WorkerBegin(x)
  <2>1. PICK t, w : Moved(x, t, w) /\ (AlreadyStored(x) => w.pc = "settle")
    BY <1>0, <1>4, BeginMoves
  <2>2. UNCHANGED <<disk, records>>
    BY <1>0, <1>4, BeginMoves DEF files
  <2>3. ~AlreadyStored(x) => records[v] = NoPath
    <3>1. x[1] \in Runs
      BY DEF EveryWorker
    <3> QED BY <1>0, <3>1 DEF AlreadyStored, OnceInv, Unforced, Recorded
  <2>4. w.pc \in Attempt => records[v] = NoPath
    BY <2>1, <2>3 DEF Attempt
  <2> QED BY <1>3, <2>1, <2>2, <2>4
<1>5. CASE ~WorkerBegin(x) /\ ~WorkerMove(x)
  <2>1. wk[x].pc \in Attempt /\ UNCHANGED <<disk, records>>
    BY <1>5 DEF Middle, WorkerTry, WorkerPrepare, WorkerCreate, WorkerCreated, WorkerWait,
       WorkerCheck, At, Attempt, files
  <2>2. records[v] = NoPath
    BY <1>0, <2>1 DEF Unstored
  <2>3. PICK t, w : Moved(x, t, w)
    BY <1>0, MiddleMoves
  <2> QED BY <1>3, <2>1, <2>2, <2>3
<1>6. CASE WorkerMove(x)
  <2>1. wk[x].pc = "move" /\ records[v] = NoPath
    BY <1>0, <1>6, MoveMoves DEF Unstored, Attempt
  <2>2. PICK t, w :
              /\ Moved(x, t, w)
              /\ \/ /\ w.pc = "settle"
                    /\ disk' = {f \in disk : f[1] # wk[x].dest} \cup {<<wk[x].dest, v>>}
                    /\ records' = IF records[v] # NoPath THEN records
                                  ELSE [records EXCEPT ![v] = wk[x].dest]
                 \/ UNCHANGED <<disk, records>>
    BY <1>0, <1>6, MoveMoves, ZenonT(60)
  <2>3. CASE UNCHANGED <<disk, records>>
    BY <1>3, <2>1, <2>2, <2>3
  <2>4. CASE /\ w.pc = "settle"
             /\ disk' = {f \in disk : f[1] # wk[x].dest} \cup {<<wk[x].dest, v>>}
             /\ records' = IF records[v] # NoPath THEN records
                           ELSE [records EXCEPT ![v] = wk[x].dest]
    <3>0. wk[x].dest \in Paths /\ wk[x].dest # NoPath
      BY <1>0, <2>1, NoPathAssumption DEF Shape, WorkersOK, PointerOK
    <3>1. /\ records'[v] = wk[x].dest
          /\ \A z \in Videos : z # v => records'[z] = records[z]
      BY <1>0, <1>1, <2>1, <2>4
    <3>2. \A f \in disk : f[2] # v
      BY <1>0, <2>1 DEF Recorded
    <3>3. \A f \in disk' : f \in disk \/ f = <<wk[x].dest, v>>
      BY <2>4
    <3>4. StoredOnce'
      <4>1. <<wk[x].dest, v>>[2] = v
        OBVIOUS
      <4> QED BY <1>0, <3>2, <3>3, <4>1 DEF StoredOnce
    <3>5. \A p : Stored(p) => Stored(p)'
      <4>1. ASSUME NEW f \in disk, f[1] # wk[x].dest
            PROVE  f \in disk'
        BY <2>4, <4>1
      <4>2. <<wk[x].dest, v>> \in disk' /\ <<wk[x].dest, v>>[1] = wk[x].dest
        BY <2>4
      <4> QED BY <4>1, <4>2 DEF Stored
    <3>6. PICK d : d = wk[x].dest
      OBVIOUS
    <3>7. Stored(d)'
      <4>1. <<d, v>> \in disk' /\ <<d, v>>[1] = d
        BY <2>4, <3>6
      <4> QED BY <4>1 DEF Stored
    <3>8. Recorded'
      <4>1. ASSUME NEW z \in Videos, records'[z] # NoPath
            PROVE  Stored(records[z])'
        <5>1. CASE z = v
          BY <3>1, <3>6, <3>7, <5>1 DEF Stored
        <5>2. CASE z # v
          <6>1. PICK p : p = records[z] /\ p = records'[z]
            BY <3>1, <5>2
          <6>2. Stored(p)
            BY <1>0, <4>1, <6>1 DEF Recorded
          <6>3. Stored(p)'
            BY <3>5, <6>2
          <6> QED BY <6>1, <6>3 DEF Stored
        <5> QED BY <5>1, <5>2
      <4>2. ASSUME NEW f \in disk'
            PROVE  records'[f[2]] # NoPath
        <5>1. CASE f \in disk
          <6>1. f[2] \in Videos /\ f[2] # v
            BY <1>1, <3>2, <5>1
          <6> QED BY <1>0, <3>1, <5>1, <6>1 DEF Recorded
        <5>2. CASE f = <<wk[x].dest, v>>
          BY <3>0, <3>1, <5>2
        <5> QED BY <3>3, <5>1, <5>2
      <4> QED BY <4>1, <4>2 DEF Recorded
    <3>9. Unstored' /\ Apart'
      <4>1. PointStep(x, wk[x].gen, wk[x].idx, t, w) /\ Apart'
        BY <1>2, <2>2
      <4>2. w.pc \notin Attempt
        BY <2>4 DEF Attempt
      <4>3. ASSUME NEW y \in EveryWorker, y # x, wk[y].pc \in Attempt
            PROVE  records'[TaskOf(y).video] = records[TaskOf(y).video]
        <5>1. Holding(y)
          BY <4>3 DEF Attempt, Holding
        <5>2. TaskOf(y).video # v
          BY <1>0, <4>3, <5>1, OtherVideos
        <5>3. TaskOf(y).video \in Videos
          BY <1>0, <5>1, TaskOfType DEF Task
        <5> QED BY <3>1, <5>2, <5>3
      <4>4. Unstored'
        BY <1>0, <4>1, <4>2, <4>3, PointUnstored
      <4> QED BY <4>1, <4>4
    <3> QED BY <3>4, <3>8, <3>9
  <2> QED BY <2>2, <2>3, <2>4
<1> QED BY <1>4, <1>5, <1>6

LEMMA WorkerOnce ==
  ASSUME CoreInv, OnceInv, NEW x \in EveryWorker, Worker(x)
  PROVE  Apart' /\ Recorded' /\ Unstored' /\ StoredOnce'
<1>0. Shape /\ Apart /\ Recorded /\ Unstored /\ StoredOnce
  BY DEF CoreInv, OnceInv
<1>1. CASE WorkerTake(x) \/ WorkerExit(x) \/ WorkerPanic(x)
  <2>1. /\ UNCHANGED <<batches, files>>
        /\ \A y \in EveryWorker : /\ Holding(y)' <=> Holding(y)
                                  /\ Holding(y) => wk'[y] = wk[y] /\ TaskOf(y)' = TaskOf(y)
    BY <1>0, <1>1, LooseFacts
  <2>2. \A y \in EveryWorker : wk'[y].pc \in Attempt => Holding(y)'
    BY DEF Attempt, Holding
  <2>3. UNCHANGED <<disk, records>>
    BY <2>1 DEF files
  <2>4. Unstored'
    BY <1>0, <2>1, <2>2, <2>3 DEF Unstored
  <2>5. Apart'
    BY <1>0, <2>1 DEF Apart
  <2> QED BY <1>0, <2>3, <2>4, <2>5, SameRecords
<1>2. ASSUME Taken(x), NEW g, NEW t, NEW w, PointStep(x, g, wk[x].idx, t, w), w.pc \notin Attempt,
             UNCHANGED files
      PROVE  Apart' /\ Recorded' /\ Unstored' /\ StoredOnce'
  <2>1. UNCHANGED <<disk, records>>
    BY <1>2 DEF files
  <2>2. Unstored'
    BY <1>0, <1>2, <2>1, PointUnstored
  <2>3. Apart'
    BY <1>0, <1>2, PointApart
  <2> QED BY <1>0, <2>1, <2>2, <2>3, SameRecords
<1>3. CASE WorkerMark(x)
  <2>1. /\ Taken(x) /\ UNCHANGED files
        /\ \E t, w : PointStep(x, cur, wk[x].idx, t, w) /\ w.pc = "begin"
    BY <1>0, <1>3, MarkPoint
  <2> QED BY <1>2, <2>1 DEF Attempt
<1>4. CASE WorkerSettle(x)
  <2>1. /\ Taken(x) /\ UNCHANGED files
        /\ \E t : PointStep(x, wk[x].gen, wk[x].idx, t, FreeWorker)
    BY <1>0, <1>4, SettlePoint
  <2> QED BY <1>2, <2>1 DEF Attempt, FreeWorker
<1> QED BY <1>1, <1>3, <1>4, MiddleOnce DEF Worker, Middle

LEMMA StepOnce ==
  ASSUME NeverForced, DistinctVideos, CoreInv, OnceInv, [Next]_vars
  PROVE  OnceInv'
<1>0. Shape /\ Unforced /\ Apart /\ Recorded /\ Unstored /\ StoredOnce
  BY DEF CoreInv, OnceInv
<1>1. Unforced'
  BY <1>0, StepUnforced
<1>2. CASE Outside
  <2>1. UNCHANGED <<disk, records>>
    <3>1. ASSUME NEW c \in Clients, Request(c)
          PROVE  UNCHANGED <<disk, records>>
      BY <3>1 DEF Request, StartCheck, StartClean, StartInstall, CancelLock, CancelPause, CancelCtx,
         Resume, ClearLock, ClearCancel, ClearWait, ClearDrop, ClearClean, files
    <3>2. ASSUME NEW r \in Runs, Runner(r)
          PROVE  UNCHANGED <<disk, records>>
      BY <3>2 DEF Runner, RunnerBegin, RunnerSetup, DispatchPanic, DispatchSkip,
         DispatchSend, DispatchStop, DispatchEnd, RunnerWait, RunnerFinish, files
    <3> QED BY <1>2, <3>1, <3>2 DEF Outside, EngineEnds, vars, files
  <2>2. Unstored'
    <3>1. \A y \in EveryWorker : wk[y].pc \in Attempt => Holding(y)
      BY DEF Attempt, Holding
    <3>2. wk' = wk /\ \A y \in EveryWorker : Holding(y) => TaskOf(y)'.video = TaskOf(y).video
      BY <1>0, <1>2, OutsideFacts DEF Alike
    <3> QED BY <1>0, <2>1, <3>1, <3>2 DEF Unstored
  <2> QED BY <1>0, <1>1, <1>2, <2>1, <2>2, OutsideApart, SameRecords DEF OnceInv
<1>3. ASSUME NEW x \in EveryWorker, Worker(x)
      PROVE  OnceInv'
  BY <1>1, <1>3, WorkerOnce DEF OnceInv
<1> QED BY <1>2, <1>3, WorkerOrOutside

LEMMA InitOnce == Init => OnceInv
BY DEF Init, OnceInv, Unforced, NewRun, NewReq, Apart, Recorded, Unstored, Attempt, FreeWorker,
       EveryWorker, StoredOnce

\* downloadVideo looks at the record before it downloads and saveDownloadRecord
\* writes it with the file: asked for again, cancelled, resumed, a video is on
\* disk once, if requests come one at a time, none is forced and no list names
\* a video twice.
THEOREM OneFilePerVideo ==
  ASSUME SerialClients, NeverForced, DistinctVideos
  PROVE  Spec => []StoredOnce
<1>1. Init => CoreInv /\ OnceInv
  BY InitCore, InitOnce
<1>2. CoreInv /\ OnceInv /\ [Next]_vars => (CoreInv /\ OnceInv)'
  BY StepCore, StepOnce
<1>3. OnceInv => StoredOnce
  BY DEF OnceInv
<1> QED BY <1>1, <1>2, <1>3, PTL DEF Spec

=============================================================================
