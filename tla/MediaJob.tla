------------------------------ MODULE MediaJob ------------------------------
(***************************************************************************)
(* The asynchronous media jobs: the API (MediaAiService, the internal      *)
(* callback controller, the hourly purge), the Redis queues and the Python *)
(* worker that consumes them.                                              *)
(*                                                                         *)
(* A job lives in four places that no transaction covers: its row in       *)
(* MySQL, the files of its directory, its payload in a Redis list, and the *)
(* worker that popped the payload.  Every await in the code that touches   *)
(* one of them is the end of an action here.  The two Redis clients may    *)
(* lose a reply: ioredis then sends an LPUSH again, and what a BRPOP took  *)
(* off its list reaches no worker.                                         *)
(***************************************************************************)
EXTENDS Integers, Sequences, FiniteSets

CONSTANTS
    Jobs,         \* the jobs users will ever create
    Workers,      \* media-worker processes, each with one consumer loop
    QueueKeys,    \* the Redis lists
    QueueOf,      \* the list a job's type is routed to
    PollOrder,    \* the lists a worker passes to BRPOP, in order
    AuxJobs,      \* jobs with a second input file (tts emotion, driving audio)
    SliceJobs,    \* live_slice jobs: they report progress and make directories
    Stages,       \* the progress values a live_slice job reports
    Repeats,      \* the further payloads that repeated LPUSHes put on the lists
    CopyOf,       \* the job such a payload names
    FaultBudget,  \* how many faults of each kind a behaviour may contain
    NoJob, NoCall

(* The payloads on the lists.  A job stands for the first payload that      *)
(* names it, and a member of Repeats for one that was pushed again.         *)
Payloads == Jobs \cup Repeats
JobOf(m) == IF m \in Jobs THEN m ELSE CopyOf[m]
PayloadsOf(j) == { m \in Payloads : JobOf(m) = j }

FaultKinds ==
    { "create",       \* an upload is interrupted after its row was inserted
      "drop",         \* a callback never reaches the API
      "late",         \* the client gives up, the handler still runs
      "disk",         \* unlink or rm fails with something else than ENOENT
      "popLost",      \* a BRPOP is carried out and its reply does not arrive
      "apiCrash", "workerCrash" }

ASSUME MediaJobAssumption ==
    /\ QueueOf \in [Jobs -> QueueKeys]
    /\ PollOrder \in [Workers -> Seq(QueueKeys)]
    /\ AuxJobs \subseteq Jobs
    /\ SliceJobs \subseteq Jobs
    /\ Stages \subseteq 0..100
    /\ FaultBudget \in [FaultKinds -> Nat]
    /\ Repeats \cap Jobs = {} /\ CopyOf \in [Repeats -> Jobs]
    /\ NoJob \notin Payloads

----------------------------------------------------------------------------
(* Callbacks of the worker to the API.  Each of them is made at most once   *)
(* per payload: a payload is popped once.                                   *)
Mark == <<"processing", 10>>
Done == <<"completed", 100>>
Fail == <<"failed", 0>>
Report(p) == <<"progress", p>>

Reports == { Report(p) : p \in Stages }
Calls == {Mark, Done, Fail} \cup Reports

InFlight == {"sent", "loaded", "updated", "unlinked"}
Answered == {"ok", "error"}

ASSUME NoCallAssumption == NoCall \notin Calls

VARIABLES
    row,       \* media_jobs: the row of a job, or Absent
    files,     \* what exists in <userId>/media-jobs/<jobId>
    creating,  \* how far the upload request of a job got
    unanswered,  \* jobs whose LPUSH was carried out and not yet answered
    repeated,    \* history: payloads that a repeated LPUSH put on a list
    queue,     \* the Redis lists, next to pop at the head
    call,      \* callback handlers: phase, and what completeJob loaded
    wpc, wjob, await,      \* consumer loop: step, payload, callback awaited
    lost,                  \* history: payloads popped for nobody or let go by a crash
    removal,               \* DELETE /jobs/:id in progress
    deleteRequested,       \* history: jobs whose deletion ever began
    purgeSet, purging,     \* sweep: jobs still to do, job between rm and UPDATE
    faults                 \* faults so far, by kind

dbVars == <<row, files>>
deliveryVars == <<unanswered, repeated, lost>>
workerVars == <<wpc, wjob, await>>
cleanVars == <<removal, deleteRequested, purgeSet, purging>>
vars == <<dbVars, creating, deliveryVars, queue, call, workerVars, cleanVars, faults>>

Absent == [status |-> "absent", inputKey |-> FALSE, outputKey |-> FALSE,
           progress |-> 0, error |-> FALSE, completedAt |-> "null"]
Pending == [Absent EXCEPT !.status = "pending"]

Row == [status : {"absent", "pending", "processing", "completed", "failed"},
        inputKey : BOOLEAN, outputKey : BOOLEAN, progress : 0..100,
        error : BOOLEAN, completedAt : {"null", "recent", "old"}]

Files == {"input", "aux", "outdir", "output"}
Inputs(j) == {"input"} \cup (IF j \in AuxJobs THEN {"aux"} ELSE {})

Terminal == {"completed", "failed"}
Exists(j) == row[j].status # "absent"

(* Types: a row has only the values its columns allow, a progress stays     *)
(* within 0..100 whatever a late callback writes, a list holds payloads.    *)
TypeOK ==
    /\ row \in [Jobs -> Row]
    /\ files \in [Jobs -> SUBSET Files]
    /\ creating \in [Jobs -> {"new", "inserted", "gotInput", "gotAll",
                              "keyed", "enqueued", "aborted"}]
    /\ unanswered \subseteq Jobs
    /\ repeated \subseteq Repeats
    /\ queue \in [QueueKeys -> Seq(Payloads)]
    /\ call \in [Payloads -> [Calls -> [at : {"unsent"} \cup InFlight \cup Answered,
                                        inputKey : BOOLEAN, progress : 0..100]]]
    /\ wpc \in [Workers -> {"idle", "marking", "starting", "opening", "running",
                            "written", "completing", "failing"}]
    /\ wjob \in [Workers -> Payloads \cup {NoJob}]
    /\ await \in [Workers -> Calls \cup {NoCall}]
    /\ lost \subseteq Payloads
    /\ removal \in [Jobs -> {"none", "found", "dirGone"}]
    /\ deleteRequested \subseteq Jobs
    /\ purgeSet \subseteq Jobs
    /\ purging \in Jobs \cup {NoJob}
    /\ faults \in [FaultKinds -> Nat]

Init ==
    /\ row = [j \in Jobs |-> Absent]
    /\ files = [j \in Jobs |-> {}]
    /\ creating = [j \in Jobs |-> "new"]
    /\ queue = [k \in QueueKeys |-> <<>>]
    /\ unanswered = {} /\ repeated = {}
    /\ call = [m \in Payloads |->
                 [c \in Calls |-> [at |-> "unsent", inputKey |-> FALSE, progress |-> 0]]]
    /\ wpc = [w \in Workers |-> "idle"]
    /\ wjob = [w \in Workers |-> NoJob]
    /\ await = [w \in Workers |-> NoCall]
    /\ lost = {}
    /\ removal = [j \in Jobs |-> "none"]
    /\ deleteRequested = {}
    /\ purgeSet = {}
    /\ purging = NoJob
    /\ faults = [k \in FaultKinds |-> 0]

(* The bound on faults: a behaviour holds at most FaultBudget[k] of kind k. *)
Spend(k) ==
    /\ faults[k] < FaultBudget[k]
    /\ faults' = [faults EXCEPT ![k] = @ + 1]

(* Mutant: repository.save, which inserts when no row has the id.           *)
UpsertRow(j, r) == row' = [row EXCEPT ![j] = r]

(* UPDATE media_jobs ... WHERE id = j: no row, no effect, no error. *)
UpdateRow(j, r) == row' = IF Exists(j) THEN [row EXCEPT ![j] = r] ELSE row

Answer(m, c, phase) == call' = [call EXCEPT ![m][c].at = phase]

(* LPUSH of a payload of the job.                                           *)
Push(j, m) == queue' = [queue EXCEPT ![QueueOf[j]] = Append(@, m)]

----------------------------------------------------------------------------
(* Upload requests: createVideoJob, createTtsJob, createFlashHeadJob and    *)
(* createLatentSyncJob.                                                     *)

InsertRow(j) ==
    /\ creating[j] = "new"
    /\ row' = [row EXCEPT ![j] = Pending]
    /\ creating' = [creating EXCEPT ![j] = "inserted"]
    /\ UNCHANGED <<deliveryVars, files, queue, call, workerVars, cleanVars, faults>>

SaveInput(j) ==
    /\ creating[j] = "inserted"
    /\ files' = [files EXCEPT ![j] = @ \cup {"input"}]
    /\ creating' = [creating EXCEPT ![j] = IF j \in AuxJobs THEN "gotInput" ELSE "gotAll"]
    /\ UNCHANGED <<deliveryVars, row, queue, call, workerVars, cleanVars, faults>>

SaveAux(j) ==
    /\ creating[j] = "gotInput"
    /\ files' = [files EXCEPT ![j] = @ \cup {"aux"}]
    /\ creating' = [creating EXCEPT ![j] = "gotAll"]
    /\ UNCHANGED <<deliveryVars, row, queue, call, workerVars, cleanVars, faults>>

(* repository.save of the entity held since InsertRow: a row that was       *)
(* deleted meanwhile is inserted again.                                     *)
SaveKeys(j) ==
    /\ creating[j] = "gotAll"
    /\ row' = [row EXCEPT ![j] = [IF Exists(j) THEN row[j] ELSE Pending
                                    EXCEPT !.inputKey = TRUE, !.outputKey = TRUE]]
    /\ creating' = [creating EXCEPT ![j] = "keyed"]
    /\ UNCHANGED <<deliveryVars, files, queue, call, workerVars, cleanVars, faults>>

(* Mutant: LPUSH right after the row is inserted, before the files arrive.  *)
EnqueueFirst(j) ==
    /\ creating[j] = "inserted"
    /\ Push(j, j)
    /\ creating' = [creating EXCEPT ![j] = "enqueued"]
    /\ UNCHANGED <<dbVars, deliveryVars, call, workerVars, cleanVars, faults>>

(* Mutant: a handler that pushes again when the LPUSH did not answer.       *)
EnqueueRetried(j) ==
    /\ creating[j] = "keyed"
    /\ Push(j, j)
    /\ \E x \in {"keyed", "enqueued"} : creating' = [creating EXCEPT ![j] = x]
    /\ UNCHANGED <<dbVars, deliveryVars, call, workerVars, cleanVars, faults>>

(* The reply may get lost with the connection.                              *)
Enqueue(j) ==
    /\ creating[j] = "keyed"
    /\ Push(j, j)
    /\ creating' = [creating EXCEPT ![j] = "enqueued"]
    /\ \/ unanswered' = unanswered
       \/ PayloadsOf(j) # {j} /\ unanswered' = unanswered \cup {j}
    /\ UNCHANGED <<dbVars, repeated, lost, call, workerVars, cleanVars, faults>>

(* ioredis (autoResendUnfulfilledCommands) sends the LPUSH again once it is *)
(* connected; that reply may get lost as well.                              *)
Resend(j) ==
    /\ j \in unanswered
    /\ \E m \in PayloadsOf(j) \ ({j} \cup repeated) :
          Push(j, m) /\ repeated' = repeated \cup {m}
    /\ unanswered' \in {unanswered, unanswered \ {j}}
    /\ UNCHANGED <<dbVars, creating, lost, call, workerVars, cleanVars, faults>>

(* Disk, MySQL or Redis refuses a step: the request answers 500 and nothing *)
(* done before it is undone.                                                *)
CreateFails(j) ==
    /\ creating[j] \in {"inserted", "gotInput", "gotAll", "keyed"}
    /\ Spend("create")
    /\ creating' = [creating EXCEPT ![j] = "aborted"]
    /\ UNCHANGED <<deliveryVars, row, files, queue, call, workerVars, cleanVars>>

----------------------------------------------------------------------------
(* Callback handlers of the API.                                            *)

MarkProcessing(m) ==
    /\ call[m][Mark].at = "sent"
    /\ UpdateRow(JobOf(m), [row[JobOf(m)] EXCEPT !.status = "processing", !.progress = 10])
    /\ Answer(m, Mark, "ok")
    /\ UNCHANGED <<files, creating, deliveryVars, queue, workerVars, cleanVars, faults>>

(* updateProgress reads the row, and writes the progress after an await.    *)
LoadForProgress(m, p) ==
    /\ call[m][Report(p)].at = "sent"
    /\ Answer(m, Report(p), CASE ~Exists(JobOf(m)) -> "error"
                              [] row[JobOf(m)].status \in Terminal -> "ok"
                              [] OTHER -> "loaded")
    /\ UNCHANGED <<dbVars, creating, deliveryVars, queue, workerVars, cleanVars, faults>>

WriteProgress(m, p) ==
    /\ call[m][Report(p)].at = "loaded"
    /\ UpdateRow(JobOf(m), [row[JobOf(m)] EXCEPT !.progress = p])
    /\ Answer(m, Report(p), "ok")
    /\ UNCHANGED <<files, creating, deliveryVars, queue, workerVars, cleanVars, faults>>

LoadForComplete(m, c) ==
    /\ call[m][c].at = "sent"
    /\ call' = [call EXCEPT ![m][c] =
                  [at |-> IF Exists(JobOf(m)) THEN "loaded" ELSE "error",
                   inputKey |-> row[JobOf(m)].inputKey, progress |-> row[JobOf(m)].progress]]
    /\ UNCHANGED <<dbVars, creating, deliveryVars, queue, workerVars, cleanVars, faults>>

(* Mutant: completion trusts the last report(p).                            *)
CompletedKeepsProgress(m) ==
    [row[JobOf(m)] EXCEPT !.status = "completed", !.outputKey = TRUE,
                   !.error = FALSE, !.completedAt = "recent"]

CompletedRow(m) ==
    [row[JobOf(m)] EXCEPT !.status = "completed", !.progress = 100, !.outputKey = TRUE,
                   !.error = FALSE, !.completedAt = "recent"]
FailedRow(m) ==
    [row[JobOf(m)] EXCEPT !.status = "failed", !.progress = call[m][Fail].progress,
                   !.error = TRUE, !.completedAt = "recent"]

UpdateCompleted(m, c) ==
    /\ call[m][c].at = "loaded"
    /\ UpdateRow(JobOf(m), IF c = Done THEN CompletedRow(m) ELSE FailedRow(m))
    /\ Answer(m, c, "updated")
    /\ UNCHANGED <<files, creating, deliveryVars, queue, workerVars, cleanVars, faults>>

(* deleteInputArtifact works from the entity loaded before the UPDATE.      *)
InputArtifact(m, c) == {"aux"} \cup (IF call[m][c].inputKey THEN {"input"} ELSE {})

DeleteInputArtifact(m, c) ==
    /\ call[m][c].at = "updated"
    /\ files' = [files EXCEPT ![JobOf(m)] = @ \ InputArtifact(m, c)]
    /\ Answer(m, c, "unlinked")
    /\ UNCHANGED <<row, creating, deliveryVars, queue, workerVars, cleanVars, faults>>

UnlinkFails(m, c) ==
    /\ call[m][c].at = "updated"
    /\ Spend("disk")
    /\ \E gone \in SUBSET InputArtifact(m, c) :
          files' = [files EXCEPT ![JobOf(m)] = @ \ gone]
    /\ Answer(m, c, "error")
    /\ UNCHANGED <<row, creating, deliveryVars, queue, workerVars, cleanVars>>

ClearInputKey(m, c) ==
    /\ call[m][c].at = "unlinked"
    /\ IF call[m][c].inputKey
         THEN UpdateRow(JobOf(m), [row[JobOf(m)] EXCEPT !.inputKey = FALSE])
         ELSE row' = row
    /\ Answer(m, c, "ok")
    /\ UNCHANGED <<files, creating, deliveryVars, queue, workerVars, cleanVars, faults>>

CompleteJob(m, c) ==
    \/ LoadForComplete(m, c)
    \/ UpdateCompleted(m, c)
    \/ DeleteInputArtifact(m, c)
    \/ ClearInputKey(m, c)

----------------------------------------------------------------------------
(* The worker: QueueConsumer and JobProcessor.                              *)

(* BRPOP over several lists serves the first non-empty one.                 *)
ServedBy(w) ==
    { k \in QueueKeys : \E i \in DOMAIN PollOrder[w] :
        /\ PollOrder[w][i] = k
        /\ queue[k] # <<>>
        /\ \A h \in DOMAIN PollOrder[w] : h < i => queue[PollOrder[w][h]] = <<>> }

Pop(w) ==
    /\ wpc[w] = "idle"
    /\ \E k \in ServedBy(w) :
          LET m == Head(queue[k]) IN
          /\ queue' = [queue EXCEPT ![k] = Tail(@)]
          /\ wjob' = [wjob EXCEPT ![w] = m]
          /\ Answer(m, Mark, "sent")
    /\ wpc' = [wpc EXCEPT ![w] = "marking"]
    /\ await' = [await EXCEPT ![w] = Mark]
    /\ UNCHANGED <<dbVars, creating, deliveryVars, cleanVars, faults>>

(* Redis carries the BRPOP out, and its reply does not arrive: the client   *)
(* raises, or sends the BRPOP again, and either way the loop goes on.       *)
PopLost(w) ==
    /\ wpc[w] = "idle"
    /\ Spend("popLost")
    /\ \E k \in ServedBy(w) :
          /\ queue' = [queue EXCEPT ![k] = Tail(@)]
          /\ lost' = lost \cup {Head(queue[k])}
    /\ UNCHANGED <<dbVars, creating, unanswered, repeated, call, workerVars, cleanVars>>

(* The worker's next step, and the callback it then waits for.              *)
Goto(w, step, c) ==
    /\ wpc' = [wpc EXCEPT ![w] = step]
    /\ await' = [await EXCEPT ![w] = c]
    /\ IF c = NoCall THEN call' = call ELSE Answer(wjob[w], c, "sent")
    /\ wjob' = [wjob EXCEPT ![w] = IF step = "idle" THEN NoJob ELSE @]

(* Mutant: an exception while marking is logged and the job forgotten.      *)
ForgetOnError(w, ok) ==
    \/ /\ await[w] \in Reports
       /\ Goto(w, wpc[w], NoCall)
    \/ /\ await[w] = Mark /\ ok
       /\ Goto(w, "starting", NoCall)
    \/ /\ await[w] \in {Done, Fail} \/ (await[w] = Mark /\ ~ok)
       /\ Goto(w, "idle", NoCall)

(* What the loop does when a callback returns (ok) or raises (~ok).         *)
Resume(w, ok) ==
    \/ /\ await[w] \in Reports           \* progress_callback swallows errors
       /\ Goto(w, wpc[w], NoCall)
    \/ /\ await[w] = Mark /\ ok
       /\ Goto(w, "starting", NoCall)
    \/ /\ await[w] \in {Mark, Done} /\ ~ok
       /\ Goto(w, "failing", Fail)
    \/ /\ await[w] = Fail \/ (await[w] = Done /\ ok)
       /\ Goto(w, "idle", NoCall)

Return(w) ==
    /\ await[w] # NoCall
    /\ call[wjob[w]][await[w]].at \in Answered
    /\ Resume(w, call[wjob[w]][await[w]].at = "ok")
    /\ UNCHANGED <<dbVars, creating, deliveryVars, queue, cleanVars, faults>>

(* Connection refused, or the API answers 5xx before the handler runs.      *)
DropCall(w) ==
    /\ await[w] # NoCall
    /\ call[wjob[w]][await[w]].at = "sent"
    /\ Spend("drop")
    /\ Answer(wjob[w], await[w], "error")
    /\ UNCHANGED <<dbVars, creating, deliveryVars, queue, workerVars, cleanVars>>

(* The 30 s client timeout: the worker moves on, the handler is not told.   *)
GiveUp(w) ==
    /\ await[w] # NoCall
    /\ call[wjob[w]][await[w]].at \in InFlight
    /\ Spend("late")
    /\ Resume(w, FALSE)
    /\ UNCHANGED <<dbVars, creating, deliveryVars, queue, cleanVars>>

(* ensure_parent(outputKey) comes before anything looks at the input.       *)
EnsureParent(w) ==
    /\ wpc[w] = "starting"
    /\ files' = [files EXCEPT ![JobOf(wjob[w])] = @ \cup {"outdir"}]
    /\ Goto(w, "opening", NoCall)
    /\ UNCHANGED <<row, creating, deliveryVars, queue, cleanVars, faults>>

OpenInput(w) ==
    /\ wpc[w] = "opening"
    /\ IF Inputs(JobOf(wjob[w])) \subseteq files[JobOf(wjob[w])]
         THEN Goto(w, "running", NoCall)
         ELSE Goto(w, "failing", Fail)
    /\ UNCHANGED <<dbVars, creating, deliveryVars, queue, cleanVars, faults>>

(* report(p): the stages go out in increasing order, 100 after the manifest *)
(* was written.                                                             *)
Reported(m, P) == JobOf(m) \in SliceJobs => \A p \in P : call[m][Report(p)].at # "unsent"

SendReport(w) ==
    /\ wpc[w] \in {"running", "written"} /\ await[w] = NoCall
    /\ JobOf(wjob[w]) \in SliceJobs
    /\ \E p \in Stages :
          /\ wpc[w] = IF p = 100 THEN "written" ELSE "running"
          /\ call[wjob[w]][Report(p)].at = "unsent"
          /\ Reported(wjob[w], {q \in Stages : q < p})
          /\ Goto(w, wpc[w], Report(p))
    /\ UNCHANGED <<dbVars, creating, deliveryVars, queue, cleanVars, faults>>

(* The runner writes its output.  live_slice creates the directories of its *)
(* clips itself, the others need the one ensure_parent made.                *)
WriteOutput(w) ==
    /\ wpc[w] = "running" /\ await[w] = NoCall
    /\ Reported(wjob[w], Stages \ {100})
    /\ JobOf(wjob[w]) \in SliceJobs \/ "outdir" \in files[JobOf(wjob[w])]
    /\ files' = [files EXCEPT ![JobOf(wjob[w])] = @ \cup {"outdir", "output"}]
    /\ Goto(w, "written", NoCall)
    /\ UNCHANGED <<row, creating, deliveryVars, queue, cleanVars, faults>>

(* Any exception of the runner, which may leave a partial output behind.    *)
RunFails(w) ==
    /\ wpc[w] = "running" /\ await[w] = NoCall
    /\ \E partial \in SUBSET {"output"} :
          /\ partial # {} => "outdir" \in files[JobOf(wjob[w])]
          /\ files' = [files EXCEPT ![JobOf(wjob[w])] = @ \cup partial]
    /\ Goto(w, "failing", Fail)
    /\ UNCHANGED <<row, creating, deliveryVars, queue, cleanVars, faults>>

(* Mutant: completion reported without waiting for the output.              *)
FinishEarly(w) ==
    /\ wpc[w] \in {"running", "written"} /\ await[w] = NoCall
    /\ Goto(w, "completing", Done)
    /\ UNCHANGED <<dbVars, creating, deliveryVars, queue, cleanVars, faults>>

FinishRun(w) ==
    /\ wpc[w] = "written" /\ await[w] = NoCall
    /\ Reported(wjob[w], Stages \cap {100})
    /\ Goto(w, "completing", Done)
    /\ UNCHANGED <<dbVars, creating, deliveryVars, queue, cleanVars, faults>>

(* Killed, or stopped: stop() closes the clients and cancels the loop, and  *)
(* CancelledError is no Exception, so nothing reports the job.              *)
WorkerCrash(w) ==
    /\ wpc[w] # "idle"
    /\ Spend("workerCrash")
    /\ lost' = lost \cup {wjob[w]}
    /\ Goto(w, "idle", NoCall)
    /\ UNCHANGED <<dbVars, creating, unanswered, repeated, queue, cleanVars>>

----------------------------------------------------------------------------
(* removeJob.                                                               *)

FindForRemoval(j) ==
    /\ removal[j] = "none"
    /\ Exists(j)
    /\ removal' = [removal EXCEPT ![j] = "found"]
    /\ deleteRequested' = deleteRequested \cup {j}
    /\ UNCHANGED <<dbVars, creating, deliveryVars, queue, call, workerVars, purgeSet, purging, faults>>

RemoveJobDirectory(j) ==
    /\ removal[j] = "found"
    /\ files' = [files EXCEPT ![j] = {}]
    /\ removal' = [removal EXCEPT ![j] = "dirGone"]
    /\ UNCHANGED <<row, creating, deliveryVars, queue, call, workerVars,
                   deleteRequested, purgeSet, purging, faults>>

RemoveDirectoryFails(j) ==
    /\ removal[j] = "found"
    /\ Spend("disk")
    /\ \E left \in SUBSET files[j] : files' = [files EXCEPT ![j] = left]
    /\ removal' = [removal EXCEPT ![j] = "none"]
    /\ UNCHANGED <<row, creating, deliveryVars, queue, call, workerVars,
                   deleteRequested, purgeSet, purging>>

RemoveRow(j) ==
    /\ removal[j] = "dirGone"
    /\ row' = [row EXCEPT ![j] = Absent]
    /\ removal' = [removal EXCEPT ![j] = "none"]
    /\ UNCHANGED <<files, creating, deliveryVars, queue, call, workerVars,
                   deleteRequested, purgeSet, purging, faults>>

----------------------------------------------------------------------------
(* MediaJobCleanupService.purgeExpiredArtifacts.                            *)

Busy(j) ==
    \/ \E m \in PayloadsOf(j) :
          \/ \E w \in Workers : wjob[w] = m
          \/ \E c \in Calls : call[m][c].at \in InFlight
    \/ removal[j] # "none"

(* The retention (12 h) passes.  It is far longer than any request, so a    *)
(* job that a request or a worker is busy with does not age.                *)
Age(j) ==
    /\ row[j].completedAt = "recent"
    /\ ~Busy(j)
    /\ row' = [row EXCEPT ![j].completedAt = "old"]
    /\ UNCHANGED <<files, creating, deliveryVars, queue, call, workerVars, cleanVars, faults>>

(* Mutants: no retention cutoff; failed jobs left out.                      *)
ExpiredAtOnce ==
    { j \in Jobs : row[j].status \in Terminal /\ (row[j].outputKey \/ row[j].inputKey) }
ExpiredCompleted ==
    { j \in Jobs : row[j].status = "completed" /\ row[j].completedAt = "old"
                   /\ row[j].outputKey }

Expired ==
    { j \in Jobs :
        /\ row[j].status \in Terminal
        /\ row[j].completedAt = "old"
        /\ row[j].outputKey \/ (row[j].status = "failed" /\ row[j].inputKey) }

PurgeFind ==
    /\ purgeSet = {} /\ purging = NoJob
    /\ Expired # {}
    /\ purgeSet' = Expired
    /\ UNCHANGED <<dbVars, creating, deliveryVars, queue, call, workerVars,
                   removal, deleteRequested, purging, faults>>

PurgeDirectory(j) ==
    /\ j \in purgeSet /\ purging = NoJob
    /\ files' = [files EXCEPT ![j] = {}]
    /\ purging' = j
    /\ UNCHANGED <<row, creating, deliveryVars, queue, call, workerVars,
                   removal, deleteRequested, purgeSet, faults>>

(* Mutant: an rm that fails is logged, and the keys are cleared all the same. *)
RmErrorIgnored(j) ==
    /\ j \in purgeSet /\ purging = NoJob
    /\ Spend("disk")
    /\ \E left \in SUBSET files[j] : files' = [files EXCEPT ![j] = left]
    /\ purging' = j
    /\ UNCHANGED <<row, creating, deliveryVars, queue, call, workerVars,
                   removal, deleteRequested, purgeSet>>

PurgeFails(j) ==
    /\ j \in purgeSet /\ purging = NoJob
    /\ Spend("disk")
    /\ \E left \in SUBSET files[j] : files' = [files EXCEPT ![j] = left]
    /\ purgeSet' = {}
    /\ UNCHANGED <<row, creating, deliveryVars, queue, call, workerVars,
                   removal, deleteRequested, purging>>

PurgeKeys ==
    /\ purging # NoJob
    /\ UpdateRow(purging, [row[purging] EXCEPT !.inputKey = FALSE, !.outputKey = FALSE])
    /\ purgeSet' = purgeSet \ {purging}
    /\ purging' = NoJob
    /\ UNCHANGED <<files, creating, deliveryVars, queue, call, workerVars,
                   removal, deleteRequested, faults>>

(* The API process dies with every request and sweep it was serving.        *)
ApiCrash ==
    /\ Spend("apiCrash")
    /\ call' = [m \in Payloads |-> [c \in Calls |->
                  IF call[m][c].at \in InFlight
                    THEN [call[m][c] EXCEPT !.at = "error"] ELSE call[m][c]]]
    /\ unanswered' = {}
    /\ creating' = [j \in Jobs |-> IF creating[j] \in {"new", "enqueued"}
                                     THEN creating[j] ELSE "aborted"]
    /\ removal' = [j \in Jobs |-> "none"]
    /\ purgeSet' = {} /\ purging' = NoJob
    /\ UNCHANGED <<dbVars, repeated, lost, queue, workerVars, deleteRequested>>

----------------------------------------------------------------------------
Create(j) ==
    \/ InsertRow(j) \/ SaveInput(j) \/ SaveAux(j) \/ SaveKeys(j) \/ Enqueue(j) \/ Resend(j)

Handle(m) ==
    \/ MarkProcessing(m)
    \/ \E p \in Stages : LoadForProgress(m, p) \/ WriteProgress(m, p)
    \/ \E c \in {Done, Fail} : CompleteJob(m, c)

Remove(j) == FindForRemoval(j) \/ RemoveJobDirectory(j) \/ RemoveRow(j)

Work(w) ==
    \/ Pop(w) \/ Return(w) \/ EnsureParent(w) \/ OpenInput(w) \/ SendReport(w)
    \/ WriteOutput(w) \/ RunFails(w) \/ FinishRun(w)

Purge == PurgeFind \/ (\E j \in Jobs : PurgeDirectory(j)) \/ PurgeKeys

Fault ==
    \/ ApiCrash
    \/ \E w \in Workers : PopLost(w) \/ DropCall(w) \/ GiveUp(w) \/ WorkerCrash(w)
    \/ \E j \in Jobs : CreateFails(j) \/ RemoveDirectoryFails(j) \/ PurgeFails(j)
    \/ \E m \in Payloads, c \in {Done, Fail} : UnlinkFails(m, c)

Next ==
    \/ \E j \in Jobs : Create(j) \/ Remove(j) \/ Age(j)
    \/ \E m \in Payloads : Handle(m)
    \/ \E w \in Workers : Work(w)
    \/ Purge
    \/ Fault

Spec == Init /\ [][Next]_vars

(* The event loops of the API and of the workers keep running: handlers,    *)
(* consumer loops and sweeps that can take a step do.  Nothing forces a     *)
(* user to upload or delete, nor a fault to happen.                         *)
Fairness ==
    /\ \A w \in Workers : WF_vars(Work(w))
    /\ \A m \in Payloads : WF_vars(Handle(m))
    /\ \A j \in Jobs : WF_vars(Age(j))
    /\ \A j \in Jobs : WF_vars(RemoveJobDirectory(j)) /\ WF_vars(RemoveRow(j))
    /\ WF_vars(Purge)

FairSpec == Spec /\ Fairness
=============================================================================
