--------------------------- MODULE MediaJobProps ---------------------------
(* What MediaJob must, and what its documentation says it does, satisfy.    *)
EXTENDS MediaJob

Queued(m) == \E k \in QueueKeys : \E i \in DOMAIN queue[k] : queue[k][i] = m
HeldBy(w, m) == wjob[w] = m

(* Jobs whose LPUSH the client repeated, and the others.                    *)
Resent(j) == \E m \in repeated : CopyOf[m] = j
Once == { j \in Jobs : ~Resent(j) }

(* A payload is in one place only: at one position of the list its type is  *)
(* routed to, or at one worker.  And a job has one payload: LPUSH, BRPOP    *)
(* and the single enqueue at the end of an upload give this, whatever       *)
(* request, callback, worker or API process fails.  The one exception is an *)
(* LPUSH that Redis carried out and the client, missing the reply, repeated.*)
SingleDelivery ==
    /\ \A v, w \in Workers : wjob[v] = wjob[w] => v = w \/ wjob[v] = NoJob
    /\ \A m \in Payloads : Queued(m) => \A w \in Workers : ~HeldBy(w, m)
    /\ \A k \in QueueKeys : \A i \in DOMAIN queue[k] :
          /\ QueueOf[JobOf(queue[k][i])] = k
          /\ \A h \in DOMAIN queue[k] : queue[k][h] = queue[k][i] => h = i
    /\ \A m \in Payloads :
          Queued(m) \/ (\E w \in Workers : HeldBy(w, m)) => m \in Jobs \cup repeated

(* No handler, sweep or fault takes the uploaded files away from a job that *)
(* still has to read them: from LPUSH to OpenInput they are there, unless   *)
(* the user asked to delete the job, or its LPUSH was repeated, so that one *)
(* verdict removes the files another worker is about to read.               *)
InputAvailable ==
    \A j \in Once :
        \/ j \in deleteRequested
        \/ Inputs(j) \subseteq files[j]
        \/ /\ ~Queued(j)
           /\ \A w \in Workers :
                 HeldBy(w, j) => wpc[w] \notin {"marking", "starting", "opening"}

(* Within its retention, a completed job whose deletion nobody asked for    *)
(* has the file its outputKey names, whatever callbacks were lost, late or  *)
(* repeated and whichever process crashed, unless its LPUSH was repeated.   *)
CompletedHasOutput ==
    \A j \in Once :
        /\ row[j].status = "completed"
        /\ row[j].outputKey
        /\ row[j].completedAt = "recent"
        /\ j \notin deleteRequested
        => "output" \in files[j]

(* The sweep removes no directory a worker still works in or will work in,  *)
(* unless the job's LPUSH was repeated.                                     *)
PurgeLeavesActiveJobs ==
    \A j \in Once : purging = j =>
        ~Queued(j) /\ \A w \in Workers : ~HeldBy(w, j)

(* completeJob is last-writer-wins, and both writers leave errorMessage     *)
(* consistent with the status they write, in whichever order they land.     *)
ErrorMatchesOutcome ==
    \A j \in Jobs :
        /\ row[j].status = "completed" => ~row[j].error
        /\ row[j].status = "failed" => row[j].error

(* Where a payload stands that will still settle its job, or the loss that  *)
(* befell it: the report of the failure got lost; the payload was popped    *)
(* and no worker got it, or a worker died with it; a mark outlived its      *)
(* client and was handled after the failure, so that the row says           *)
(* processing again.                                                        *)
Decided == {"updated", "unlinked", "ok"}
Marked(m) == call[m][Mark].at = "ok"

Pursued(m) ==
    \/ Queued(m) \/ \E w \in Workers : HeldBy(w, m)
    \/ call[m][Fail].at \in {"sent", "loaded"}
Dropped(m) ==
    \/ call[m][Fail].at = "error"
    \/ call[m][Fail].at = "unsent" /\ m \in lost
    \/ call[m][Fail].at \in Decided /\ Marked(m) /\ faults["late"] > 0

(* No enqueued job falls between the parts of the system: until its verdict *)
(* is in its row or the row is deleted, a list or a worker has a payload of *)
(* it, or the report of its failure is under way.  The losses are named in  *)
(* Dropped; a payload that was delivered twice is not one of them.          *)
NoJobForgotten ==
    \A j \in Jobs :
        creating[j] = "enqueued" /\ row[j].status \in {"pending", "processing"} =>
            \E m \in PayloadsOf(j) : Pursued(m) \/ Dropped(m)

(* A settled job leaves the sweep's query for good only when its directory  *)
(* is empty, and nothing writes there afterwards, neither a worker nor a    *)
(* late handler: no file is left that no sweep would look for again.  A job *)
(* whose LPUSH was repeated may be run again after the sweep.               *)
SweptClean ==
    \A j \in Once : row[j].status \in Terminal /\ ~row[j].outputKey => files[j] = {}

(* A deleted row comes back only through the upload that created it: the    *)
(* callbacks and the sweep use UPDATE, which never inserts.                 *)
CallbacksNeverResurrect ==
    [][\A j \in Jobs : ~Exists(j) /\ Exists(j)'
          => creating[j] \in {"new", "gotAll"}]_vars

(* A completed job shows progress 100 (docs/live-slice-api.md:372), unless  *)
(* its LPUSH was repeated and another worker still reports on it.           *)
CompletedIsFull ==
    \A j \in Once : row[j].status = "completed" => row[j].progress = 100

Lifecycle == INSTANCE JobLifecycle
    WITH status <- [j \in Jobs |-> row[j].status],
         artefact <- {j \in Jobs : "output" \in files[j]},
         discarded <- deleteRequested

(* MediaJob implements the promise of JobLifecycle.                         *)
ImplementsLifecycle == Lifecycle!Spec

(* An enqueued job is settled in the end, or deleted, although callbacks    *)
(* may be refused: the failure path reports what the normal path could not. *)
(* Only two losses leave a job unsettled for ever: that last report got     *)
(* lost, or the payload was popped and no worker got it.                    *)
EnqueuedJobsSettle ==
    \A j \in Jobs : (creating[j] = "enqueued" /\ Exists(j))
        ~> \/ row[j].status \in Terminal \/ ~Exists(j)
           \/ \E m \in PayloadsOf(j) : call[m][Fail].at = "error" \/ m \in lost

(* The files of a settled job are reclaimed, by the sweep or by the user,   *)
(* through crashes of the API and failing unlinks (12 h retention), unless  *)
(* the job's LPUSH was repeated: a second run writes after the sweep.       *)
StorageReclaimed ==
    \A j \in Jobs : row[j].status \in Terminal
        ~> (files[j] = {} \/ row[j].status \notin Terminal \/ Resent(j))

----------------------------------------------------------------------------
(* The inductive invariant behind the theorems of MediaJobProofs.           *)

Unsent(m, c) == call[m][c].at = "unsent"
Unserved(m) == Unsent(m, Done) /\ Unsent(m, Fail)

(* A payload that some LPUSH has put on a list.                             *)
Pushed(m) == m \in repeated \/ (m \in Jobs /\ creating[m] = "enqueued")

(* Nothing will touch the job again but the user and the sweep.             *)
Retired(j) ==
    /\ ~Unserved(j)
    /\ \A w \in Workers : ~HeldBy(w, j)
    /\ \A c \in {Done, Fail} : call[j][c].at \notin InFlight

InStep(w) ==
    /\ wjob[w] = NoJob <=> wpc[w] = "idle"
    /\ await[w] = Mark <=> wpc[w] = "marking"
    /\ await[w] = Done <=> wpc[w] = "completing"
    /\ await[w] = Fail <=> wpc[w] = "failing"
    /\ await[w] \in Reports => wpc[w] \in {"running", "written"}

WorkerInv == \A w \in Workers : InStep(w)

(* The first three speak of every payload, also of one that was repeated.   *)
CopyInv ==
    /\ \A m \in repeated : creating[CopyOf[m]] = "enqueued"
    /\ \A j \in unanswered : creating[j] = "enqueued"
    /\ \A m \in Payloads : ~Pushed(m) => \A c \in Calls : Unsent(m, c)

HoldInv ==
    \A w \in Workers, m \in Payloads : HeldBy(w, m) =>
        /\ Pushed(m)
        /\ wpc[w] # "failing" => Unsent(m, Fail)
        /\ wpc[w] \notin {"completing", "failing"} => Unsent(m, Done)

QueueInv ==
    \A k \in QueueKeys : \A i \in DOMAIN queue[k] :
        Pushed(queue[k][i]) /\ Unserved(queue[k][i])

(* The others speak of the jobs that have one payload.                      *)
ServedInv ==
    \A j \in Once :
        /\ row[j].completedAt # "null" => ~Unserved(j)
        /\ row[j].status = "completed" => ~Unsent(j, Done)

RetiredInv ==
    \A j \in Once :
        /\ removal[j] # "none" => j \in deleteRequested
        /\ row[j].completedAt = "old" => Retired(j)
        /\ j \in purgeSet \cup {purging} =>
              Retired(j) /\ (row[j].completedAt = "old" \/ j \in deleteRequested)

InputInv ==
    \A j \in Once : Unserved(j) /\ j \notin deleteRequested =>
        /\ creating[j] = "gotInput" => "input" \in files[j]
        /\ creating[j] \in {"gotAll", "keyed", "enqueued"} => Inputs(j) \subseteq files[j]

OutputInv ==
    \A j \in Once :
        \/ j \in deleteRequested
        \/ "output" \in files[j]
        \/ row[j].completedAt = "old"
        \/ Unsent(j, Done) /\ \A w \in Workers : HeldBy(w, j) => wpc[w] # "written"

IInv ==
    /\ TypeOK /\ SingleDelivery /\ ErrorMatchesOutcome
    /\ WorkerInv /\ CopyInv /\ HoldInv /\ QueueInv /\ ServedInv /\ RetiredInv
    /\ InputInv /\ OutputInv

----------------------------------------------------------------------------
(* What holds besides when no callback outlives its client (PatientInv),    *)
(* and when no handler breaks off and no LPUSH is repeated either: then the *)
(* verdict on a job is final (FinalInv).  QuietInv holds in any case.       *)

Patient == FaultBudget["late"] = 0
OnlyRefusals ==
    Repeats = {} /\ \A k \in {"late", "disk", "apiCrash"} : FaultBudget[k] = 0

QuietInv ==
    \A m \in Payloads : Queued(m) => \A c \in Calls : Unsent(m, c)

FlightInv ==
    \A m \in Payloads, c \in {Mark} \cup Reports : call[m][c].at \in InFlight =>
        Unserved(m) /\ \A w \in Workers : HeldBy(w, m) => await[w] = c

PatientInv == QuietInv /\ FlightInv /\ CompletedIsFull

NewInv ==
    \A j \in Jobs :
        /\ creating[j] = "new" => ~Exists(j)
        /\ ~Exists(j) => creating[j] = "new" \/ j \in deleteRequested

MarkedInv ==
    \A j \in Jobs :
        /\ Marked(j) => row[j].status # "pending"
        /\ ~Unsent(j, Done) => Marked(j)
        /\ \A w \in Workers : HeldBy(w, j) /\ wpc[w] \notin {"marking", "failing"} => Marked(j)

VerdictInv ==
    \A j \in Jobs :
        /\ ~Unsent(j, Fail) => call[j][Done].at \in {"unsent", "error"}
        /\ row[j].status = "completed" => call[j][Done].at \in Decided
        /\ row[j].status = "failed" => call[j][Fail].at \in Decided
        /\ row[j].completedAt # "null" => row[j].status \in Terminal

FinalInv == NewInv /\ MarkedInv /\ VerdictInv

----------------------------------------------------------------------------
(* What holds besides under every fault and for every payload: whoever lets *)
(* go of one has reported it, or one of the named losses befell it.         *)

ReportedInv ==
    \A w \in Workers, m \in Payloads : HeldBy(w, m) =>
        /\ wpc[w] = "failing" => ~Unsent(m, Fail)
        /\ call[m][Mark].at \in InFlight => wpc[w] \in {"marking", "failing"}

LateMarkInv ==
    \A m \in Payloads : call[m][Mark].at \in InFlight =>
        Unsent(m, Done) /\ (Unsent(m, Fail) \/ faults["late"] > 0)

LetGoInv ==
    \A m \in Payloads : Pushed(m) /\ ~Queued(m) /\ Unsent(m, Fail) =>
        \/ \E w \in Workers : HeldBy(w, m)
        \/ m \in lost
        \/ call[m][Done].at = "ok"

(* A row says pending while no payload of the job has brought a verdict,    *)
(* and processing only as long as one has not, or was marked too late.      *)
PendingInv ==
    \A m \in Payloads : row[JobOf(m)].status = "pending" =>
        \A c \in {Done, Fail} : call[m][c].at \notin Decided

Undecided(m) ==
    /\ Marked(m) /\ call[m][Done].at \notin Decided
    /\ call[m][Fail].at \in Decided => faults["late"] > 0

ProcessingInv ==
    \A j \in Jobs : row[j].status = "processing" =>
        \E m \in PayloadsOf(j) : Undecided(m)

HandInv ==
    QuietInv /\ ReportedInv /\ LateMarkInv /\ LetGoInv /\ PendingInv /\ ProcessingInv

(* And of the sweep: it empties a directory before it clears the keys, and  *)
(* only a job that is retired is ever without them.                         *)
SweepInv ==
    /\ \A j \in Once : purging = j => files[j] = {}
    /\ \A j \in Once : row[j].status # "absent" /\ ~row[j].outputKey =>
          \/ Retired(j) /\ files[j] = {}
          \/ creating[j] \notin {"keyed", "enqueued"} /\ row[j].status \notin Terminal

=============================================================================
