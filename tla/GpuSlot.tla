------------------------------ MODULE GpuSlot ------------------------------
(***************************************************************************)
(* The GPU slot of the media workers (gpu_coordinator.py): a Redis lock    *)
(* with a time to live, a list that wakes the waiters, a look at the free  *)
(* video memory, the LatentSync server whose resident model is evicted     *)
(* when memory is short, and the models that a worker keeps in its own     *)
(* process, which nothing evicts.  Each Redis command, and each call of    *)
(* nvidia-smi or of the server, is one action.  A payload is run by one    *)
(* worker at most (SingleDelivery of MediaJob), so Jobs are the payloads   *)
(* that need the GPU, and each stands for its worker's thread as well.     *)
(* One worker serves a list, so that two payloads of a job, which have one *)
(* token, come to the slot one after the other.  Memory is counted in      *)
(* gigabytes.                                                              *)
(***************************************************************************)
EXTENDS Integers, FiniteSetsExt

CONSTANTS
    Jobs,          \* jobs whose runner needs the GPU
    LatentJobs,    \* those that call the LatentSync server
    Need,          \* job_gpu_requirement
    Capacity,      \* memory of the card
    ResidentSize,  \* what the idle LatentSync model occupies
    ModelSize,     \* what a model of Models occupies, once a worker holds it
    Keepers,       \* TTS jobs that load IndexTTS2 into their worker's process
    InProcess,     \* those of them that also run there: no INDEXTTS2_PYTHON
    Unslotted,     \* models that jobs without a slot load
    SlowJobs,      \* jobs that may run longer than the lock lives
    Stoppable,     \* jobs whose worker may be shut down while it has them
    MaxRepeats,    \* how many Redis commands are carried out twice
    NoJob

(* The models a worker keeps: IndexTTS2, and that of the transcription.     *)
Models == {"indextts2", "asr"}

ASSUME GpuSlotAssumption ==
    /\ LatentJobs \subseteq Jobs /\ SlowJobs \subseteq Jobs /\ Stoppable \subseteq Jobs
    /\ Need \in [Jobs -> Nat] /\ Capacity \in Nat /\ ResidentSize \in Nat
    /\ NoJob \notin Jobs
    /\ Keepers \subseteq Jobs /\ InProcess \subseteq Keepers /\ Unslotted \subseteq Models
    /\ ModelSize \in [Models -> Nat] /\ MaxRepeats \in Nat
    /\ Keepers \cap LatentJobs = {}
    \* What a job is said to need covers the model it runs.
    /\ \A j \in LatentJobs : ResidentSize <= Need[j]
    /\ \A j \in InProcess : ModelSize["indextts2"] <= Need[j]

VARIABLES
    pc,        \* where the job's worker is in gpu_slot
    lock,      \* GPU_LOCK_KEY: the job named by its token, or NoJob
    signals,   \* length of GPU_SIGNAL_KEY
    using,     \* jobs whose computation is on the GPU
    resident,  \* whether the LatentSync server holds its model
    kept,      \* the models that workers hold in their processes
    repeats,   \* how many commands were carried out twice (history)
    redeleted, \* jobs whose DEL was carried out twice (history)
    stopped,   \* jobs whose worker was shut down (history)
    overran,   \* jobs whose lock expired while they needed it (history)
    blind      \* jobs let in although nvidia-smi failed (history)

gpuVars == <<using, resident, kept>>
histVars == <<stopped, overran, blind, repeats, redeleted>>
vars == <<pc, lock, signals, gpuVars, histVars>>

(* Steps at which a Redis command is next.                                  *)
RedisSteps == {"setting", "backingOff", "waking", "waiting",
               "getting", "deleting", "notifying"}
(* Steps between a successful SET NX and the end of the lease.              *)
Leased == {"checking", "evicting", "rechecking", "backingOff", "granted",
           "running", "deleting"}
Left == {"done", "dead"}
Steps == {"idle"} \cup RedisSteps \cup Leased \cup Left

(* Types: every worker is at a step of gpu_slot, the lock names one job, and *)
(* the list of signals has a length.                                        *)
TypeOK ==
    /\ pc \in [Jobs -> Steps]
    /\ lock \in Jobs \cup {NoJob}
    /\ signals \in Nat
    /\ using \subseteq Jobs
    /\ resident \in BOOLEAN
    /\ kept \subseteq Models
    /\ stopped \subseteq Jobs /\ overran \subseteq Jobs /\ blind \subseteq Jobs
    /\ repeats \in 0..MaxRepeats
    /\ redeleted \subseteq Jobs

Init ==
    /\ pc = [j \in Jobs |-> "idle"]
    /\ lock = NoJob
    /\ signals = 0
    /\ using = {}
    /\ resident = FALSE         \* lazy model load
    /\ kept = {}
    /\ stopped = {} /\ overran = {} /\ blind = {} /\ redeleted = {}
    /\ repeats = 0

Goto(j, from, to) ==
    /\ pc[j] = from
    /\ pc' = [pc EXCEPT ![j] = to]

Total(jobs) == MapThenSumSet(LAMBDA j : Need[j], jobs)

(* A model is part of what the job that runs it needs.                      *)
OnCard(m) ==
    IF m \in kept /\ (m = "indextts2" => using \cap InProcess = {}) THEN ModelSize[m] ELSE 0

(* Models that are loaded without a look at the memory: by jobs that take   *)
(* no slot, and by a TTS job that runs in a process of its own as well.     *)
Unreserved == Unslotted \cup (IF Keepers = InProcess THEN {} ELSE {"indextts2"})

(* What was loaded after a look at the memory, and what was not.            *)
Reserved ==
    Total(using)
    + (IF resident /\ using \cap LatentJobs = {} THEN ResidentSize ELSE 0)
    + (IF "indextts2" \in Unreserved THEN 0 ELSE OnCard("indextts2"))
Beside ==
    (IF "indextts2" \in Unreserved THEN OnCard("indextts2") ELSE 0) + OnCard("asr")

Used == Reserved + Beside
Enough(j) == Capacity - Used >= Need[j]

----------------------------------------------------------------------------
(* acquire_gpu_slot_sync.                                                   *)

Ask(j) ==
    /\ Goto(j, "idle", "setting")
    /\ UNCHANGED <<lock, signals, gpuVars, histVars>>

(* Mutant: SET without NX.                                                  *)
SetAlways(j) ==
    /\ Goto(j, "setting", "checking")
    /\ lock' = j
    /\ UNCHANGED <<signals, gpuVars, histVars>>

(* SET key token NX EX ttl, and the GET of the holder's name for the log.   *)
SetNx(j) ==
    /\ IF lock = NoJob
         THEN Goto(j, "setting", "checking") /\ lock' = j
         ELSE Goto(j, "setting", "waiting") /\ lock' = lock
    /\ UNCHANGED <<signals, gpuVars, histVars>>

(* Mutant: the job that finds too little memory is let in all the same.     *)
CheckIgnored(j) ==
    /\ Goto(j, "checking", "granted")
    /\ UNCHANGED <<lock, signals, gpuVars, histVars>>

Check(j) ==
    /\ Goto(j, "checking", IF Enough(j) THEN "granted" ELSE "evicting")
    /\ UNCHANGED <<lock, signals, gpuVars, histVars>>

(* release_latentsync_gpu; a server that does not answer keeps its model.   *)
Evict(j) ==
    /\ Goto(j, "evicting", "rechecking")
    /\ resident' = FALSE
    /\ UNCHANGED <<lock, signals, using, kept, histVars>>

EvictFails(j) ==
    /\ Goto(j, "evicting", "rechecking")
    /\ UNCHANGED <<lock, signals, gpuVars, histVars>>

Recheck(j) ==
    /\ Goto(j, "rechecking", IF Enough(j) THEN "granted" ELSE "backingOff")
    /\ UNCHANGED <<lock, signals, gpuVars, histVars>>

(* query_gpu_free_mb returned None: proceed without a memory check.         *)
CheckBlind(j) ==
    /\ Goto(j, "checking", "granted") \/ Goto(j, "rechecking", "granted")
    /\ blind' = blind \cup {j}
    /\ UNCHANGED <<lock, signals, gpuVars, stopped, overran, repeats, redeleted>>

(* DEL of a lock that is the job's own, or was when it was set.             *)
BackOff(j) ==
    /\ Goto(j, "backingOff", "waking")
    /\ lock' = NoJob
    /\ UNCHANGED <<signals, gpuVars, histVars>>

Wake(j) ==
    /\ Goto(j, "waking", "waiting")
    /\ signals' = signals + 1
    /\ UNCHANGED <<lock, gpuVars, histVars>>

(* Mutants: BRPOP without a timeout; a waker that owns the slot; an         *)
(* unconditional pop.                                                       *)
WaitForever(j) ==
    /\ Goto(j, "waiting", "setting")
    /\ signals > 0
    /\ signals' = signals - 1
    /\ UNCHANGED <<lock, gpuVars, histVars>>
WaitOwns(j) ==
    /\ Goto(j, "waiting", IF signals > 0 THEN "checking" ELSE "setting")
    /\ signals' = IF signals > 0 THEN signals - 1 ELSE 0
    /\ UNCHANGED <<lock, gpuVars, histVars>>
(* BRPOP returns a signal as soon as there is one, else after the timeout.  *)
Wait(j) ==
    /\ Goto(j, "waiting", "setting")
    /\ signals' = IF signals > 0 THEN signals - 1 ELSE 0
    /\ UNCHANGED <<lock, gpuVars, histVars>>

(* _get_tts: the process holds its model until it ends.                     *)
KeptBy(j) == IF j \in Keepers THEN kept \cup {"indextts2"} ELSE kept

(* The body of gpu_slot.  If the worker was shut down meanwhile, the thread *)
(* returns its lease to nobody.                                             *)
Run(j) ==
    /\ IF j \in stopped
         THEN Goto(j, "granted", "dead") /\ UNCHANGED gpuVars
         ELSE /\ Goto(j, "granted", "running")
              /\ using' = using \cup {j}
              /\ resident' = (resident \/ j \in LatentJobs)
              /\ kept' = KeptBy(j)
    /\ UNCHANGED <<lock, signals, histVars>>

(* The runner returns or raises; the models stay.                           *)
Finish(j) ==
    /\ Goto(j, "running", "getting")
    /\ using' = using \ {j}
    /\ UNCHANGED <<lock, signals, resident, kept, histVars>>

----------------------------------------------------------------------------
(* release_gpu_slot_sync.                                                   *)

Get(j) ==
    /\ Goto(j, "getting", IF lock = j THEN "deleting" ELSE "notifying")
    /\ UNCHANGED <<lock, signals, gpuVars, histVars>>

Delete(j) ==
    /\ Goto(j, "deleting", "notifying")
    /\ lock' = NoJob
    /\ UNCHANGED <<signals, gpuVars, histVars>>

Notify(j) ==
    /\ Goto(j, "notifying", "done")
    /\ signals' = signals + 1
    /\ UNCHANGED <<lock, gpuVars, histVars>>

----------------------------------------------------------------------------
(* Faults.                                                                  *)

(* A Redis command raises, before or after the server carried it out.       *)
LockAfter(j) ==
    IF pc[j] = "setting" /\ lock = NoJob THEN j
    ELSE IF pc[j] \in {"backingOff", "deleting"} THEN NoJob
    ELSE lock
SignalsAfter(j) ==
    IF pc[j] \in {"waking", "notifying"} THEN signals + 1
    ELSE IF pc[j] = "waiting" /\ signals > 0 THEN signals - 1
    ELSE signals

RedisFails(j) ==
    /\ pc[j] \in RedisSteps
    /\ pc' = [pc EXCEPT ![j] = "done"]
    /\ \/ UNCHANGED <<lock, signals>>
       \/ lock' = LockAfter(j) /\ signals' = SignalsAfter(j)
    /\ UNCHANGED <<gpuVars, histVars>>

(* redis-py, from version 6 on, sends a command again when the connection   *)
(* broke before its answer came: it is carried out twice.                   *)
Repeat(j) ==
    /\ repeats < MaxRepeats
    /\ pc[j] \in RedisSteps \ {"getting"}
    /\ lock' = LockAfter(j) /\ signals' = SignalsAfter(j)
    /\ repeats' = repeats + 1
    /\ redeleted' = IF pc[j] \in {"backingOff", "deleting"} THEN redeleted \cup {j} ELSE redeleted
    /\ UNCHANGED <<pc, gpuVars, stopped, overran, blind>>

(* The worker dies with the models in its process.  A process that it had   *)
(* started on the GPU may outlive it.                                       *)
Crash(j) ==
    /\ pc[j] \notin {"idle"} \cup Left
    /\ pc' = [pc EXCEPT ![j] = "dead"]
    /\ using' = using \ {j} \/ (j \notin InProcess /\ using' = using)
    /\ kept' = IF j \in Keepers THEN kept \ {"indextts2"} ELSE kept
    /\ UNCHANGED <<lock, signals, resident, histVars>>

(* A transcription, or a speech synthesis with INDEXTTS2_DEVICE unset, takes *)
(* no slot: its model is on the card from then on.                          *)
LoadBeside(m) ==
    /\ m \in Unslotted \ kept
    /\ kept' = kept \cup {m}
    /\ UNCHANGED <<pc, lock, signals, using, resident, histVars>>

(* A worker process without a job of the GPU is restarted.                  *)
Restart(m) ==
    /\ m \in kept
    /\ m = "indextts2" => \A j \in Keepers : pc[j] \in {"idle"} \cup Left /\ j \notin using
    /\ kept' = kept \ {m}
    /\ UNCHANGED <<pc, lock, signals, using, resident, histVars>>

(* lifespan cancels the consumer.  Cancelling an await of to_thread does    *)
(* not stop the thread: the finally of gpu_slot releases the lock of a      *)
(* runner that goes on, and a waiting thread goes on to take the lock.      *)
Stop(j) ==
    /\ j \in Stoppable \ stopped
    /\ pc[j] \notin {"idle"} \cup Left
    /\ stopped' = stopped \cup {j}
    /\ pc' = [pc EXCEPT ![j] = IF @ = "running" THEN "getting" ELSE @]
    /\ UNCHANGED <<lock, signals, gpuVars, overran, blind, repeats, redeleted>>

(* The computation a worker left behind ends.                               *)
LeaveGpu(j) ==
    /\ j \in using /\ pc[j] # "running"
    /\ using' = using \ {j}
    /\ UNCHANGED <<pc, lock, signals, resident, kept, histVars>>

(* The time to live passes.  Two hours are longer than any step but the     *)
(* computation of a slow job and what comes after it, and the wait of a job *)
(* whose SET was repeated, which holds the lock unawares.                   *)
Expire(j) ==
    /\ lock = j
    /\ \/ pc[j] \in Left \cup {"setting", "waiting"} /\ j \notin using
          /\ UNCHANGED overran
       \/ /\ j \in SlowJobs
          /\ pc[j] \in {"running", "getting", "deleting"} \/ j \in using
          /\ overran' = overran \cup {j}
    /\ lock' = NoJob
    /\ UNCHANGED <<pc, signals, gpuVars, stopped, blind, repeats, redeleted>>

----------------------------------------------------------------------------
Acquire(j) ==
    \/ SetNx(j) \/ Check(j) \/ Evict(j) \/ Recheck(j) \/ BackOff(j) \/ Wake(j)
    \/ Wait(j)
Release(j) == Get(j) \/ Delete(j) \/ Notify(j)
Fault(j) ==
    \/ EvictFails(j) \/ CheckBlind(j) \/ RedisFails(j) \/ Repeat(j) \/ Crash(j) \/ Stop(j)
JobStep(j) ==
    \/ Ask(j) \/ Acquire(j) \/ Run(j) \/ Finish(j) \/ Release(j)
    \/ LeaveGpu(j) \/ Expire(j) \/ Fault(j)

Next ==
    \/ \E j \in Jobs : JobStep(j)
    \/ \E m \in Models : LoadBeside(m) \/ Restart(m)

Spec == Init /\ [][Next]_vars

(* Threads are scheduled, computations end, locks expire, and the           *)
(* LatentSync server does not refuse every single unload.                   *)
Fairness == \A j \in Jobs :
    /\ WF_vars(Acquire(j) \/ Run(j) \/ Finish(j) \/ Release(j))
    /\ SF_vars(Evict(j))
    /\ WF_vars(LeaveGpu(j)) /\ WF_vars(Expire(j))

FairSpec == Spec /\ Fairness

----------------------------------------------------------------------------
(* No job outlasted its lock, and no DEL was carried out twice.             *)
Sure == overran = {} /\ redeleted = {}

(* At most one job computes on the GPU, not counting computations a stopped *)
(* worker left behind, as long as no job outlasted its lock and no DEL was  *)
(* repeated: through every crash, lost Redis reply, repeated SET, failed    *)
(* memory query and back-off.                                               *)
ExclusiveUse ==
    Sure => \A i, j \in using \ stopped : i = j

(* The unconditional DEL of the back-off, and the DEL after the GET of the  *)
(* release, remove no other job's lock unless some job outlasted its own or *)
(* some DEL was repeated.                                                   *)
DeletesOwnLock ==
    [][Sure' => \A j \in Jobs : lock = j /\ lock' # j
          => pc[j] \in {"backingOff", "deleting", "setting", "waiting"} \cup Left]_vars

(* The resident model is never evicted under a LatentSync inference.        *)
EvictsIdleModel ==
    [][Sure /\ stopped = {} /\ resident /\ ~resident'
          => using \cap LatentJobs = {}]_vars

(* The memory found free before a job was let in is still free when it      *)
(* runs, but for what was loaded beside the slot: what computes in a slot,  *)
(* the idle LatentSync model and an IndexTTS2 that a slot let in never      *)
(* exceed the card together, and all that is on it never by more than the   *)
(* models that jobs without a slot, or TTS jobs twice, have loaded.  Named  *)
(* beside them: a worker that was shut down, a lock that expired under its  *)
(* job, a repeated DEL, and an nvidia-smi that gave no answer.              *)
MemoryFits ==
    Sure /\ stopped = {} /\ blind = {} => Used <= Capacity + Beside

(* The models in the workers' processes leave too little for the job.       *)
Squeezed(j) == Capacity - OnCard("indextts2") - OnCard("asr") < Need[j]

(* Whoever asks for the GPU gets through the slot in the end: no crash, no  *)
(* lost wake-up and no lost reply blocks it for longer than the lock lives. *)
(* The exception is a model that a worker keeps in its process and nothing  *)
(* evicts: the job it leaves too little memory for backs off for ever, and  *)
(* as that job takes the lock each time, it may keep the others waiting.    *)
EveryoneServed ==
    \A j \in Jobs : pc[j] = "setting" ~>
        pc[j] \in Left \/ \E i \in Jobs : Squeezed(i) /\ pc[i] \notin {"idle"} \cup Left

(* The inductive invariant: a lease is backed by the lock, and so is a      *)
(* computation whose worker was not stopped.                                *)
Backed(j) ==
    /\ pc[j] \in Leased => lock = j
    /\ j \in using \ stopped => lock = j /\ pc[j] \in {"running"} \cup Left

SlotInv == TypeOK /\ (Sure => \A j \in Jobs : Backed(j))

(* And while every look at the memory succeeded: what was seen free for a   *)
(* job stays free until it runs, but for what is loaded beside the slot.    *)
Guarded == Sure /\ stopped = {} /\ blind = {}

MemoryInv == Guarded =>
    /\ Reserved <= Capacity
    /\ \A j \in Jobs : pc[j] = "granted" => Capacity - Reserved >= Need[j]

=============================================================================
