---------------------------- MODULE JobLifecycle ----------------------------
(***************************************************************************)
(* What a user is promised about a media job, with none of the machinery:  *)
(* a status that only moves forward, and an artefact that exists before    *)
(* the job is called completed.  MediaJob implements it as long as no      *)
(* callback outlives its client's patience (see MCMediaJob).               *)
(***************************************************************************)
CONSTANTS Jobs

VARIABLES
    status,    \* "absent", "pending", "processing", "completed" or "failed"
    artefact,  \* jobs with a result file
    discarded  \* jobs the user asked to delete

lvars == <<status, artefact, discarded>>

Init ==
    /\ status = [j \in Jobs |-> "absent"]
    /\ artefact = {}
    /\ discarded = {}

(* A discarded upload may still come back once: it was under way.           *)
Submit(j) ==
    /\ status[j] = "absent"
    /\ status' = [status EXCEPT ![j] = "pending"]
    /\ UNCHANGED <<artefact, discarded>>

Start(j) ==
    /\ status[j] = "pending"
    /\ status' = [status EXCEPT ![j] = "processing"]
    /\ UNCHANGED <<artefact, discarded>>

(* Until a job is settled its worker may write the result; once the job was *)
(* discarded this is an orphan.                                             *)
Produce(j) ==
    /\ status[j] \in {"pending", "processing"} \/ j \in discarded
    /\ artefact' = artefact \cup {j}
    /\ UNCHANGED <<status, discarded>>

Complete(j) ==
    /\ status[j] = "processing"
    /\ j \in artefact \cup discarded
    /\ status' = [status EXCEPT ![j] = "completed"]
    /\ UNCHANGED <<artefact, discarded>>

GiveUpOn(j) ==
    /\ status[j] \in {"pending", "processing"}
    /\ status' = [status EXCEPT ![j] = "failed"]
    /\ UNCHANGED <<artefact, discarded>>

(* Retention: the results of settled jobs go, the status stays.             *)
Expire(j) ==
    /\ status[j] \in {"completed", "failed"} \/ j \in discarded
    /\ artefact' = artefact \ {j}
    /\ UNCHANGED <<status, discarded>>

Discard(j) ==
    /\ status[j] # "absent"
    /\ discarded' = discarded \cup {j}
    /\ UNCHANGED <<status, artefact>>

Forget(j) ==
    /\ j \in discarded
    /\ status' = [status EXCEPT ![j] = "absent"]
    /\ UNCHANGED <<artefact, discarded>>

Next == \E j \in Jobs :
    \/ Submit(j) \/ Start(j) \/ Produce(j) \/ Complete(j) \/ GiveUpOn(j)
    \/ Expire(j) \/ Discard(j) \/ Forget(j)

Spec == Init /\ [][Next]_lvars
=============================================================================
