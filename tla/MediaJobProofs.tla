--------------------------- MODULE MediaJobProofs ---------------------------
(* The safety of MediaJob for any number of jobs, workers, lists and        *)
(* faults.                                                                  *)
EXTENDS MediaJobProps, TLAPS

Phases == {"unsent"} \cup InFlight \cup Answered
CallStates == [at : Phases, inputKey : BOOLEAN, progress : 0..100]

(* The callbacks are distinct, and NoCall is none of them.                  *)
LEMMA CallFacts ==
    /\ Mark \in Calls /\ Done \in Calls /\ Fail \in Calls
    /\ Mark # Done /\ Mark # Fail /\ Done # Fail
    /\ Mark \notin Reports /\ Done \notin Reports /\ Fail \notin Reports
    /\ NoCall \notin Calls /\ NoCall # Mark /\ NoCall # Done /\ NoCall # Fail
    /\ NoCall \notin Reports /\ Reports \subseteq Calls
    /\ \A p \in Stages : Report(p) \in Reports
  BY NoCallAssumption DEF Calls, Mark, Done, Fail, Reports, Report

(* What Answer does to the phase of every callback.                         *)
LEMMA AnswerFacts ==
    ASSUME call \in [Payloads -> [Calls -> CallStates]],
           NEW j \in Payloads, NEW c \in Calls, NEW x \in Phases, Answer(j, c, x)
    PROVE  /\ call' \in [Payloads -> [Calls -> CallStates]]
           /\ call'[j][c].at = x
           /\ \A i \in Payloads, d \in Calls :
                 <<i, d>> # <<j, c>> => call'[i][d] = call[i][d]
           /\ \A i \in Payloads, d \in Calls : call'[i][d].at # call[i][d].at => i = j /\ d = c
  <1> DEFINE old == call[j][c]
             new == [old EXCEPT !.at = x]
  <1>1. old \in CallStates  OBVIOUS
  <1>2. new \in CallStates /\ new.at = x  BY <1>1 DEF CallStates
  <1>3. call' = [call EXCEPT ![j] = [call[j] EXCEPT ![c] = new]]  BY DEF Answer
  <1> HIDE DEF new, old
  <1>4. /\ call'[j][c] = new
        /\ \A i \in Payloads, d \in Calls : <<i, d>> # <<j, c>> => call'[i][d] = call[i][d]
    BY <1>3
  <1>5. call' \in [Payloads -> [Calls -> CallStates]]  BY <1>2, <1>3
  <1> QED  BY <1>2, <1>4, <1>5

(* The invariant holds before any upload.                                   *)
LEMMA InitInv == Init => IInv
  <1> SUFFICES ASSUME Init PROVE IInv  OBVIOUS
  <1> USE CallFacts, MediaJobAssumption DEF Once
  <1>1. TypeOK  BY DEF Init, TypeOK, Row, Absent, Files
  <1>2. SingleDelivery  BY DEF Init, SingleDelivery, Queued, HeldBy
  <1>3. ErrorMatchesOutcome  BY DEF Init, ErrorMatchesOutcome, Absent
  <1>4. WorkerInv  BY DEF Init, WorkerInv, InStep
  <1>5. CopyInv /\ HoldInv /\ QueueInv
    BY DEF Init, CopyInv, HoldInv, QueueInv, Unsent, HeldBy
  <1>6. ServedInv  BY DEF Init, ServedInv, Unserved, Unsent, Absent
  <1>7. RetiredInv  BY DEF Init, RetiredInv, Absent, Payloads
  <1>8. InputInv  BY DEF Init, InputInv
  <1>9. OutputInv  BY DEF Init, OutputInv, Unsent, HeldBy, Payloads
  <1> QED  BY <1>1, <1>2, <1>3, <1>4, <1>5, <1>6, <1>7, <1>8, <1>9 DEF IInv

----------------------------------------------------------------------------
(* Each part of the invariant looks at a few variables, and of the callback *)
(* phases only at whether the final reports were sent at all.               *)
SameSent ==
    \A m \in Payloads, c \in {Done, Fail} : Unsent(m, c)' <=> Unsent(m, c)
SamePushed ==
    \A m \in Payloads : Pushed(m)' <=> Pushed(m)

FilesGrow == \A j \in Jobs : files[j] \subseteq files[j]'

(* A payload that is called for, queued or held, and whose job has but one, *)
(* is the job's own.                                                        *)
LEMMA OwnPayload ==
    ASSUME IInv, NEW m \in Payloads, Pushed(m), JobOf(m) \in Once
    PROVE  m = JobOf(m) /\ m \in Jobs
  BY MediaJobAssumption DEF Pushed, Once, Resent, JobOf, Payloads, IInv, TypeOK

LEMMA JobFacts ==
    /\ Jobs \subseteq Payloads /\ NoJob \notin Jobs
    /\ \A m \in Payloads : JobOf(m) \in Jobs
    /\ \A j \in Jobs : JobOf(j) = j
    /\ Once \subseteq Jobs
  BY MediaJobAssumption DEF Payloads, JobOf, Once

(* Only payloads that were pushed are held, queued or called for.           *)
LEMMA PushedFacts ==
    ASSUME IInv, NEW m \in Payloads
    PROVE  /\ \A c \in Calls : ~Unsent(m, c) => Pushed(m)
           /\ \A w \in Workers : HeldBy(w, m) => Pushed(m)
           /\ Queued(m) => Pushed(m)
  BY DEF IInv, CopyInv, HoldInv, QueueInv, Queued

LEMMA OnceStays == UNCHANGED repeated => Once' = Once
  BY DEF Once, Resent

(* Steps that push nothing.                                                 *)
LEMMA PushedFrame ==
    ASSUME IInv, UNCHANGED repeated, unanswered' \subseteq unanswered,
           \A m \in Payloads, c \in Calls : Unsent(m, c) => Unsent(m, c)' \/ Pushed(m),
           \A i \in Jobs : creating'[i] = "enqueued" <=> creating[i] = "enqueued"
    PROVE  SamePushed /\ Once' = Once /\ CopyInv'
  <1>1. SamePushed
    BY DEF SamePushed, Pushed
  <1>2. \A m \in repeated : CopyOf[m] \in Jobs
    BY MediaJobAssumption DEF IInv, TypeOK
  <1>3. CopyInv'
    BY <1>1, <1>2 DEF IInv, TypeOK, CopyInv, SamePushed
  <1> QED  BY <1>1, <1>3, OnceStays

(* Each conjunct of the invariant survives a step that leaves its variables *)
(* alone, or changes them in its favour.                                    *)
LEMMA Frames ==
    ASSUME IInv
    PROVE  /\ UNCHANGED <<queue, wjob, repeated>> => SingleDelivery'
           /\ UNCHANGED <<wpc, wjob, await>> => WorkerInv'
           /\ UNCHANGED row => ErrorMatchesOutcome'
           /\ UNCHANGED <<creating, unanswered, repeated, call>> => SamePushed /\ CopyInv'
           /\ UNCHANGED <<wpc, wjob>> /\ SamePushed /\ SameSent => HoldInv'
           /\ UNCHANGED queue /\ SamePushed /\ SameSent => QueueInv'
           /\ UNCHANGED <<row, repeated>> /\ SameSent => ServedInv'
           /\ UNCHANGED <<row, call, wjob, removal, deleteRequested, purgeSet, purging,
                          repeated>> => RetiredInv'
           /\ UNCHANGED <<creating, deleteRequested, repeated>> /\ SameSent /\ FilesGrow
                 => InputInv'
           /\ UNCHANGED <<row, wpc, wjob, deleteRequested, repeated>> /\ SameSent /\ FilesGrow
                 => OutputInv'
  <1> USE OnceStays, JobFacts DEF IInv
  <1>1. UNCHANGED <<queue, wjob, repeated>> => SingleDelivery'
    BY DEF SingleDelivery, Queued, HeldBy
  <1>2. UNCHANGED <<wpc, wjob, await>> => WorkerInv'
    BY DEF WorkerInv, InStep
  <1>3. UNCHANGED row => ErrorMatchesOutcome'
    BY DEF ErrorMatchesOutcome
  <1>4. UNCHANGED <<creating, unanswered, repeated, call>> => SamePushed /\ CopyInv'
    BY DEF SamePushed, CopyInv, Pushed, Unsent
  <1>5. UNCHANGED <<wpc, wjob>> /\ SamePushed /\ SameSent => HoldInv'
    BY DEF HoldInv, SamePushed, SameSent, HeldBy
  <1>6. UNCHANGED queue /\ SamePushed /\ SameSent => QueueInv'
    BY DEF QueueInv, SamePushed, SameSent, Unserved, TypeOK
  <1>7. UNCHANGED <<row, repeated>> /\ SameSent => ServedInv'
    BY DEF ServedInv, SameSent, Unserved
  <1>8. UNCHANGED <<row, call, wjob, removal, deleteRequested, purgeSet, purging,
                    repeated>> => RetiredInv'
    BY DEF RetiredInv, Retired, HeldBy, Unserved, Unsent
  <1>9. UNCHANGED <<creating, deleteRequested, repeated>> /\ SameSent /\ FilesGrow
          => InputInv'
    BY DEF InputInv, SameSent, FilesGrow, Unserved, Inputs
  <1>10. UNCHANGED <<row, wpc, wjob, deleteRequested, repeated>> /\ SameSent /\ FilesGrow
          => OutputInv'
    BY DEF OutputInv, SameSent, FilesGrow, HeldBy
  <1> QED  BY <1>1, <1>2, <1>3, <1>4, <1>5, <1>6, <1>7, <1>8, <1>9, <1>10

(* No callback changes phase when call does not change.                     *)
LEMMA CallUnchanged == UNCHANGED call => SameSent
  BY DEF SameSent, Unsent

(* No file goes when files does not change.                                 *)
LEMMA FilesUnchanged == UNCHANGED files => FilesGrow
  BY DEF FilesGrow

(* The rows the handlers write have the type of rows.                       *)
LEMMA RowUpdates ==
    ASSUME NEW r \in Row
    PROVE  /\ [r EXCEPT !.status = "pending"] \in Row
           /\ \A p \in 0..100 : [r EXCEPT !.progress = p] \in Row
           /\ \A p \in 0..100 : [r EXCEPT !.status = "processing", !.progress = p] \in Row
           /\ [r EXCEPT !.inputKey = FALSE] \in Row
           /\ \A b \in BOOLEAN : [r EXCEPT !.inputKey = b, !.outputKey = b] \in Row
           /\ [r EXCEPT !.completedAt = "old"] \in Row
           /\ \A p \in 0..100 : [r EXCEPT !.status = "completed", !.progress = p,
                  !.outputKey = TRUE, !.error = FALSE, !.completedAt = "recent"] \in Row
           /\ \A p \in 0..100 : [r EXCEPT !.status = "failed", !.progress = p,
                  !.error = TRUE, !.completedAt = "recent"] \in Row
  <1>1. [r EXCEPT !.status = "pending"] \in Row
    BY DEF Row
  <1>2. \A p \in 0..100 : [r EXCEPT !.progress = p] \in Row
    BY DEF Row
  <1>3. \A p \in 0..100 : [r EXCEPT !.status = "processing", !.progress = p] \in Row
    BY DEF Row
  <1>4. [r EXCEPT !.inputKey = FALSE] \in Row
    BY DEF Row
  <1>5. \A b \in BOOLEAN : [r EXCEPT !.inputKey = b, !.outputKey = b] \in Row
    BY DEF Row
  <1>6. [r EXCEPT !.completedAt = "old"] \in Row
    BY DEF Row
  <1>7. \A p \in 0..100 : [r EXCEPT !.status = "completed", !.progress = p,
            !.outputKey = TRUE, !.error = FALSE, !.completedAt = "recent"] \in Row
    BY DEF Row
  <1>8. \A p \in 0..100 : [r EXCEPT !.status = "failed", !.progress = p,
            !.error = TRUE, !.completedAt = "recent"] \in Row
    BY DEF Row
  <1> QED  BY <1>1, <1>2, <1>3, <1>4, <1>5, <1>6, <1>7, <1>8

(* What those writes do to the fields the invariant reads.                  *)
LEMMA RowFields ==
    ASSUME NEW r \in Row, NEW s \in Row,
           \/ s = [r EXCEPT !.inputKey = TRUE, !.outputKey = TRUE]
           \/ s = [r EXCEPT !.inputKey = FALSE, !.outputKey = FALSE]
           \/ s = [r EXCEPT !.inputKey = FALSE]
           \/ \E p \in 0..100 : s = [r EXCEPT !.progress = p]
    PROVE  s.status = r.status /\ s.error = r.error /\ s.completedAt = r.completedAt
  BY DEF Row

(* What the two verdicts of completeJob write.                              *)
LEMMA VerdictFields ==
    ASSUME NEW r \in Row, NEW s \in Row, NEW p \in 0..100
    PROVE  /\ s = [r EXCEPT !.status = "processing", !.progress = p] =>
                 s.status = "processing" /\ s.completedAt = r.completedAt
           /\ s = [r EXCEPT !.status = "completed", !.progress = p, !.outputKey = TRUE,
                             !.error = FALSE, !.completedAt = "recent"] =>
                 s.status = "completed" /\ ~s.error /\ s.completedAt = "recent"
           /\ s = [r EXCEPT !.status = "failed", !.progress = p, !.error = TRUE,
                             !.completedAt = "recent"] =>
                 s.status = "failed" /\ s.error /\ s.completedAt = "recent"
  BY DEF Row

(* The rows that an upload inserts.                                         *)
LEMMA PendingFacts ==
    /\ Absent \in Row /\ Pending \in Row
    /\ Pending.status = "pending" /\ ~Pending.error /\ Pending.completedAt = "null"
  <1>1. Absent \in Row /\ ~Absent.error /\ Absent.completedAt = "null"
    BY DEF Absent, Row
  <1>2. Pending \in Row
    BY <1>1, RowUpdates DEF Pending
  <1>3. \A r \in Row : LET s == [r EXCEPT !.status = "pending"] IN
          s.status = "pending" /\ s.error = r.error /\ s.completedAt = r.completedAt
    BY DEF Row
  <1> QED  BY <1>1, <1>2, <1>3 DEF Pending

(* What UpdateRow leaves: the other rows, and no row where none was.        *)
LEMMA UpdateFacts ==
    ASSUME TypeOK, NEW j \in Jobs, NEW r \in Row, UpdateRow(j, r)
    PROVE  /\ row' \in [Jobs -> Row]
           /\ \A i \in Jobs : i # j => row'[i] = row[i]
           /\ row'[j] = IF Exists(j) THEN r ELSE row[j]
  BY DEF UpdateRow, TypeOK

(* A worker that moves on sends at most the callback it then waits for.     *)
LEMMA GotoFacts ==
    ASSUME TypeOK, NEW w \in Workers, wjob[w] \in Payloads,
           NEW c \in Calls \cup {NoCall},
           NEW s \in {"idle", "marking", "starting", "opening", "running",
                      "written", "completing", "failing"},
           Goto(w, s, c)
    PROVE  /\ wpc' \in [Workers -> {"idle", "marking", "starting", "opening", "running",
                                    "written", "completing", "failing"}]
           /\ wjob' \in [Workers -> Payloads \cup {NoJob}]
           /\ await' \in [Workers -> Calls \cup {NoCall}]
           /\ call' \in [Payloads -> [Calls -> CallStates]]
           /\ wpc'[w] = s /\ await'[w] = c
           /\ wjob'[w] = IF s = "idle" THEN NoJob ELSE wjob[w]
           /\ \A v \in Workers : v # w =>
                 wpc'[v] = wpc[v] /\ await'[v] = await[v] /\ wjob'[v] = wjob[v]
           /\ \A i \in Payloads, d \in Calls :
                 <<i, d>> # <<wjob[w], c>> => call'[i][d] = call[i][d]
           /\ c # NoCall => call'[wjob[w]][c].at = "sent"
  <1>1. call \in [Payloads -> [Calls -> CallStates]]
    BY DEF TypeOK, CallStates, Phases
  <1>2. CASE c = NoCall
    BY <1>1, <1>2, CallFacts DEF Goto, TypeOK
  <1>3. CASE c # NoCall
    <2>1. Answer(wjob[w], c, "sent") /\ c \in Calls /\ "sent" \in Phases
      BY <1>3 DEF Goto, Phases, InFlight
    <2>2. /\ call' \in [Payloads -> [Calls -> CallStates]]
          /\ call'[wjob[w]][c].at = "sent"
          /\ \A i \in Payloads, d \in Calls :
                <<i, d>> # <<wjob[w], c>> => call'[i][d] = call[i][d]
      BY <1>1, <2>1, AnswerFacts
    <2> QED  BY <1>3, <2>2 DEF Goto, TypeOK
  <1> QED  BY <1>2, <1>3

----------------------------------------------------------------------------
(* Upload requests.  A job that is not enqueued is in no list, at no worker *)
(* and was never reported on, which leaves its row and files to the upload. *)

(* A job that was not enqueued is in no list and at no worker.              *)
LEMMA NotEnqueued ==
    ASSUME IInv, NEW j \in Jobs, creating[j] # "enqueued"
    PROVE  /\ j \in Once /\ j \in Payloads /\ ~Pushed(j)
           /\ Unserved(j) /\ ~Retired(j) /\ \A c \in Calls : Unsent(j, c)
           /\ \A w \in Workers : ~HeldBy(w, j)
           /\ ~Queued(j)
           /\ row[j].completedAt = "null" /\ row[j].status # "completed"
           /\ j \notin purgeSet \cup {purging}
  <1> USE JobFacts, CallFacts
  <1>1. ~Resent(j)
    BY DEF IInv, CopyInv, Resent
  <1>2. j \in Once
    BY <1>1 DEF Once
  <1>3. ~Pushed(j)
    BY MediaJobAssumption DEF Pushed, IInv, TypeOK
  <1>4. \A c \in Calls : Unsent(j, c)
    BY <1>3 DEF IInv, CopyInv
  <1>5. Unserved(j)
    BY <1>4 DEF Unserved
  <1>6. row[j].completedAt = "null" /\ row[j].status # "completed"
    BY <1>2, <1>4, <1>5 DEF IInv, ServedInv
  <1>7. ~Retired(j)
    BY <1>5 DEF Retired
  <1>8. j \notin purgeSet \cup {purging}
    BY <1>2, <1>7 DEF IInv, RetiredInv
  <1> QED  BY <1>2, <1>3, <1>4, <1>5, <1>6, <1>7, <1>8, PushedFacts

(* Of an upload's steps before LPUSH, the lists and the workers see nothing. *)
LEMMA UploadFrame ==
    ASSUME IInv, NEW j \in Jobs, creating[j] # "enqueued", NEW x, x # "enqueued",
           creating' = [creating EXCEPT ![j] = x],
           UNCHANGED <<deliveryVars, queue, call, workerVars>>
    PROVE  /\ SameSent /\ Once' = Once
           /\ SingleDelivery' /\ WorkerInv' /\ CopyInv' /\ HoldInv' /\ QueueInv'
           /\ \A i \in Payloads : Retired(i)' <=> Retired(i)
  <1> USE DEF deliveryVars, workerVars
  <1>1. SameSent
    BY CallUnchanged
  <1>2. \A i \in Jobs : creating'[i] = "enqueued" <=> creating[i] = "enqueued"
    BY DEF IInv, TypeOK
  <1>3. SamePushed /\ Once' = Once /\ CopyInv'
    BY <1>2, PushedFrame DEF Unsent
  <1>4. \A i \in Payloads : Retired(i)' <=> Retired(i)
    BY DEF Retired, Unserved, Unsent, HeldBy
  <1> QED  BY <1>1, <1>3, <1>4, Frames

(* The INSERT of an upload preserves the invariant.                         *)
LEMMA InsertRowInv ==
    ASSUME IInv, NEW j \in Jobs, InsertRow(j)  PROVE IInv'
  <1> USE JobFacts DEF IInv, InsertRow, cleanVars
  <1>1. /\ SameSent /\ Once' = Once
        /\ SingleDelivery' /\ WorkerInv' /\ CopyInv' /\ HoldInv' /\ QueueInv'
        /\ \A i \in Payloads : Retired(i)' <=> Retired(i)
    BY UploadFrame
  <1>2. Pending \in Row /\ ~Pending.error /\ Pending.status = "pending"
        /\ Pending.completedAt = "null"
    BY PendingFacts
  <1>3. TypeOK'
    BY <1>2 DEF TypeOK, deliveryVars, workerVars
  <1>4. ErrorMatchesOutcome'
    BY <1>2 DEF ErrorMatchesOutcome, TypeOK
  <1>5. ServedInv'
    BY <1>1, <1>2, NotEnqueued DEF ServedInv, TypeOK, SameSent, Unserved
  <1>6. RetiredInv'
    BY <1>1, <1>2, NotEnqueued DEF RetiredInv, TypeOK
  <1>7. InputInv'
    BY <1>1 DEF InputInv, TypeOK, SameSent, Unserved, Inputs
  <1>8. OutputInv'
    BY <1>1, NotEnqueued DEF OutputInv, TypeOK, SameSent, Unserved, HeldBy, workerVars
  <1> QED  BY <1>1, <1>3, <1>4, <1>5, <1>6, <1>7, <1>8

(* Saving an input file preserves the invariant.                            *)
LEMMA SaveFilesInv ==
    ASSUME IInv, NEW j \in Jobs, SaveInput(j) \/ SaveAux(j)  PROVE IInv'
  <1> USE JobFacts DEF IInv, SaveInput, SaveAux, cleanVars
  <1>1. /\ SameSent /\ Once' = Once
        /\ SingleDelivery' /\ WorkerInv' /\ CopyInv' /\ HoldInv' /\ QueueInv'
    <2>1. PICK x \in {"gotInput", "gotAll"} : creating' = [creating EXCEPT ![j] = x]
      OBVIOUS
    <2> QED  BY <2>1, UploadFrame
  <1> PICK more \in SUBSET Files : files' = [files EXCEPT ![j] = @ \cup more]
    BY DEF Files
  <1>2. FilesGrow /\ files' \in [Jobs -> SUBSET Files]
    BY DEF FilesGrow, TypeOK
  <1>3. TypeOK'
    BY <1>2 DEF TypeOK, deliveryVars, workerVars
  <1>4. ErrorMatchesOutcome' /\ ServedInv' /\ RetiredInv' /\ OutputInv'
    BY <1>1, <1>2, Frames DEF deliveryVars, workerVars
  <1>5. InputInv'
    BY <1>1, <1>2 DEF InputInv, TypeOK, SameSent, FilesGrow, Unserved, Inputs
  <1> QED  BY <1>1, <1>3, <1>4, <1>5

(* The save that stores the keys, inserting again a row deleted meanwhile,  *)
(* preserves the invariant.                                                 *)
LEMMA SaveKeysInv ==
    ASSUME IInv, NEW j \in Jobs, SaveKeys(j)  PROVE IInv'
  <1> USE JobFacts DEF IInv, SaveKeys, cleanVars
  <1> DEFINE old == IF Exists(j) THEN row[j] ELSE Pending
             new == [old EXCEPT !.inputKey = TRUE, !.outputKey = TRUE]
  <1>1. /\ SameSent /\ Once' = Once
        /\ SingleDelivery' /\ WorkerInv' /\ CopyInv' /\ HoldInv' /\ QueueInv'
        /\ \A i \in Payloads : Retired(i)' <=> Retired(i)
    BY UploadFrame
  <1>2. Pending \in Row /\ ~Pending.error /\ Pending.status = "pending"
        /\ Pending.completedAt = "null"
    BY PendingFacts
  <1>3. old \in Row /\ old.completedAt = "null" /\ old.status # "completed"
        /\ (old.status = "failed" => old.error)
    BY <1>2, NotEnqueued DEF TypeOK, ErrorMatchesOutcome
  <1>4. new \in Row /\ new.completedAt = "null" /\ new.status # "completed"
        /\ (new.status = "failed" => new.error)
    <2>1. new \in Row
      BY <1>3, RowUpdates
    <2>2. new = [old EXCEPT !.inputKey = TRUE, !.outputKey = TRUE]
      OBVIOUS
    <2> HIDE DEF old, new
    <2>3. new.completedAt = "null" /\ new.status = old.status /\ new.error = old.error
      BY <1>3, <2>1, <2>2, RowFields
    <2> QED  BY <1>3, <2>1, <2>3
  <1>5. row' = [row EXCEPT ![j] = new]
    OBVIOUS
  <1> HIDE DEF old, new
  <1>6. TypeOK'
    BY <1>4, <1>5 DEF TypeOK, deliveryVars, workerVars
  <1>7. ErrorMatchesOutcome'
    BY <1>4, <1>5 DEF ErrorMatchesOutcome, TypeOK
  <1>8. ServedInv'
    <2>1. \A i \in Jobs : (Unserved(i)' <=> Unserved(i)) /\ (Unsent(i, Done)' <=> Unsent(i, Done))
      BY <1>1 DEF SameSent, Unserved
    <2>2. Unserved(j)
      BY NotEnqueued
    <2> QED  BY <1>1, <1>4, <1>5, <2>1, <2>2 DEF ServedInv, TypeOK
  <1>9. RetiredInv'
    BY <1>1, <1>4, <1>5, NotEnqueued DEF RetiredInv, TypeOK
  <1>10. InputInv'
    BY <1>1 DEF InputInv, TypeOK, SameSent, Unserved, Inputs
  <1>11. OutputInv'
    BY <1>1, <1>5, NotEnqueued DEF OutputInv, TypeOK, SameSent, Unserved, HeldBy, workerVars
  <1> QED  BY <1>1, <1>6, <1>7, <1>8, <1>9, <1>10, <1>11

(* An interrupted upload preserves the invariant.                           *)
LEMMA CreateFailsInv ==
    ASSUME IInv, NEW j \in Jobs, CreateFails(j)  PROVE IInv'
  <1> USE JobFacts DEF IInv, CreateFails, cleanVars
  <1>1. /\ SameSent /\ Once' = Once
        /\ SingleDelivery' /\ WorkerInv' /\ CopyInv' /\ HoldInv' /\ QueueInv'
    BY UploadFrame
  <1>2. FilesGrow
    BY FilesUnchanged
  <1>3. TypeOK'
    BY DEF TypeOK, Spend, FaultKinds, deliveryVars, workerVars
  <1>4. ErrorMatchesOutcome' /\ ServedInv' /\ RetiredInv' /\ OutputInv'
    BY <1>1, <1>2, Frames DEF deliveryVars, workerVars
  <1>5. InputInv'
    BY <1>1 DEF InputInv, TypeOK, SameSent, Unserved, Inputs
  <1> QED  BY <1>1, <1>3, <1>4, <1>5

(* What LPUSH does to the lists.                                            *)
LEMMA PushFacts ==
    ASSUME queue \in [QueueKeys -> Seq(Payloads)], NEW j \in Jobs, NEW m \in Payloads,
           Push(j, m)
    PROVE  /\ queue' \in [QueueKeys -> Seq(Payloads)] /\ QueueOf[j] \in QueueKeys
           /\ \A k \in QueueKeys : \A i \in DOMAIN queue[k] :
                 i \in DOMAIN queue'[k] /\ queue'[k][i] = queue[k][i]
           /\ \A k \in QueueKeys : \A i \in DOMAIN queue'[k] :
                 \/ i \in DOMAIN queue[k] /\ queue'[k][i] = queue[k][i]
                 \/ k = QueueOf[j] /\ i = Len(queue[k]) + 1 /\ queue'[k][i] = m
           /\ Queued(m)'
           /\ \A i \in Payloads : Queued(i)' => Queued(i) \/ i = m
           /\ \A i \in Payloads : Queued(i) => Queued(i)'
  <1> DEFINE list == queue[QueueOf[j]]
  <1>1. /\ QueueOf[j] \in QueueKeys /\ list \in Seq(Payloads)
        /\ queue' = [queue EXCEPT ![QueueOf[j]] = Append(list, m)]
    BY MediaJobAssumption DEF Push
  <1>2. /\ DOMAIN Append(list, m) = DOMAIN list \cup {Len(list) + 1}
        /\ Append(list, m) \in Seq(Payloads)
        /\ Append(list, m)[Len(list) + 1] = m
        /\ \A i \in DOMAIN list : Append(list, m)[i] = list[i]
    BY <1>1
  <1>3. /\ queue'[QueueOf[j]] = Append(list, m)
        /\ queue' \in [QueueKeys -> Seq(Payloads)]
        /\ \A k \in QueueKeys : k # QueueOf[j] => queue'[k] = queue[k]
    BY <1>1, <1>2
  <1> HIDE DEF list
  <1>4. \A k \in QueueKeys : \A i \in DOMAIN queue[k] :
           i \in DOMAIN queue'[k] /\ queue'[k][i] = queue[k][i]
    BY <1>2, <1>3 DEF list
  <1>5. \A k \in QueueKeys : \A i \in DOMAIN queue'[k] :
           \/ i \in DOMAIN queue[k] /\ queue'[k][i] = queue[k][i]
           \/ k = QueueOf[j] /\ i = Len(queue[k]) + 1 /\ queue'[k][i] = m
    BY <1>2, <1>3 DEF list
  <1>6. Queued(m)'
    BY <1>1, <1>2, <1>3 DEF Queued
  <1>7. \A i \in Payloads : Queued(i)' => Queued(i) \/ i = m
    BY <1>5 DEF Queued
  <1>8. \A i \in Payloads : Queued(i) => Queued(i)'
    BY <1>4 DEF Queued
  <1> QED  BY <1>1, <1>3, <1>4, <1>5, <1>6, <1>7, <1>8

(* A payload that is put on its list for the first time is in no other      *)
(* place.                                                                   *)
LEMMA PushInv ==
    ASSUME IInv, NEW j \in Jobs, NEW m \in Payloads, JobOf(m) = j, ~Pushed(m), Push(j, m),
           m \in Jobs \cup repeated', repeated \subseteq repeated',
           \A i \in Payloads : Pushed(i)' <=> Pushed(i) \/ i = m,
           UNCHANGED <<call, workerVars>>
    PROVE  SingleDelivery' /\ HoldInv' /\ QueueInv'
  <1> USE DEF workerVars
  <1>1. queue \in [QueueKeys -> Seq(Payloads)]
    BY DEF IInv, TypeOK
  <1>2. /\ \A k \in QueueKeys : \A i \in DOMAIN queue'[k] :
              \/ i \in DOMAIN queue[k] /\ queue'[k][i] = queue[k][i]
              \/ k = QueueOf[j] /\ i = Len(queue[k]) + 1 /\ queue'[k][i] = m
        /\ \A i \in Payloads : Queued(i)' => Queued(i) \/ i = m
    BY <1>1, PushFacts
  <1>3. /\ ~Queued(m) /\ \A w \in Workers : ~HeldBy(w, m)
        /\ \A c \in Calls : Unsent(m, c)
    BY PushedFacts
  <1>4. \A k \in QueueKeys : \A i \in DOMAIN queue[k] : queue[k][i] # m
    BY <1>3 DEF Queued
  <1>5. SingleDelivery'
    <2>1. \A v, w \in Workers : wjob'[v] = wjob'[w] => v = w \/ wjob'[v] = NoJob
      BY DEF IInv, SingleDelivery
    <2>2. \A i \in Payloads : Queued(i)' => \A w \in Workers : ~HeldBy(w, i)'
      BY <1>2, <1>3 DEF IInv, SingleDelivery, HeldBy
    <2>3. \A k \in QueueKeys : \A i \in DOMAIN queue'[k] :
            /\ QueueOf[JobOf(queue'[k][i])] = k
            /\ \A h \in DOMAIN queue'[k] : queue'[k][h] = queue'[k][i] => h = i
      BY <1>2, <1>4 DEF IInv, SingleDelivery
    <2>4. \A i \in Payloads : Queued(i)' \/ (\E w \in Workers : HeldBy(w, i)')
             => i \in Jobs \cup repeated'
      BY <1>2 DEF IInv, SingleDelivery, HeldBy
    <2> QED  BY <2>1, <2>2, <2>3, <2>4 DEF SingleDelivery
  <1>6. HoldInv'
    BY DEF IInv, HoldInv, HeldBy, Unsent
  <1>7. QueueInv'
    <2>1. \A k \in QueueKeys : \A i \in DOMAIN queue[k] : queue[k][i] \in Payloads
      BY <1>1
    <2>2. \A i \in Payloads : Unserved(i)' <=> Unserved(i)
      BY DEF Unserved, Unsent
    <2>3. Unserved(m)
      BY <1>3, CallFacts DEF Unserved
    <2> QED  BY <1>2, <2>1, <2>2, <2>3 DEF IInv, QueueInv
  <1> QED  BY <1>5, <1>6, <1>7

(* LPUSH preserves the invariant: the payload was nowhere before.           *)
LEMMA EnqueueInv ==
    ASSUME IInv, NEW j \in Jobs, Enqueue(j)  PROVE IInv'
  <1> USE JobFacts DEF Enqueue, dbVars, cleanVars
  <1>1. SameSent /\ FilesGrow /\ Once' = Once
    BY CallUnchanged, FilesUnchanged, OnceStays
  <1>2. /\ j \in Payloads /\ ~Pushed(j) /\ creating'[j] = "enqueued"
        /\ \A i \in Jobs : i # j => creating'[i] = creating[i]
    BY NotEnqueued DEF IInv, TypeOK
  <1>3. \A i \in Payloads : Pushed(i)' <=> Pushed(i) \/ i = j
    BY <1>2 DEF Pushed
  <1>4. SingleDelivery' /\ HoldInv' /\ QueueInv'
    BY <1>2, <1>3, PushInv
  <1>5. unanswered' \subseteq unanswered \cup {j}
    OBVIOUS
  <1>6. TypeOK'
    <2>1. queue' \in [QueueKeys -> Seq(Payloads)]
      BY <1>2, PushFacts DEF IInv, TypeOK
    <2> QED  BY <1>5, <2>1 DEF IInv, TypeOK, workerVars
  <1>7. CopyInv'
    <2>1. \A m \in repeated : CopyOf[m] \in Jobs
      BY MediaJobAssumption DEF IInv, TypeOK
    <2>2. \A m \in repeated' : creating'[CopyOf[m]] = "enqueued"
      BY <1>2, <2>1 DEF IInv, CopyInv
    <2>3. \A i \in unanswered' : creating'[i] = "enqueued"
      BY <1>2, <1>5 DEF IInv, CopyInv, TypeOK
    <2>4. \A m \in Payloads : ~Pushed(m)' => \A c \in Calls : Unsent(m, c)'
      BY <1>3 DEF IInv, CopyInv, Unsent
    <2> QED  BY <2>2, <2>3, <2>4 DEF CopyInv
  <1>8. WorkerInv' /\ ErrorMatchesOutcome' /\ ServedInv' /\ RetiredInv' /\ OutputInv'
    BY <1>1, Frames DEF workerVars
  <1>9. InputInv'
    BY <1>1, <1>2 DEF IInv, InputInv, TypeOK, SameSent, Unserved, Inputs
  <1> QED  BY <1>4, <1>6, <1>7, <1>8, <1>9 DEF IInv

(* A repeated LPUSH excuses its job from what the others are promised.      *)
LEMMA ResendInv ==
    ASSUME IInv, NEW j \in Jobs, Resend(j)  PROVE IInv'
  <1> USE JobFacts DEF dbVars, cleanVars
  <1>1. PICK m \in PayloadsOf(j) \ ({j} \cup repeated) :
           Push(j, m) /\ repeated' = repeated \cup {m}
    BY DEF Resend
  <1>2. /\ UNCHANGED <<row, files, creating, lost, call, workerVars, removal,
                       deleteRequested, purgeSet, purging, faults>>
        /\ unanswered' \subseteq unanswered /\ creating[j] = "enqueued"
    BY DEF Resend, IInv, CopyInv
  <1>3. /\ m \in Repeats /\ m \in Payloads /\ JobOf(m) = j /\ CopyOf[m] = j
        /\ m \notin Jobs /\ m \notin repeated /\ ~Pushed(m)
    BY <1>1, MediaJobAssumption DEF PayloadsOf, Payloads, JobOf, Pushed
  <1>4. \A i \in Payloads : Pushed(i)' <=> Pushed(i) \/ i = m
    BY <1>1, <1>2 DEF Pushed
  <1>5. SingleDelivery' /\ HoldInv' /\ QueueInv'
    BY <1>1, <1>2, <1>3, <1>4, PushInv
  <1>6. Once' \subseteq Once
    BY <1>1 DEF Once, Resent
  <1>7. TypeOK'
    <2>1. queue' \in [QueueKeys -> Seq(Payloads)]
      BY <1>1, <1>3, PushFacts DEF IInv, TypeOK
    <2> QED  BY <1>1, <1>2, <1>3, <2>1 DEF IInv, TypeOK, workerVars
  <1>8. CopyInv'
    BY <1>1, <1>2, <1>3, <1>4 DEF IInv, CopyInv, Unsent
  <1>9. WorkerInv' /\ ErrorMatchesOutcome'
    BY <1>2, Frames DEF workerVars
  <1>10. ServedInv'
    BY <1>2, <1>6 DEF IInv, ServedInv, Unserved, Unsent
  <1>11. RetiredInv'
    BY <1>2, <1>6 DEF IInv, RetiredInv, Retired, Unserved, Unsent, HeldBy, workerVars
  <1>12. InputInv'
    BY <1>2, <1>6 DEF IInv, InputInv, Unserved, Unsent, Inputs
  <1>13. OutputInv'
    BY <1>2, <1>6 DEF IInv, OutputInv, Unsent, HeldBy, workerVars
  <1> QED  BY <1>5, <1>7, <1>8, <1>9, <1>10, <1>11, <1>12, <1>13 DEF IInv

----------------------------------------------------------------------------
(* Callback handlers.                                                       *)

(* Moving a callback in flight on sends no report, and un-retires no job.   *)
LEMMA HandlerFacts ==
    ASSUME IInv, NEW m \in Payloads, NEW c \in Calls,
           call[m][c].at \in InFlight, call'[m][c].at # "unsent",
           \A i \in Payloads, d \in Calls : <<i, d>> # <<m, c>> => call'[i][d] = call[i][d],
           UNCHANGED <<creating, deliveryVars, queue, workerVars, cleanVars>>
    PROVE  /\ SameSent /\ Once' = Once
           /\ \A i \in Jobs : Retired(i) => Retired(i)'
           /\ c \in {Done, Fail} => ~Retired(m) /\ ~Unsent(m, c) /\ ~Unserved(m)
           /\ JobOf(m) \in Once => JobOf(m) = m
           /\ SingleDelivery' /\ WorkerInv' /\ CopyInv' /\ HoldInv' /\ QueueInv'
  <1> USE CallFacts, JobFacts DEF deliveryVars, workerVars, cleanVars
  <1>1. ~Unsent(m, c) /\ ~Unsent(m, c)'
    BY DEF Unsent, InFlight
  <1>2. \A i \in Payloads, d \in Calls : Unsent(i, d)' <=> Unsent(i, d)
    BY <1>1 DEF Unsent
  <1>3. SameSent
    BY <1>2 DEF SameSent
  <1>4. c \in {Done, Fail} => ~Retired(m) /\ ~Unserved(m)
    BY <1>1 DEF Retired, Unserved
  <1>5. ASSUME NEW i \in Jobs, Retired(i) PROVE Retired(i)'
    <2>1. \A d \in {Done, Fail} : call'[i][d] = call[i][d]
      BY <1>4, <1>5
    <2> QED  BY <1>2, <1>5, <2>1 DEF Retired, Unserved, HeldBy
  <1>6. JobOf(m) \in Once => JobOf(m) = m
    BY <1>1, PushedFacts, OwnPayload
  <1>7. SamePushed /\ Once' = Once /\ CopyInv'
    BY <1>2, PushedFrame
  <1> QED  BY <1>1, <1>3, <1>4, <1>5, <1>6, <1>7, Frames

(* A write to one row that leaves its completion time alone, and its        *)
(* verdict unless it takes it back.                                         *)
LEMMA RowWriteFacts ==
    ASSUME IInv, NEW j \in Jobs, row' \in [Jobs -> Row],
           \A i \in Jobs : i # j => row'[i] = row[i],
           row'[j].completedAt = row[j].completedAt,
           \/ row'[j].status = "processing"
           \/ row'[j].status = row[j].status /\ row'[j].error = row[j].error,
           SameSent, \A i \in Jobs : Retired(i) => Retired(i)',
           UNCHANGED <<creating, deliveryVars, files, workerVars, cleanVars>>
    PROVE  /\ ErrorMatchesOutcome' /\ ServedInv' /\ RetiredInv'
           /\ InputInv' /\ OutputInv'
  <1> USE OnceStays, JobFacts DEF IInv, deliveryVars, workerVars, cleanVars
  <1>1. ErrorMatchesOutcome'
    BY DEF ErrorMatchesOutcome
  <1>2. ServedInv'
    BY DEF ServedInv, SameSent, Unserved
  <1>3. RetiredInv'
    BY DEF RetiredInv
  <1>4. InputInv'
    BY Frames, FilesUnchanged
  <1>5. OutputInv'
    BY DEF OutputInv, SameSent, HeldBy
  <1> QED  BY <1>1, <1>2, <1>3, <1>4, <1>5

(* markProcessing preserves the invariant, even when it lands late.         *)
LEMMA MarkProcessingInv ==
    ASSUME IInv, NEW m \in Payloads, MarkProcessing(m)  PROVE IInv'
  <1> USE CallFacts DEF MarkProcessing
  <1> PICK j \in Jobs : j = JobOf(m)
    BY JobFacts
  <1>1. /\ call' \in [Payloads -> [Calls -> CallStates]]
        /\ call'[m][Mark].at = "ok"
        /\ \A i \in Payloads, d \in Calls : <<i, d>> # <<m, Mark>> => call'[i][d] = call[i][d]
    BY AnswerFacts DEF IInv, TypeOK, CallStates, Phases, Answered
  <1>2. /\ SameSent /\ Once' = Once /\ \A i \in Jobs : Retired(i) => Retired(i)'
        /\ j \in Once => j = m
        /\ SingleDelivery' /\ WorkerInv' /\ CopyInv' /\ HoldInv' /\ QueueInv'
    BY <1>1, HandlerFacts, JobFacts DEF InFlight, dbVars
  <1> DEFINE new == [row[j] EXCEPT !.status = "processing", !.progress = 10]
  <1>3. row[j] \in Row
    BY DEF IInv, TypeOK
  <1>4. new \in Row /\ new.status = "processing" /\ new.completedAt = row[j].completedAt
    <2>1. 10 \in 0..100 /\ new = [row[j] EXCEPT !.status = "processing", !.progress = 10]
      OBVIOUS
    <2> HIDE DEF new
    <2> QED  BY <1>3, <2>1, RowUpdates, VerdictFields
  <1>5. /\ row' \in [Jobs -> Row] /\ row'[j] = IF Exists(j) THEN new ELSE row[j]
        /\ \A i \in Jobs : i # j => row'[i] = row[i]
    BY <1>4, UpdateFacts DEF IInv
  <1>6. TypeOK'
    BY <1>1, <1>5 DEF IInv, TypeOK, CallStates, Phases, deliveryVars, workerVars, cleanVars
  <1>7. ErrorMatchesOutcome' /\ ServedInv' /\ RetiredInv' /\ InputInv' /\ OutputInv'
    BY <1>2, <1>4, <1>5, RowWriteFacts
  <1> QED  BY <1>2, <1>6, <1>7 DEF IInv

(* The read of updateProgress preserves the invariant.                      *)
LEMMA LoadForProgressInv ==
    ASSUME IInv, NEW m \in Payloads, NEW p \in Stages, LoadForProgress(m, p)  PROVE IInv'
  <1> USE CallFacts DEF LoadForProgress, dbVars
  <1> PICK j \in Jobs : j = JobOf(m)
    BY JobFacts
  <1>1. PICK x \in {"ok", "error", "loaded"} : Answer(m, Report(p), x)
    OBVIOUS
  <1>2. /\ call' \in [Payloads -> [Calls -> CallStates]]
        /\ call'[m][Report(p)].at = x /\ Report(p) \in Calls
        /\ \A i \in Payloads, d \in Calls :
              <<i, d>> # <<m, Report(p)>> => call'[i][d] = call[i][d]
    BY <1>1, AnswerFacts DEF IInv, TypeOK, CallStates, Phases, Answered, InFlight
  <1>3. /\ SameSent /\ Once' = Once /\ \A i \in Jobs : Retired(i) => Retired(i)'
        /\ j \in Once => j = m
        /\ SingleDelivery' /\ WorkerInv' /\ CopyInv' /\ HoldInv' /\ QueueInv'
    BY <1>2, HandlerFacts, JobFacts DEF InFlight, dbVars
  <1>4. TypeOK'
    BY <1>2 DEF IInv, TypeOK, CallStates, Phases, deliveryVars, workerVars, cleanVars
  <1>5. ErrorMatchesOutcome' /\ ServedInv' /\ RetiredInv' /\ InputInv' /\ OutputInv'
    BY <1>3, RowWriteFacts DEF IInv, TypeOK
  <1> QED  BY <1>3, <1>4, <1>5 DEF IInv

(* The write of updateProgress preserves the invariant.                     *)
LEMMA WriteProgressInv ==
    ASSUME IInv, NEW m \in Payloads, NEW p \in Stages, WriteProgress(m, p)  PROVE IInv'
  <1> USE CallFacts DEF WriteProgress
  <1> PICK j \in Jobs : j = JobOf(m)
    BY JobFacts
  <1>1. /\ call' \in [Payloads -> [Calls -> CallStates]]
        /\ call'[m][Report(p)].at = "ok" /\ Report(p) \in Calls
        /\ \A i \in Payloads, d \in Calls :
              <<i, d>> # <<m, Report(p)>> => call'[i][d] = call[i][d]
    BY AnswerFacts DEF IInv, TypeOK, CallStates, Phases, Answered
  <1>2. /\ SameSent /\ Once' = Once /\ \A i \in Jobs : Retired(i) => Retired(i)'
        /\ j \in Once => j = m
        /\ SingleDelivery' /\ WorkerInv' /\ CopyInv' /\ HoldInv' /\ QueueInv'
    BY <1>1, HandlerFacts, JobFacts DEF InFlight, dbVars
  <1> DEFINE new == [row[j] EXCEPT !.progress = p]
  <1>3. row[j] \in Row /\ p \in 0..100
    BY MediaJobAssumption DEF IInv, TypeOK
  <1>4. new \in Row /\ new.status = row[j].status /\ new.error = row[j].error
        /\ new.completedAt = row[j].completedAt
    <2>1. new = [row[j] EXCEPT !.progress = p]
      OBVIOUS
    <2> HIDE DEF new
    <2> QED  BY <1>3, <2>1, RowUpdates, RowFields
  <1>5. /\ row' \in [Jobs -> Row] /\ row'[j] = IF Exists(j) THEN new ELSE row[j]
        /\ \A i \in Jobs : i # j => row'[i] = row[i]
    BY <1>4, UpdateFacts DEF IInv
  <1>6. TypeOK'
    BY <1>1, <1>5 DEF IInv, TypeOK, CallStates, Phases, deliveryVars, workerVars, cleanVars
  <1>7. ErrorMatchesOutcome' /\ ServedInv' /\ RetiredInv' /\ InputInv' /\ OutputInv'
    BY <1>2, <1>4, <1>5, RowWriteFacts
  <1> QED  BY <1>2, <1>6, <1>7 DEF IInv

(* The read of completeJob preserves the invariant.                         *)
LEMMA LoadForCompleteInv ==
    ASSUME IInv, NEW m \in Payloads, NEW c \in {Done, Fail}, LoadForComplete(m, c)  PROVE IInv'
  <1> USE CallFacts DEF LoadForComplete, dbVars
  <1> PICK j \in Jobs : j = JobOf(m)
    BY JobFacts
  <1> DEFINE new == [at |-> IF Exists(j) THEN "loaded" ELSE "error",
                     inputKey |-> row[j].inputKey, progress |-> row[j].progress]
  <1>1. new \in CallStates /\ new.at # "unsent"
    BY DEF IInv, TypeOK, Row, CallStates, Phases, InFlight, Answered
  <1>2. call' = [call EXCEPT ![m] = [call[m] EXCEPT ![c] = new]]
    OBVIOUS
  <1> HIDE DEF new
  <1>3. /\ call' \in [Payloads -> [Calls -> CallStates]]
        /\ call'[m][c] = new /\ c \in Calls
        /\ \A i \in Payloads, d \in Calls : <<i, d>> # <<m, c>> => call'[i][d] = call[i][d]
    BY <1>1, <1>2 DEF IInv, TypeOK, CallStates, Phases
  <1>4. /\ SameSent /\ Once' = Once /\ \A i \in Jobs : Retired(i) => Retired(i)'
        /\ j \in Once => j = m
        /\ SingleDelivery' /\ WorkerInv' /\ CopyInv' /\ HoldInv' /\ QueueInv'
    BY <1>1, <1>3, HandlerFacts, JobFacts DEF InFlight, dbVars
  <1>5. TypeOK'
    BY <1>3 DEF IInv, TypeOK, CallStates, Phases, deliveryVars, workerVars, cleanVars
  <1>6. ErrorMatchesOutcome' /\ ServedInv' /\ RetiredInv' /\ InputInv' /\ OutputInv'
    BY <1>4, RowWriteFacts DEF IInv, TypeOK
  <1> QED  BY <1>4, <1>5, <1>6 DEF IInv

(* The verdict of completeJob preserves the invariant: its job has an       *)
(* output, or failed.                                                       *)
LEMMA UpdateCompletedInv ==
    ASSUME IInv, NEW m \in Payloads, NEW c \in {Done, Fail}, UpdateCompleted(m, c)  PROVE IInv'
  <1> USE CallFacts DEF UpdateCompleted
  <1> PICK j \in Jobs : j = JobOf(m)
    BY JobFacts
  <1>1. /\ call' \in [Payloads -> [Calls -> CallStates]]
        /\ call'[m][c].at = "updated" /\ c \in Calls
        /\ \A i \in Payloads, d \in Calls : <<i, d>> # <<m, c>> => call'[i][d] = call[i][d]
    BY AnswerFacts DEF IInv, TypeOK, CallStates, Phases, InFlight
  <1>2. /\ SameSent /\ Once' = Once /\ \A i \in Jobs : Retired(i) => Retired(i)'
        /\ j \in Once => j = m
        /\ ~Retired(m) /\ ~Unsent(m, c) /\ ~Unserved(m)
        /\ SingleDelivery' /\ WorkerInv' /\ CopyInv' /\ HoldInv' /\ QueueInv'
    BY <1>1, HandlerFacts, JobFacts DEF InFlight, dbVars
  <1> DEFINE new == IF c = Done THEN CompletedRow(m) ELSE FailedRow(m)
  <1>3. row[j] \in Row /\ call[m][Fail].progress \in 0..100 /\ 100 \in 0..100
    BY DEF IInv, TypeOK
  <1>4. CompletedRow(m) \in Row /\ FailedRow(m) \in Row
    BY <1>3, RowUpdates DEF CompletedRow, FailedRow
  <1>5. /\ CompletedRow(m).status = "completed" /\ ~CompletedRow(m).error
        /\ CompletedRow(m).completedAt = "recent"
        /\ FailedRow(m).status = "failed" /\ FailedRow(m).error
        /\ FailedRow(m).completedAt = "recent"
    <2> DEFINE r == row[j]
    <2>1. PICK p \in 0..100 : CompletedRow(m) = [r EXCEPT !.status = "completed",
              !.progress = p, !.outputKey = TRUE, !.error = FALSE, !.completedAt = "recent"]
      BY <1>3 DEF CompletedRow
    <2>2. PICK q \in 0..100 : FailedRow(m) = [r EXCEPT !.status = "failed",
              !.progress = q, !.error = TRUE, !.completedAt = "recent"]
      BY <1>3 DEF FailedRow
    <2> HIDE DEF r
    <2>3. /\ CompletedRow(m).status = "completed" /\ ~CompletedRow(m).error
          /\ CompletedRow(m).completedAt = "recent"
      BY <1>3, <2>1 DEF r, Row
    <2>4. /\ FailedRow(m).status = "failed" /\ FailedRow(m).error
          /\ FailedRow(m).completedAt = "recent"
      BY <1>3, <2>2 DEF r, Row
    <2> QED  BY <2>3, <2>4
  <1>6. /\ row' \in [Jobs -> Row] /\ row'[j] = IF Exists(j) THEN new ELSE row[j]
        /\ \A i \in Jobs : i # j => row'[i] = row[i]
    BY <1>4, UpdateFacts DEF IInv
  <1>7. TypeOK'
    BY <1>1, <1>6 DEF IInv, TypeOK, CallStates, Phases, deliveryVars, workerVars, cleanVars
  <1>8. ErrorMatchesOutcome'
    BY <1>5, <1>6 DEF IInv, ErrorMatchesOutcome
  <1>9. ServedInv'
    BY <1>2, <1>5, <1>6, JobFacts DEF IInv, ServedInv, SameSent, Unserved
  <1>10. j \in Once => j \notin purgeSet \cup {purging} /\ row[j].completedAt # "old"
    BY <1>2 DEF IInv, RetiredInv
  <1>11. RetiredInv'
    BY <1>2, <1>5, <1>6, <1>10, JobFacts DEF IInv, RetiredInv, cleanVars
  <1>12. InputInv'
    BY <1>2, Frames, FilesUnchanged DEF cleanVars, deliveryVars
  <1>13. OutputInv'
    BY <1>2, <1>6, <1>10, JobFacts DEF IInv, OutputInv, SameSent, HeldBy, deliveryVars, workerVars, cleanVars
  <1> QED  BY <1>2, <1>7, <1>8, <1>9, <1>11, <1>12, <1>13 DEF IInv

(* The last write of completeJob preserves the invariant.                   *)
LEMMA ClearInputKeyInv ==
    ASSUME IInv, NEW m \in Payloads, NEW c \in {Done, Fail}, ClearInputKey(m, c)  PROVE IInv'
  <1> USE CallFacts DEF ClearInputKey
  <1> PICK j \in Jobs : j = JobOf(m)
    BY JobFacts
  <1>1. /\ call' \in [Payloads -> [Calls -> CallStates]]
        /\ call'[m][c].at = "ok" /\ c \in Calls
        /\ \A i \in Payloads, d \in Calls : <<i, d>> # <<m, c>> => call'[i][d] = call[i][d]
    BY AnswerFacts DEF IInv, TypeOK, CallStates, Phases, Answered
  <1>2. /\ SameSent /\ Once' = Once /\ \A i \in Jobs : Retired(i) => Retired(i)'
        /\ j \in Once => j = m
        /\ SingleDelivery' /\ WorkerInv' /\ CopyInv' /\ HoldInv' /\ QueueInv'
    BY <1>1, HandlerFacts, JobFacts DEF InFlight, dbVars
  <1> DEFINE new == [row[j] EXCEPT !.inputKey = FALSE]
  <1>3. row[j] \in Row
    BY DEF IInv, TypeOK
  <1>4. new \in Row /\ new.status = row[j].status /\ new.error = row[j].error
        /\ new.completedAt = row[j].completedAt
    <2>1. new = [row[j] EXCEPT !.inputKey = FALSE]
      OBVIOUS
    <2> HIDE DEF new
    <2> QED  BY <1>3, <2>1, RowUpdates, RowFields
  <1>5. /\ row' \in [Jobs -> Row] /\ row'[j] \in {new, row[j]}
        /\ \A i \in Jobs : i # j => row'[i] = row[i]
    BY <1>4, UpdateFacts DEF IInv, TypeOK
  <1>6. TypeOK'
    BY <1>1, <1>5 DEF IInv, TypeOK, CallStates, Phases, deliveryVars, workerVars, cleanVars
  <1>7. ErrorMatchesOutcome' /\ ServedInv' /\ RetiredInv' /\ InputInv' /\ OutputInv'
    <2>1. /\ row'[j].status = row[j].status /\ row'[j].error = row[j].error
          /\ row'[j].completedAt = row[j].completedAt
      BY <1>4, <1>5
    <2>2. UNCHANGED <<creating, deliveryVars, files, workerVars, cleanVars>>
      OBVIOUS
    <2> HIDE DEF new
    <2> QED  BY <1>2, <1>5, <2>1, <2>2, RowWriteFacts
  <1> QED  BY <1>2, <1>6, <1>7 DEF IInv

(* The unlinks of completeJob: whatever they take, it is an input of a job  *)
(* whose worker has opened its inputs long ago.                             *)
LEMMA UnlinkInv ==
    ASSUME IInv, NEW m \in Payloads, NEW c \in {Done, Fail},
           DeleteInputArtifact(m, c) \/ UnlinkFails(m, c)
    PROVE  IInv'
  <1> USE CallFacts DEF DeleteInputArtifact, UnlinkFails
  <1> PICK j \in Jobs : j = JobOf(m)
    BY JobFacts
  <1>1. PICK x \in {"unlinked", "error"} : Answer(m, c, x)
    OBVIOUS
  <1>2. /\ call' \in [Payloads -> [Calls -> CallStates]]
        /\ call'[m][c].at = x /\ c \in Calls
        /\ \A i \in Payloads, d \in Calls : <<i, d>> # <<m, c>> => call'[i][d] = call[i][d]
    BY <1>1, AnswerFacts DEF IInv, TypeOK, CallStates, Phases, InFlight, Answered
  <1>3. /\ SameSent /\ Once' = Once /\ \A i \in Jobs : Retired(i) => Retired(i)'
        /\ j \in Once => j = m
        /\ ~Unserved(m)
        /\ SingleDelivery' /\ WorkerInv' /\ CopyInv' /\ HoldInv' /\ QueueInv'
    BY <1>2, HandlerFacts, JobFacts DEF InFlight, dbVars
  <1>4. PICK gone \in SUBSET {"aux", "input"} : files' = [files EXCEPT ![j] = @ \ gone]
    BY DEF InputArtifact
  <1>5. /\ files' \in [Jobs -> SUBSET Files]
        /\ \A i \in Jobs : i # j => files'[i] = files[i]
        /\ "output" \in files'[j] <=> "output" \in files[j]
    BY <1>4 DEF IInv, TypeOK
  <1>6. faults' \in [FaultKinds -> Nat]
    BY DEF IInv, TypeOK, Spend, FaultKinds
  <1>7. TypeOK'
    BY <1>2, <1>5, <1>6 DEF IInv, TypeOK, CallStates, Phases, deliveryVars, workerVars, cleanVars
  <1>8. ErrorMatchesOutcome' /\ ServedInv'
    BY <1>3, Frames DEF deliveryVars
  <1>9. RetiredInv'
    BY <1>3, JobFacts DEF IInv, RetiredInv, cleanVars
  <1>10. InputInv'
    BY <1>3, <1>5, JobFacts DEF IInv, InputInv, SameSent, Unserved, Inputs, cleanVars
  <1>11. OutputInv'
    BY <1>3, <1>5, JobFacts DEF IInv, OutputInv, SameSent, HeldBy, deliveryVars, workerVars, cleanVars
  <1> QED  BY <1>3, <1>7, <1>8, <1>9, <1>10, <1>11 DEF IInv

----------------------------------------------------------------------------
(* The worker.                                                              *)

WorkSteps == {"idle", "marking", "starting", "opening", "running",
              "written", "completing", "failing"}

(* A worker's step that pops nothing: it keeps its job or lets it go, sends *)
(* one report at most, writes no row and removes no file.                   *)
LEMMA WorkerStep ==
    ASSUME IInv, NEW w \in Workers, wjob[w] # NoJob,
           NEW c \in Calls \cup {NoCall}, NEW s \in WorkSteps, Goto(w, s, c),
           \/ s = "idle" /\ c = NoCall
           \/ s = "failing" /\ c = Fail
           \/ s = "completing" /\ c = Done /\ wpc[w] = "written"
           \/ /\ s \in {"starting", "opening", "running", "written"}
              /\ c = NoCall \/ (c \in Reports /\ s \in {"running", "written"})
              /\ wpc[w] \notin {"completing", "failing"},
           s = "written" => wpc[w] = "written" \/ "output" \in files'[JobOf(wjob[w])],
           FilesGrow, files' \in [Jobs -> SUBSET Files], faults' \in [FaultKinds -> Nat],
           lost' \subseteq Payloads,
           UNCHANGED <<row, creating, unanswered, repeated, queue, cleanVars>>
    PROVE  IInv'
  <1> USE CallFacts, JobFacts, MediaJobAssumption
  <1> DEFINE m == wjob[w]
  <1>1. wjob[w] \in Payloads
    BY DEF IInv, TypeOK
  <1>2. /\ call' \in [Payloads -> [Calls -> CallStates]]
        /\ wjob' \in [Workers -> Payloads \cup {NoJob}]
        /\ await' \in [Workers -> Calls \cup {NoCall}]
        /\ wpc' \in [Workers -> WorkSteps]
        /\ wpc'[w] = s /\ await'[w] = c
        /\ wjob'[w] = IF s = "idle" THEN NoJob ELSE wjob[w]
        /\ \A v \in Workers : v # w =>
              wpc'[v] = wpc[v] /\ await'[v] = await[v] /\ wjob'[v] = wjob[v]
        /\ \A i \in Payloads, d \in Calls : <<i, d>> # <<m, c>> => call'[i][d] = call[i][d]
        /\ c # NoCall => call'[m][c].at = "sent"
    BY <1>1, GotoFacts DEF IInv, WorkSteps
  <1>3. \A v \in Workers, i \in Payloads : HeldBy(v, i)' => HeldBy(v, i)
    BY <1>2 DEF HeldBy
  <1>4. \A i \in Payloads, d \in {Done, Fail} : Unsent(i, d)' => Unsent(i, d)
    BY <1>2 DEF Unsent
  <1>5. \A i \in Payloads, d \in {Done, Fail} : i # m \/ d # c => call'[i][d] = call[i][d]
    BY <1>2
  <1>6. ~Retired(m) /\ Pushed(m)
    BY <1>1, PushedFacts DEF Retired, HeldBy
  <1>7. ASSUME NEW i \in Jobs, Retired(i)  PROVE Retired(i)'
    <2>1. i \in Payloads /\ i # m
      BY <1>6, <1>7
    <2> QED  BY <1>3, <1>4, <1>5, <1>7, <2>1 DEF Retired, Unserved, Unsent
  <1>8. \A i \in Payloads : (Unserved(i)' <=> Unserved(i)) \/ i = m
    BY <1>5 DEF Unserved, Unsent
  <1>9. SingleDelivery'
    <2>1. \A v, u \in Workers : wjob'[v] = wjob'[u] => v = u \/ wjob'[v] = NoJob
      <3>1. \A v, u \in Workers : wjob[v] = wjob[u] => v = u \/ wjob[v] = NoJob
        BY DEF IInv, SingleDelivery
      <3>2. \A v \in Workers : wjob'[v] = wjob[v] \/ (v = w /\ wjob'[v] = NoJob)
        BY <1>2
      <3> QED  BY <3>1, <3>2
    <2>2. \A i \in Payloads : Queued(i)' <=> Queued(i)
      BY DEF Queued
    <2>3. \A i \in Payloads : Queued(i)' => \A v \in Workers : ~HeldBy(v, i)'
      <3>1. \A i \in Payloads : Queued(i) => \A v \in Workers : ~HeldBy(v, i)
        BY DEF IInv, SingleDelivery
      <3> QED  BY <1>3, <2>2, <3>1
    <2>4. \A i \in Payloads : Queued(i)' \/ (\E v \in Workers : HeldBy(v, i)')
             => i \in Jobs \cup repeated
      BY <1>3, <2>2 DEF IInv, SingleDelivery
    <2> QED  BY <2>1, <2>3, <2>4 DEF IInv, SingleDelivery
  <1>10. WorkerInv'
    <2>1. /\ wjob'[w] = NoJob <=> s = "idle"
          /\ c = Mark <=> s = "marking"
          /\ c = Done <=> s = "completing"
          /\ c = Fail <=> s = "failing"
          /\ c \in Reports => s \in {"running", "written"}
      BY <1>1, <1>2
    <2>2. \A v \in Workers : v # w =>
            wpc'[v] = wpc[v] /\ await'[v] = await[v] /\ wjob'[v] = wjob[v]
      BY <1>2
    <2>3. InStep(w)'
      BY <1>2, <2>1 DEF InStep
    <2>4. \A v \in Workers : v # w => InStep(v)'
      BY <2>2 DEF IInv, WorkerInv, InStep
    <2> QED  BY <2>3, <2>4 DEF WorkerInv
  <1>11. SamePushed /\ Once' = Once /\ CopyInv'
    <2>1. \A i \in Payloads, d \in Calls : Unsent(i, d) => Unsent(i, d)' \/ Pushed(i)
      BY <1>1, <1>2, <1>6 DEF Unsent
    <2> QED  BY <2>1, PushedFrame
  <1>12. HoldInv'
    <2> SUFFICES ASSUME NEW v \in Workers, NEW i \in Payloads, HeldBy(v, i)'
                 PROVE  /\ Pushed(i)'
                        /\ wpc'[v] # "failing" => Unsent(i, Fail)'
                        /\ wpc'[v] \notin {"completing", "failing"} => Unsent(i, Done)'
      BY DEF HoldInv
    <2>1. /\ HeldBy(v, i) /\ Pushed(i)'
          /\ wpc[v] # "failing" => Unsent(i, Fail)
          /\ wpc[v] \notin {"completing", "failing"} => Unsent(i, Done)
      BY <1>3, <1>11 DEF IInv, HoldInv, SamePushed
    <2>2. CASE v # w
      <3>1. i # m /\ wpc'[v] = wpc[v]
        BY <1>1, <1>2, <2>1, <2>2 DEF IInv, SingleDelivery, HeldBy
      <3> QED  BY <1>5, <2>1, <3>1 DEF Unsent
    <2>3. CASE v = w
      <3>1. i = m /\ s # "idle"
        BY <1>2, <2>1, <2>3 DEF HeldBy
      <3> QED  BY <1>2, <1>5, <2>1, <2>3, <3>1 DEF Unsent
    <2> QED  BY <2>2, <2>3
  <1>13. QueueInv'
    <2>1. \A k \in QueueKeys : \A i \in DOMAIN queue[k] : queue[k][i] \in Payloads
      BY DEF IInv, TypeOK
    <2>2. ~Queued(m)
      BY <1>1 DEF IInv, SingleDelivery, HeldBy
    <2> QED  BY <1>8, <1>11, <2>1, <2>2 DEF IInv, QueueInv, Queued, SamePushed
  <1>14. TypeOK'
    BY <1>2 DEF IInv, TypeOK, CallStates, Phases, WorkSteps, cleanVars
  <1>15. ErrorMatchesOutcome'
    BY Frames
  <1>16. ServedInv'
    <2>1. \A i \in Jobs : Unserved(i)' => Unserved(i)
      BY <1>4 DEF Unserved
    <2> QED  BY <1>4, <1>11, <2>1 DEF IInv, ServedInv
  <1>17. RetiredInv'
    BY <1>7, <1>11 DEF IInv, RetiredInv, cleanVars
  <1>18. InputInv'
    BY <1>4, <1>11 DEF IInv, InputInv, FilesGrow, Unserved, Inputs, cleanVars
  <1>19. OutputInv'
    <2> SUFFICES ASSUME NEW i \in Once, i \notin deleteRequested,
                        "output" \notin files'[i], row[i].completedAt # "old"
                 PROVE  Unsent(i, Done)' /\ \A v \in Workers : HeldBy(v, i)' => wpc'[v] # "written"
      BY <1>11 DEF OutputInv, cleanVars
    <2>1. Unsent(i, Done) /\ \A v \in Workers : HeldBy(v, i) => wpc[v] # "written"
      BY DEF IInv, OutputInv, FilesGrow
    <2>2. CASE i # m
      BY <1>2, <1>3, <1>5, <2>1, <2>2 DEF Unsent, HeldBy
    <2>3. CASE i = m
      <3>1. wpc[w] # "written" /\ c # Done /\ s # "written"
        BY <2>1, <2>3 DEF HeldBy
      <3>2. \A v \in Workers : HeldBy(v, i) => v = w
        BY <1>1, <2>3 DEF IInv, SingleDelivery, HeldBy
      <3> QED  BY <1>2, <1>3, <1>5, <2>1, <2>3, <3>1, <3>2 DEF Unsent
    <2> QED  BY <2>2, <2>3
  <1> QED  BY <1>9, <1>10, <1>11, <1>12, <1>13, <1>14, <1>15, <1>16, <1>17, <1>18, <1>19 DEF IInv

(* A fault is counted, and the count stays a number.                        *)
LEMMA SpendFacts ==
    ASSUME TypeOK, NEW k \in FaultKinds, Spend(k)  PROVE faults' \in [FaultKinds -> Nat]
  BY DEF TypeOK, Spend

(* A worker that waits for a callback has a job, and its step tells which.  *)
LEMMA AwaitFacts ==
    ASSUME IInv, NEW w \in Workers, await[w] # NoCall \/ wpc[w] # "idle"
    PROVE  /\ wjob[w] # NoJob /\ wjob[w] \in Payloads /\ wpc[w] \in WorkSteps
           /\ await[w] \in Calls \cup {NoCall}
           /\ await[w] \in Reports => wpc[w] \in {"running", "written"}
           /\ await[w] = Mark => wpc[w] = "marking"
  BY CallFacts DEF IInv, TypeOK, WorkerInv, InStep, WorkSteps, Calls

(* The return of a callback, on time or given up, preserves the invariant.  *)
LEMMA ResumeInv ==
    ASSUME IInv, NEW w \in Workers, Return(w) \/ GiveUp(w)  PROVE IInv'
  <1> USE CallFacts
  <1>1. /\ await[w] # NoCall /\ UNCHANGED <<dbVars, creating, deliveryVars, queue, cleanVars>>
        /\ UNCHANGED faults \/ Spend("late")
    BY DEF Return, GiveUp
  <1>2. PICK ok \in BOOLEAN : Resume(w, ok)
    BY DEF Return, GiveUp
  <1>3. /\ FilesGrow /\ files' \in [Jobs -> SUBSET Files]
        /\ faults' \in [FaultKinds -> Nat] /\ lost' \subseteq Payloads
        /\ UNCHANGED <<row, creating, unanswered, repeated, queue, cleanVars>>
    BY <1>1, SpendFacts DEF IInv, TypeOK, FilesGrow, dbVars, deliveryVars, FaultKinds
  <1>4. CASE await[w] \in Reports /\ Goto(w, wpc[w], NoCall)
    BY <1>1, <1>3, <1>4, AwaitFacts, WorkerStep DEF WorkSteps
  <1>5. CASE await[w] = Mark /\ Goto(w, "starting", NoCall)
    BY <1>1, <1>3, <1>5, AwaitFacts, WorkerStep DEF WorkSteps
  <1>6. CASE Goto(w, "failing", Fail)
    BY <1>1, <1>3, <1>6, AwaitFacts, WorkerStep DEF WorkSteps
  <1>7. CASE Goto(w, "idle", NoCall)
    BY <1>1, <1>3, <1>7, AwaitFacts, WorkerStep DEF WorkSteps
  <1> QED  BY <1>2, <1>4, <1>5, <1>6, <1>7 DEF Resume

(* The loss of a worker preserves the invariant.                            *)
LEMMA WorkerCrashInv ==
    ASSUME IInv, NEW w \in Workers, WorkerCrash(w)  PROVE IInv'
  <1>1. /\ FilesGrow /\ files' \in [Jobs -> SUBSET Files]
        /\ faults' \in [FaultKinds -> Nat] /\ lost' \subseteq Payloads
        /\ UNCHANGED <<row, creating, unanswered, repeated, queue, cleanVars>>
    BY AwaitFacts, SpendFacts DEF WorkerCrash, IInv, TypeOK, FilesGrow, dbVars, FaultKinds
  <1>2. wpc[w] # "idle" /\ Goto(w, "idle", NoCall)
    BY DEF WorkerCrash
  <1> QED  BY <1>1, <1>2, CallFacts, AwaitFacts, WorkerStep DEF WorkSteps

(* The steps of JobProcessor: each leaves the files there were.             *)
LEMMA ProcessInv ==
    ASSUME IInv, NEW w \in Workers,
           \/ EnsureParent(w) \/ OpenInput(w) \/ SendReport(w)
           \/ WriteOutput(w) \/ RunFails(w) \/ FinishRun(w)
    PROVE  IInv'
  <1> USE CallFacts
  <1>1. wpc[w] # "idle" /\ UNCHANGED <<row, creating, deliveryVars, queue, cleanVars, faults>>
    BY DEF EnsureParent, OpenInput, SendReport, WriteOutput, RunFails, FinishRun, dbVars
  <1>2. /\ faults' \in [FaultKinds -> Nat] /\ lost' \subseteq Payloads
        /\ UNCHANGED <<row, creating, unanswered, repeated, queue, cleanVars>>
    BY <1>1 DEF IInv, TypeOK, deliveryVars
  <1>3. wjob[w] \in Payloads /\ wjob[w] # NoJob /\ JobOf(wjob[w]) \in Jobs
    BY <1>1, AwaitFacts, JobFacts
  <1>4. \/ files' = files
        \/ \E more \in SUBSET Files : files' = [files EXCEPT ![JobOf(wjob[w])] = @ \cup more]
    BY DEF EnsureParent, OpenInput, SendReport, WriteOutput, RunFails, FinishRun, dbVars, Files
  <1>5. FilesGrow /\ files' \in [Jobs -> SUBSET Files]
    <2>1. files \in [Jobs -> SUBSET Files]
      BY DEF IInv, TypeOK
    <2>2. CASE files' = files
      BY <2>1, <2>2 DEF FilesGrow
    <2>3. ASSUME NEW more \in SUBSET Files, files' = [files EXCEPT ![JobOf(wjob[w])] = @ \cup more]
          PROVE  FilesGrow /\ files' \in [Jobs -> SUBSET Files]
      BY ONLY <1>3, <2>1, <2>3 DEF FilesGrow
    <2> QED  BY <1>4, <2>2, <2>3
  <1>6. CASE wpc[w] = "starting" /\ Goto(w, "opening", NoCall)
    BY <1>1, <1>2, <1>3, <1>5, <1>6, WorkerStep DEF WorkSteps
  <1>7. CASE wpc[w] = "opening" /\ Goto(w, "running", NoCall)
    BY <1>1, <1>2, <1>3, <1>5, <1>7, WorkerStep DEF WorkSteps
  <1>8. CASE Goto(w, "failing", Fail)
    BY <1>1, <1>2, <1>3, <1>5, <1>8, WorkerStep DEF WorkSteps
  <1>9. ASSUME NEW p \in Stages, wpc[w] \in {"running", "written"},
               Goto(w, wpc[w], Report(p))
        PROVE  IInv'
    BY <1>1, <1>2, <1>3, <1>5, <1>9, WorkerStep DEF WorkSteps
  <1>10. CASE wpc[w] = "running" /\ Goto(w, "written", NoCall)
              /\ "output" \in files'[JobOf(wjob[w])]
    BY <1>1, <1>2, <1>3, <1>5, <1>10, WorkerStep DEF WorkSteps
  <1>11. CASE wpc[w] = "written" /\ Goto(w, "completing", Done)
    BY <1>1, <1>2, <1>3, <1>5, <1>11, WorkerStep DEF WorkSteps
  <1>12. CASE EnsureParent(w)
    BY <1>6, <1>12 DEF EnsureParent
  <1>13. CASE OpenInput(w)
    BY <1>7, <1>8, <1>13 DEF OpenInput
  <1>14. CASE SendReport(w)
    BY <1>9, <1>14 DEF SendReport
  <1>15. CASE WriteOutput(w)
    BY <1>3, <1>10, <1>15 DEF WriteOutput, IInv, TypeOK
  <1>16. CASE RunFails(w)
    BY <1>8, <1>16 DEF RunFails
  <1>17. CASE FinishRun(w)
    BY <1>11, <1>17 DEF FinishRun
  <1> QED  BY <1>12, <1>13, <1>14, <1>15, <1>16, <1>17

(* A refused callback preserves the invariant.                              *)
LEMMA DropCallInv ==
    ASSUME IInv, NEW w \in Workers, DropCall(w)  PROVE IInv'
  <1> DEFINE m == wjob[w]
             c == await[w]
  <1> USE CallFacts DEF DropCall, dbVars
  <1>1. m \in Payloads /\ c \in Calls
    BY AwaitFacts
  <1>2. /\ call' \in [Payloads -> [Calls -> CallStates]]
        /\ call'[m][c].at = "error"
        /\ \A i \in Payloads, d \in Calls : <<i, d>> # <<m, c>> => call'[i][d] = call[i][d]
    BY <1>1, AnswerFacts DEF IInv, TypeOK, CallStates, Phases, Answered
  <1>3. /\ SameSent /\ Once' = Once /\ \A i \in Jobs : Retired(i) => Retired(i)'
        /\ SingleDelivery' /\ WorkerInv' /\ CopyInv' /\ HoldInv' /\ QueueInv'
    BY <1>1, <1>2, HandlerFacts DEF InFlight
  <1>4. TypeOK'
    BY <1>2, SpendFacts
       DEF IInv, TypeOK, CallStates, Phases, FaultKinds, deliveryVars, workerVars, cleanVars
  <1>5. ErrorMatchesOutcome' /\ ServedInv' /\ RetiredInv' /\ InputInv' /\ OutputInv'
    BY <1>1, <1>3, JobFacts, RowWriteFacts DEF IInv, TypeOK
  <1> QED  BY <1>3, <1>4, <1>5 DEF IInv

(* BRPOP takes the head of one list: every payload left is one place        *)
(* nearer, and the one it took is queued no more.                           *)
LEMMA ShiftFacts ==
    ASSUME IInv, NEW k \in QueueKeys, queue[k] # <<>>,
           queue' = [queue EXCEPT ![k] = Tail(queue[k])]
    PROVE  LET m == Head(queue[k]) IN
           /\ queue' \in [QueueKeys -> Seq(Payloads)]
           /\ m \in Payloads /\ Pushed(m) /\ Unserved(m) /\ Queued(m)
           /\ \A v \in Workers : ~HeldBy(v, m)
           /\ \A h \in QueueKeys : \A i \in DOMAIN queue'[h] :
                 \E g \in DOMAIN queue[h] : queue'[h][i] = queue[h][g]
           /\ \A h \in QueueKeys : \A i \in DOMAIN queue'[h] :
                 /\ QueueOf[JobOf(queue'[h][i])] = h
                 /\ \A g \in DOMAIN queue'[h] : queue'[h][g] = queue'[h][i] => g = i
           /\ \A i \in Payloads : Queued(i)' <=> Queued(i) /\ i # m
  <1> DEFINE m == Head(queue[k])
             list == queue[k]
  <1>1. list \in Seq(Payloads) /\ list # <<>>
    BY DEF IInv, TypeOK
  <1>2. /\ m \in Payloads /\ Tail(list) \in Seq(Payloads) /\ 1 \in DOMAIN list /\ list[1] = m
        /\ \A i \in DOMAIN Tail(list) :
              /\ i \in Int /\ i + 1 \in DOMAIN list /\ i + 1 # 1
              /\ Tail(list)[i] = list[i + 1]
        /\ \A i \in DOMAIN list : i # 1 =>
              i - 1 \in DOMAIN Tail(list) /\ Tail(list)[i - 1] = list[i]
    BY <1>1
  <1>3. Queued(m)
    BY <1>2 DEF Queued
  <1>4. Pushed(m) /\ Unserved(m) /\ \A v \in Workers : ~HeldBy(v, m)
    BY <1>2, <1>3 DEF IInv, QueueInv, SingleDelivery
  <1>5. \A h \in QueueKeys : h # k => queue'[h] = queue[h]
    BY DEF IInv, TypeOK
  <1>6. queue'[k] = Tail(list) /\ queue' \in [QueueKeys -> Seq(Payloads)]
    BY <1>2 DEF IInv, TypeOK
  <1>7. ASSUME NEW h \in QueueKeys, NEW i \in DOMAIN queue'[h]
        PROVE  \E g \in DOMAIN queue[h] : queue'[h][i] = queue[h][g]
    <2>1. CASE h = k
      <3>1. i \in DOMAIN Tail(list)
        BY <1>6, <2>1
      <3>2. i + 1 \in DOMAIN list /\ Tail(list)[i] = list[i + 1]
        BY <1>2, <3>1
      <3> QED  BY <1>6, <2>1, <3>2
    <2>2. CASE h # k
      BY <1>5, <2>2
    <2> QED  BY <2>1, <2>2
  <1>8. \A h \in QueueKeys : \A i \in DOMAIN queue[h] :
          /\ QueueOf[JobOf(queue[h][i])] = h
          /\ \A g \in DOMAIN queue[h] : queue[h][g] = queue[h][i] => g = i
    BY DEF IInv, SingleDelivery
  <1>9. \A h \in QueueKeys : \A i \in DOMAIN queue'[h] :
          /\ QueueOf[JobOf(queue'[h][i])] = h
          /\ \A g \in DOMAIN queue'[h] : queue'[h][g] = queue'[h][i] => g = i
    <2>1. ASSUME NEW h \in QueueKeys, NEW i \in DOMAIN queue'[h]
          PROVE  QueueOf[JobOf(queue'[h][i])] = h
      <3>1. PICK g \in DOMAIN queue[h] : queue'[h][i] = queue[h][g]
        BY <1>7
      <3> QED  BY <1>8, <3>1
    <2>2. \A i, g \in DOMAIN Tail(list) : Tail(list)[g] = Tail(list)[i] => g = i
      <3>1. \A i, g \in DOMAIN list : list[g] = list[i] => g = i
        BY <1>8
      <3> QED  BY <1>2, <3>1
    <2>3. \A h \in QueueKeys : \A i, g \in DOMAIN queue'[h] :
            queue'[h][g] = queue'[h][i] => g = i
      BY <1>5, <1>6, <1>8, <2>2
    <2> QED  BY <2>1, <2>3
  <1>10. \A i \in Payloads : Queued(i)' => Queued(i) /\ i # m
    <2>1. \A h \in QueueKeys : \A i \in DOMAIN queue[h] : queue[h][i] = m => h = k
      BY <1>2, <1>8
    <2>2. \A i \in DOMAIN list : list[i] = m => i = 1
      BY <1>2, <1>8
    <2>3. \A i \in DOMAIN Tail(list) : Tail(list)[i] # m
      BY <1>2, <2>2
    <2>4. \A h \in QueueKeys : \A i \in DOMAIN queue'[h] : queue'[h][i] # m
      BY <1>5, <1>6, <2>1, <2>3
    <2>5. ASSUME NEW i \in Payloads, Queued(i)'  PROVE Queued(i)
      <3>1. PICK h \in QueueKeys : \E g \in DOMAIN queue'[h] : queue'[h][g] = i
        BY <2>5 DEF Queued
      <3>2. PICK g \in DOMAIN queue'[h] : queue'[h][g] = i
        BY <3>1
      <3>3. PICK f \in DOMAIN queue[h] : queue'[h][g] = queue[h][f]
        BY <1>7, <3>2
      <3> QED  BY <3>2, <3>3 DEF Queued
    <2>6. \A i \in Payloads : Queued(i)' => i # m
      BY <2>4 DEF Queued
    <2> QED  BY <2>5, <2>6
  <1>11. ASSUME NEW i \in Payloads, Queued(i), i # m  PROVE Queued(i)'
    <2>1. PICK h \in QueueKeys : \E g \in DOMAIN queue[h] : queue[h][g] = i
      BY <1>11 DEF Queued
    <2>2. PICK g \in DOMAIN queue[h] : queue[h][g] = i
      BY <2>1
    <2>3. CASE h # k
      BY <1>5, <2>2, <2>3 DEF Queued
    <2>4. CASE h = k
      <3>1. g # 1
        BY <1>2, <1>11, <2>2, <2>4
      <3>2. g - 1 \in DOMAIN Tail(list) /\ Tail(list)[g - 1] = i
        BY <1>2, <2>2, <2>4, <3>1
      <3> QED  BY <1>6, <3>2 DEF Queued
    <2> QED  BY <2>3, <2>4
  <1> QED  BY <1>2, <1>3, <1>4, <1>6, <1>7, <1>9, <1>10, <1>11

(* A worker that gets its job preserves the invariant.                      *)
LEMMA PopInv ==
    ASSUME IInv, NEW w \in Workers, Pop(w)  PROVE IInv'
  <1> USE CallFacts, JobFacts, MediaJobAssumption
  <1>1. PICK k \in QueueKeys :
          /\ queue[k] # <<>>
          /\ queue' = [queue EXCEPT ![k] = Tail(queue[k])]
          /\ wjob' = [wjob EXCEPT ![w] = Head(queue[k])]
          /\ Answer(Head(queue[k]), Mark, "sent")
    BY DEF Pop, ServedBy
  <1>2. /\ wpc[w] = "idle" /\ wpc' = [wpc EXCEPT ![w] = "marking"]
        /\ await' = [await EXCEPT ![w] = Mark]
        /\ UNCHANGED <<row, files, creating, unanswered, repeated, lost, cleanVars, faults>>
    BY DEF Pop, dbVars, deliveryVars
  <1> PICK m : m = Head(queue[k])
    OBVIOUS
  <1>3. /\ queue' \in [QueueKeys -> Seq(Payloads)]
        /\ m \in Payloads /\ Pushed(m) /\ Unserved(m) /\ Queued(m)
        /\ \A v \in Workers : ~HeldBy(v, m)
        /\ \A h \in QueueKeys : \A i \in DOMAIN queue'[h] :
              \E g \in DOMAIN queue[h] : queue'[h][i] = queue[h][g]
        /\ \A h \in QueueKeys : \A i \in DOMAIN queue'[h] :
              /\ QueueOf[JobOf(queue'[h][i])] = h
              /\ \A g \in DOMAIN queue'[h] : queue'[h][g] = queue'[h][i] => g = i
        /\ \A i \in Payloads : Queued(i)' <=> Queued(i) /\ i # m
    BY <1>1, ShiftFacts
  <1>4. m # NoJob
    BY <1>3
  <1>5. /\ call' \in [Payloads -> [Calls -> CallStates]]
        /\ \A i \in Payloads, d \in Calls : <<i, d>> # <<m, Mark>> => call'[i][d] = call[i][d]
    BY <1>1, <1>3, AnswerFacts DEF IInv, TypeOK, CallStates, Phases, InFlight
  <1>6. \A i \in Payloads, d \in {Done, Fail} : call'[i][d] = call[i][d]
    BY <1>5
  <1>7. SameSent /\ FilesGrow
    BY <1>2, <1>6, FilesUnchanged DEF SameSent, Unsent
  <1>8. SamePushed /\ Once' = Once /\ CopyInv'
    <2>1. ASSUME NEW i \in Payloads, NEW d \in Calls, Unsent(i, d), ~Pushed(i)
          PROVE  Unsent(i, d)'
      <3>1. i # m
        BY <1>3, <2>1
      <3>2. call'[i][d] = call[i][d]
        BY <1>5, <3>1
      <3> QED  BY <2>1, <3>2 DEF Unsent
    <2> QED  BY <1>2, <2>1, PushedFrame
  <1>9. /\ wjob'[w] = m /\ wpc'[w] = "marking" /\ await'[w] = Mark
        /\ \A v \in Workers : v # w =>
              wpc'[v] = wpc[v] /\ await'[v] = await[v] /\ wjob'[v] = wjob[v]
    BY <1>1, <1>2 DEF IInv, TypeOK
  <1>10. TypeOK'
    BY <1>1, <1>2, <1>3, <1>5 DEF IInv, TypeOK, CallStates, Phases, cleanVars
  <1>11. \A i \in Payloads, v \in Workers : HeldBy(v, i)' <=> HeldBy(v, i) \/ (v = w /\ i = m)
    BY <1>2, <1>9 DEF HeldBy, IInv, WorkerInv, InStep
  <1>12. SingleDelivery'
    <2>1. \A i \in Payloads : Queued(i)' => \A v \in Workers : ~HeldBy(v, i)'
      BY <1>3, <1>11 DEF IInv, SingleDelivery
    <2>2. \A u, v \in Workers : wjob'[u] = wjob'[v] => u = v \/ wjob'[u] = NoJob
      <3>1. \A u, v \in Workers : wjob[u] = wjob[v] => u = v \/ wjob[u] = NoJob
        BY DEF IInv, SingleDelivery
      <3>2. \A u \in Workers : wjob[u] # m
        BY <1>3 DEF HeldBy
      <3> QED  BY <1>9, <3>1, <3>2
    <2>3. \A i \in Payloads : Queued(i)' \/ (\E v \in Workers : HeldBy(v, i)')
             => i \in Jobs \cup repeated'
      BY <1>2, <1>3, <1>11 DEF IInv, SingleDelivery
    <2> QED  BY <1>3, <2>1, <2>2, <2>3 DEF SingleDelivery
  <1>13. WorkerInv'
    <2>1. InStep(w)'
      BY <1>4, <1>9 DEF InStep
    <2>2. \A v \in Workers : v # w => InStep(v)'
      BY <1>9 DEF IInv, WorkerInv, InStep
    <2> QED  BY <2>1, <2>2 DEF WorkerInv
  <1>14. ErrorMatchesOutcome' /\ ServedInv' /\ InputInv'
    BY <1>2, <1>7, Frames DEF cleanVars
  <1>15. HoldInv'
    <2>1. \A i \in Payloads, v \in Workers : HeldBy(v, i)' =>
            (HeldBy(v, i) /\ wpc'[v] = wpc[v]) \/ i = m
      BY <1>9, <1>11 DEF HeldBy
    <2>2. \A i \in Payloads, d \in {Done, Fail} : Unsent(i, d)' <=> Unsent(i, d)
      BY <1>7 DEF SameSent
    <2>3. Unserved(m) /\ Pushed(m)
      BY <1>3
    <2> QED  BY <1>8, <2>1, <2>2, <2>3 DEF IInv, HoldInv, SamePushed, Unserved
  <1>16. QueueInv'
    <2>1. \A h \in QueueKeys : \A i \in DOMAIN queue[h] :
            queue[h][i] \in Payloads /\ Pushed(queue[h][i]) /\ Unserved(queue[h][i])
      BY DEF IInv, TypeOK, QueueInv
    <2>2. \A i \in Payloads : (Pushed(i) => Pushed(i)') /\ (Unserved(i) => Unserved(i)')
      BY <1>7, <1>8 DEF SamePushed, SameSent, Unserved
    <2>3. \A h \in QueueKeys : \A i \in DOMAIN queue'[h] :
            \E x \in Payloads : x = queue'[h][i] /\ Pushed(x) /\ Unserved(x)
      <3>1. \A h \in QueueKeys : \A i \in DOMAIN queue'[h] :
              \E g \in DOMAIN queue[h] : queue'[h][i] = queue[h][g]
        BY <1>3
      <3> QED  BY ONLY <2>1, <3>1
    <2>4. \A h \in QueueKeys : \A i \in DOMAIN queue'[h] :
            \E x \in Payloads : x = queue'[h][i] /\ Pushed(x)' /\ Unserved(x)'
      BY <2>2, <2>3
    <2> QED  BY <2>4 DEF QueueInv, Pushed, Unserved, Unsent
  <1>17. RetiredInv'
    <2>1. \A i \in Jobs : Retired(i) => Retired(i)'
      BY <1>3, <1>6, <1>11 DEF Retired, Unserved, Unsent
    <2> QED  BY <1>2, <1>8, <2>1 DEF IInv, RetiredInv, cleanVars
  <1>18. OutputInv'
    <2>1. \A i \in Payloads, v \in Workers :
            HeldBy(v, i)' /\ wpc'[v] = "written" => HeldBy(v, i) /\ wpc[v] = "written"
      BY <1>9 DEF HeldBy
    <2> QED  BY <1>2, <1>6, <1>8, <2>1 DEF IInv, OutputInv, Unsent, cleanVars
  <1> QED  BY <1>8, <1>10, <1>12, <1>13, <1>14, <1>15, <1>16, <1>17, <1>18 DEF IInv

(* A payload that is popped for nobody is in no place any more.             *)
LEMMA PopLostInv ==
    ASSUME IInv, NEW w \in Workers, PopLost(w)  PROVE IInv'
  <1> USE JobFacts
  <1>1. PICK k \in QueueKeys :
          /\ queue[k] # <<>>
          /\ queue' = [queue EXCEPT ![k] = Tail(queue[k])]
          /\ lost' = lost \cup {Head(queue[k])}
    BY DEF PopLost, ServedBy
  <1>2. /\ UNCHANGED <<row, files, creating, unanswered, repeated, call, wpc, wjob, await,
                       cleanVars>>
        /\ Spend("popLost")
    BY DEF PopLost, dbVars, workerVars
  <1>3. /\ queue' \in [QueueKeys -> Seq(Payloads)] /\ Head(queue[k]) \in Payloads
        /\ \A h \in QueueKeys : \A i \in DOMAIN queue'[h] :
              \E g \in DOMAIN queue[h] : queue'[h][i] = queue[h][g]
        /\ \A h \in QueueKeys : \A i \in DOMAIN queue'[h] :
              /\ QueueOf[JobOf(queue'[h][i])] = h
              /\ \A g \in DOMAIN queue'[h] : queue'[h][g] = queue'[h][i] => g = i
        /\ \A i \in Payloads : Queued(i)' => Queued(i)
    BY <1>1, ShiftFacts
  <1>4. SameSent /\ FilesGrow /\ SamePushed
    BY <1>2, CallUnchanged, FilesUnchanged, Frames
  <1>5. TypeOK'
    BY <1>1, <1>2, <1>3, SpendFacts DEF IInv, TypeOK, FaultKinds, cleanVars
  <1>6. SingleDelivery'
    BY <1>2, <1>3 DEF IInv, SingleDelivery, HeldBy
  <1>7. QueueInv'
    <2>1. \A h \in QueueKeys : \A i \in DOMAIN queue[h] :
            queue[h][i] \in Payloads /\ Pushed(queue[h][i]) /\ Unserved(queue[h][i])
      BY DEF IInv, TypeOK, QueueInv
    <2>2. \A i \in Payloads : (Pushed(i) => Pushed(i)') /\ (Unserved(i) => Unserved(i)')
      BY <1>4 DEF SamePushed, SameSent, Unserved
    <2>3. \A h \in QueueKeys : \A i \in DOMAIN queue'[h] :
            \E x \in Payloads : x = queue'[h][i] /\ Pushed(x) /\ Unserved(x)
      BY <1>3, <2>1
    <2>4. \A h \in QueueKeys : \A i \in DOMAIN queue'[h] :
            \E x \in Payloads : x = queue'[h][i] /\ Pushed(x)' /\ Unserved(x)'
      BY <2>2, <2>3
    <2> QED  BY <2>4 DEF QueueInv, Pushed, Unserved, Unsent
  <1>8. /\ ErrorMatchesOutcome' /\ WorkerInv' /\ CopyInv' /\ HoldInv' /\ ServedInv'
        /\ RetiredInv' /\ InputInv' /\ OutputInv'
    BY <1>2, <1>4, Frames DEF cleanVars
  <1> QED  BY <1>5, <1>6, <1>7, <1>8 DEF IInv

----------------------------------------------------------------------------
(* Deletion and the sweep.                                                  *)

(* Taking files from a job that is deleted, or retired and old, is safe.    *)
LEMMA FilesGoFacts ==
    ASSUME IInv, NEW j \in Jobs,
           \/ j \in deleteRequested \/ j \notin Once
           \/ Retired(j) /\ row[j].completedAt = "old",
           \A i \in Jobs : i # j => files'[i] = files[i],
           deleteRequested \subseteq deleteRequested',
           UNCHANGED <<row, creating, repeated, call, workerVars>>
    PROVE  InputInv' /\ OutputInv'
  <1> USE JobFacts, OnceStays
  <1>1. SameSent
    BY CallUnchanged
  <1>2. InputInv'
    BY <1>1 DEF IInv, InputInv, SameSent, Unserved, Retired, Inputs
  <1>3. OutputInv'
    BY <1>1 DEF IInv, OutputInv, SameSent, HeldBy, workerVars
  <1> QED  BY <1>2, <1>3

(* Steps that leave the worker, the lists, the uploads and callbacks alone. *)
LEMMA CleanFacts ==
    ASSUME IInv, UNCHANGED <<creating, deliveryVars, queue, call, workerVars>>
    PROVE  /\ SameSent /\ Once' = Once /\ \A i \in Jobs : Retired(i)' <=> Retired(i)
           /\ SingleDelivery' /\ WorkerInv' /\ CopyInv' /\ HoldInv' /\ QueueInv'
           /\ UNCHANGED row => ErrorMatchesOutcome' /\ ServedInv'
  <1>1. SameSent
    BY CallUnchanged
  <1>2. \A i \in Jobs : Retired(i)' <=> Retired(i)
    BY JobFacts DEF Retired, Unserved, Unsent, HeldBy, workerVars
  <1>3. SamePushed /\ CopyInv'
    BY Frames DEF deliveryVars
  <1> QED  BY <1>1, <1>2, <1>3, Frames, OnceStays DEF deliveryVars, workerVars

(* The three steps of removeJob, and a failing rm, preserve the invariant.  *)
LEMMA RemoveInv ==
    ASSUME IInv, NEW j \in Jobs,
           \/ FindForRemoval(j) \/ RemoveJobDirectory(j)
           \/ RemoveDirectoryFails(j) \/ RemoveRow(j)
    PROVE  IInv'
  <1> USE JobFacts DEF deliveryVars
  <1>1. UNCHANGED <<creating, deliveryVars, queue, call, workerVars, purgeSet, purging>>
    BY DEF FindForRemoval, RemoveJobDirectory, RemoveDirectoryFails, RemoveRow
  <1>2. /\ SameSent /\ Once' = Once /\ \A i \in Jobs : Retired(i)' <=> Retired(i)
        /\ SingleDelivery' /\ WorkerInv' /\ CopyInv' /\ HoldInv' /\ QueueInv'
        /\ UNCHANGED row => ErrorMatchesOutcome' /\ ServedInv'
    BY <1>1, CleanFacts
  <1>3. CASE FindForRemoval(j)
    <2>1. TypeOK'
      BY <1>1, <1>3 DEF FindForRemoval, IInv, TypeOK, workerVars, dbVars
    <2>2. RetiredInv'
      BY <1>1, <1>2, <1>3 DEF FindForRemoval, IInv, TypeOK, RetiredInv, dbVars
    <2>3. InputInv' /\ OutputInv'
      BY <1>1, <1>2, <1>3 DEF FindForRemoval, IInv, InputInv, OutputInv, SameSent,
                              Unserved, Inputs, HeldBy, workerVars, dbVars
    <2> QED  BY <1>2, <1>3, <2>1, <2>2, <2>3 DEF FindForRemoval, IInv, dbVars
  <1>4. CASE RemoveJobDirectory(j) \/ RemoveDirectoryFails(j)
    <2>1. PICK left \in SUBSET Files : files' = [files EXCEPT ![j] = left]
      BY <1>4 DEF RemoveJobDirectory, RemoveDirectoryFails, IInv, TypeOK
    <2>2. /\ removal[j] # "none" /\ UNCHANGED <<row, deleteRequested>>
          /\ \E x \in {"none", "dirGone"} : removal' = [removal EXCEPT ![j] = x]
          /\ faults' \in [FaultKinds -> Nat]
      BY <1>4, SpendFacts
         DEF RemoveJobDirectory, RemoveDirectoryFails, IInv, TypeOK, FaultKinds
    <2>3. TypeOK'
      BY <1>1, <2>1, <2>2 DEF IInv, TypeOK, workerVars
    <2>4. RetiredInv'
      BY <1>1, <1>2, <2>2 DEF IInv, TypeOK, RetiredInv
    <2>5. j \in deleteRequested \/ j \notin Once
      BY <2>2 DEF IInv, RetiredInv
    <2>6. InputInv' /\ OutputInv'
      BY <1>1, <2>1, <2>2, <2>5, FilesGoFacts DEF IInv, TypeOK
    <2> QED  BY <1>2, <2>2, <2>3, <2>4, <2>6 DEF IInv
  <1>5. CASE RemoveRow(j)
    <2>1. /\ row' = [row EXCEPT ![j] = Absent] /\ Absent \in Row
          /\ Absent.completedAt = "null" /\ Absent.status = "absent"
          /\ UNCHANGED <<files, deleteRequested, faults>>
          /\ removal[j] # "none" /\ removal' = [removal EXCEPT ![j] = "none"]
      BY <1>5, PendingFacts DEF RemoveRow, Absent
    <2>2. j \in deleteRequested \/ j \notin Once
      BY <2>1 DEF IInv, RetiredInv
    <2>3. TypeOK'
      BY <1>1, <2>1 DEF IInv, TypeOK, workerVars
    <2>4. ErrorMatchesOutcome' /\ ServedInv'
      BY <1>1, <1>2, <2>1
         DEF IInv, TypeOK, ErrorMatchesOutcome, ServedInv, SameSent, Unserved
    <2>5. RetiredInv'
      BY <1>1, <1>2, <2>1, <2>2 DEF IInv, TypeOK, RetiredInv
    <2>6. InputInv'
      BY <1>1, <1>2, <2>1, Frames, FilesUnchanged
    <2>7. OutputInv'
      BY <1>1, <1>2, <2>1, <2>2
         DEF IInv, TypeOK, OutputInv, SameSent, HeldBy, workerVars
    <2> QED  BY <1>2, <2>3, <2>4, <2>5, <2>6, <2>7 DEF IInv
  <1> QED  BY <1>3, <1>4, <1>5

(* The passing of the retention preserves the invariant: a busy job does    *)
(* not age.                                                                 *)
LEMMA AgeInv ==
    ASSUME IInv, NEW j \in Jobs, Age(j)  PROVE IInv'
  <1> USE JobFacts DEF deliveryVars
  <1> DEFINE new == [row[j] EXCEPT !.completedAt = "old"]
  <1>1. /\ UNCHANGED <<files, creating, deliveryVars, queue, call, workerVars, cleanVars, faults>>
        /\ row' = [row EXCEPT ![j] = new] /\ row[j] \in Row
        /\ row[j].completedAt = "recent" /\ ~Busy(j)
    BY DEF Age, IInv, TypeOK
  <1>2. new \in Row /\ new.status = row[j].status /\ new.error = row[j].error
        /\ new.completedAt = "old"
    BY <1>1 DEF Row
  <1> HIDE DEF new
  <1>3. /\ SameSent /\ Once' = Once /\ \A i \in Jobs : Retired(i)' <=> Retired(i)
        /\ SingleDelivery' /\ WorkerInv' /\ CopyInv' /\ HoldInv' /\ QueueInv'
    BY <1>1, CleanFacts
  <1>4. TypeOK'
    BY <1>1, <1>2 DEF IInv, TypeOK, deliveryVars, workerVars, cleanVars
  <1>5. ErrorMatchesOutcome' /\ ServedInv'
    BY <1>1, <1>2, <1>3
       DEF IInv, TypeOK, ErrorMatchesOutcome, ServedInv, SameSent, Unserved
  <1>6. j \in Once => Retired(j)
    <2>1. j \in PayloadsOf(j)
      BY DEF PayloadsOf
    <2> QED  BY <1>1, <2>1, CallFacts DEF IInv, ServedInv, Retired, Busy, HeldBy
  <1>7. RetiredInv'
    BY <1>1, <1>2, <1>3, <1>6 DEF IInv, TypeOK, RetiredInv, cleanVars
  <1>8. InputInv'
    BY <1>1, <1>3, Frames, FilesUnchanged DEF cleanVars
  <1>9. OutputInv'
    BY <1>1, <1>2, <1>3 DEF IInv, TypeOK, OutputInv, SameSent, HeldBy, deliveryVars, workerVars, cleanVars
  <1> QED  BY <1>3, <1>4, <1>5, <1>7, <1>8, <1>9 DEF IInv

(* The query of the sweep preserves the invariant: what it finds is         *)
(* retired.                                                                 *)
LEMMA PurgeFindInv ==
    ASSUME IInv, PurgeFind  PROVE IInv'
  <1> USE JobFacts DEF PurgeFind, dbVars, deliveryVars
  <1>1. /\ SameSent /\ Once' = Once /\ \A i \in Jobs : Retired(i)' <=> Retired(i)
        /\ SingleDelivery' /\ WorkerInv' /\ CopyInv' /\ HoldInv' /\ QueueInv'
        /\ ErrorMatchesOutcome' /\ ServedInv'
    BY CleanFacts
  <1>2. TypeOK'
    BY DEF IInv, TypeOK, Expired, workerVars
  <1>3. RetiredInv'
    BY <1>1, MediaJobAssumption DEF IInv, RetiredInv, Expired
  <1>4. InputInv' /\ OutputInv'
    BY <1>1, Frames, FilesUnchanged DEF workerVars
  <1> QED  BY <1>1, <1>2, <1>3, <1>4 DEF IInv

(* The rm of the sweep, whole or partial, preserves the invariant.          *)
LEMMA PurgeFilesInv ==
    ASSUME IInv, NEW j \in Jobs, PurgeDirectory(j) \/ PurgeFails(j)  PROVE IInv'
  <1> USE JobFacts DEF deliveryVars
  <1>1. /\ UNCHANGED <<row, creating, deliveryVars, queue, call, workerVars, removal, deleteRequested>>
        /\ j \in purgeSet
    BY DEF PurgeDirectory, PurgeFails
  <1>2. /\ SameSent /\ Once' = Once /\ \A i \in Jobs : Retired(i)' <=> Retired(i)
        /\ SingleDelivery' /\ WorkerInv' /\ CopyInv' /\ HoldInv' /\ QueueInv'
        /\ ErrorMatchesOutcome' /\ ServedInv'
    BY <1>1, CleanFacts
  <1>3. PICK left \in SUBSET Files : files' = [files EXCEPT ![j] = left]
    BY DEF PurgeDirectory, PurgeFails, IInv, TypeOK
  <1>4. /\ purgeSet' \subseteq purgeSet /\ purging' \in {purging, j}
        /\ faults' \in [FaultKinds -> Nat]
    BY SpendFacts DEF PurgeDirectory, PurgeFails, IInv, TypeOK, FaultKinds
  <1>5. j \in Once => Retired(j) /\ (row[j].completedAt = "old" \/ j \in deleteRequested)
    BY <1>1 DEF IInv, RetiredInv
  <1>6. TypeOK'
    BY <1>1, <1>3, <1>4 DEF IInv, TypeOK, workerVars
  <1>7. RetiredInv'
    BY <1>1, <1>2, <1>4, <1>5 DEF IInv, RetiredInv
  <1>8. InputInv' /\ OutputInv'
    BY <1>1, <1>3, <1>5, FilesGoFacts DEF IInv, TypeOK
  <1> QED  BY <1>2, <1>6, <1>7, <1>8 DEF IInv

(* The UPDATE of the sweep preserves the invariant.                         *)
LEMMA PurgeKeysInv ==
    ASSUME IInv, PurgeKeys  PROVE IInv'
  <1> USE JobFacts DEF deliveryVars
  <1> DEFINE j == purging
             new == [row[j] EXCEPT !.inputKey = FALSE, !.outputKey = FALSE]
  <1>1. /\ UNCHANGED <<files, creating, deliveryVars, queue, call, workerVars,
                       removal, deleteRequested, faults>>
        /\ j \in Jobs /\ row[j] \in Row /\ UpdateRow(j, new)
        /\ purgeSet' \subseteq purgeSet /\ purging' = NoJob
    BY DEF PurgeKeys, IInv, TypeOK
  <1>2. new = [row[j] EXCEPT !.inputKey = FALSE, !.outputKey = FALSE]
    OBVIOUS
  <1> HIDE DEF new
  <1>3. new \in Row /\ new.status = row[j].status /\ new.error = row[j].error
        /\ new.completedAt = row[j].completedAt
    BY <1>1, <1>2, RowUpdates, RowFields
  <1>4. /\ row' \in [Jobs -> Row] /\ row'[j] \in {new, row[j]}
        /\ \A i \in Jobs : i # j => row'[i] = row[i]
    BY <1>1, <1>3, UpdateFacts DEF IInv
  <1>5. \A i \in Jobs : /\ row'[i].status = row[i].status /\ row'[i].error = row[i].error
                        /\ row'[i].completedAt = row[i].completedAt
    BY <1>3, <1>4
  <1>6. /\ SameSent /\ Once' = Once /\ \A i \in Jobs : Retired(i)' <=> Retired(i)
        /\ SingleDelivery' /\ WorkerInv' /\ CopyInv' /\ HoldInv' /\ QueueInv'
    BY <1>1, CleanFacts
  <1>7. TypeOK'
    BY <1>1, <1>4 DEF IInv, TypeOK, workerVars
  <1>8. ErrorMatchesOutcome' /\ ServedInv'
    BY <1>1, <1>5, <1>6 DEF IInv, ErrorMatchesOutcome, ServedInv, SameSent, Unserved
  <1>9. RetiredInv'
    BY <1>1, <1>5, <1>6, MediaJobAssumption DEF IInv, RetiredInv
  <1>10. InputInv'
    BY <1>1, <1>6, Frames, FilesUnchanged
  <1>11. OutputInv'
    BY <1>1, <1>5, <1>6 DEF IInv, OutputInv, SameSent, HeldBy, workerVars
  <1> QED  BY <1>6, <1>7, <1>8, <1>9, <1>10, <1>11 DEF IInv

(* A crash of the API preserves the invariant.                              *)
LEMMA ApiCrashInv ==
    ASSUME IInv, ApiCrash  PROVE IInv'
  <1> USE CallFacts, JobFacts DEF ApiCrash, dbVars
  <1>1. /\ call' \in [Payloads -> [Calls -> CallStates]]
        /\ \A i \in Payloads, c \in Calls :
              \/ call'[i][c] = call[i][c] /\ call[i][c].at \notin InFlight
              \/ call[i][c].at \in InFlight /\ call'[i][c].at = "error"
    <2>1. call \in [Payloads -> [Calls -> CallStates]]
      BY DEF IInv, TypeOK, CallStates, Phases
    <2>2. \A r \in CallStates : /\ [r EXCEPT !.at = "error"] \in CallStates
                               /\ [r EXCEPT !.at = "error"].at = "error"
      BY DEF CallStates, Phases, Answered
    <2>3. \A i \in Payloads, c \in Calls :
             call'[i][c] = IF call[i][c].at \in InFlight
                             THEN [call[i][c] EXCEPT !.at = "error"] ELSE call[i][c]
      OBVIOUS
    <2>4. \A i \in Payloads, c \in Calls : call'[i][c] \in CallStates
      BY <2>1, <2>2, <2>3
    <2>5. call' = [i \in Payloads |-> [c \in Calls |-> call'[i][c]]]
      BY <2>3
    <2>6. call' \in [Payloads -> [Calls -> CallStates]]
      BY <2>4, <2>5
    <2>7. \A i \in Payloads, c \in Calls :
            call[i][c].at \in InFlight => call'[i][c].at = "error"
      BY <2>1, <2>2, <2>3
    <2> QED  BY <2>3, <2>6, <2>7
  <1>2. SameSent
    BY <1>1 DEF SameSent, Unsent, InFlight
  <1>3. \A i \in Jobs : Retired(i) => Retired(i)'
    BY <1>1, <1>2 DEF Retired, SameSent, Unserved, HeldBy, workerVars
  <1>4. \A i \in Jobs : /\ creating[i] = "enqueued" <=> creating'[i] = "enqueued"
                        /\ creating'[i] = creating[i] \/ creating'[i] = "aborted"
    OBVIOUS
  <1>5. SamePushed /\ Once' = Once /\ CopyInv'
    <2>1. \A i \in Payloads, c \in Calls : Unsent(i, c) => Unsent(i, c)'
      BY <1>1 DEF Unsent, InFlight
    <2> QED  BY <1>4, <2>1, PushedFrame
  <1>6. TypeOK'
    BY <1>1, MediaJobAssumption, SpendFacts
       DEF IInv, TypeOK, CallStates, Phases, FaultKinds, workerVars
  <1>7. SingleDelivery' /\ WorkerInv' /\ ErrorMatchesOutcome' /\ OutputInv'
    BY <1>2, Frames, FilesUnchanged DEF workerVars
  <1>8. HoldInv' /\ QueueInv'
    BY <1>2, <1>5, Frames DEF workerVars
  <1>9. ServedInv'
    BY <1>2, <1>5 DEF IInv, ServedInv, SameSent, Unserved
  <1>10. RetiredInv'
    BY <1>3, <1>5, MediaJobAssumption DEF IInv, RetiredInv
  <1>11. InputInv'
    BY <1>2, <1>4, <1>5 DEF IInv, InputInv, SameSent, Unserved, Inputs
  <1> QED  BY <1>5, <1>6, <1>7, <1>8, <1>9, <1>10, <1>11 DEF IInv

----------------------------------------------------------------------------
(* A step that changes nothing preserves the invariant.                     *)
LEMMA StutterInv ==
    ASSUME IInv, UNCHANGED vars  PROVE IInv'
  <1>1. UNCHANGED <<row, files, creating, unanswered, repeated, lost, queue, call, wpc,
                    wjob, await, removal, deleteRequested, purgeSet, purging, faults>>
    BY DEF vars, dbVars, deliveryVars, workerVars, cleanVars
  <1>2. TypeOK'
    BY <1>1 DEF IInv, TypeOK
  <1> QED  BY <1>1, <1>2, CallUnchanged, FilesUnchanged, Frames DEF IInv

(* Every step preserves the invariant.                                      *)
LEMMA NextInv ==
    ASSUME IInv, [Next]_vars  PROVE IInv'
  <1>1. ASSUME NEW j \in Jobs, Create(j)  PROVE IInv'
    BY <1>1, InsertRowInv, SaveFilesInv, SaveKeysInv, EnqueueInv, ResendInv DEF Create
  <1>2. ASSUME NEW m \in Payloads, Handle(m)  PROVE IInv'
    <2>1. CASE MarkProcessing(m)
      BY <2>1, MarkProcessingInv
    <2>2. CASE \E p \in Stages : LoadForProgress(m, p) \/ WriteProgress(m, p)
      BY <2>2, LoadForProgressInv, WriteProgressInv
    <2>3. CASE \E c \in {Done, Fail} : CompleteJob(m, c)
      BY <2>3, LoadForCompleteInv, UpdateCompletedInv, UnlinkInv, ClearInputKeyInv
         DEF CompleteJob
    <2> QED  BY <1>2, <2>1, <2>2, <2>3 DEF Handle
  <1>3. ASSUME NEW j \in Jobs, Remove(j)  PROVE IInv'
    BY <1>3, RemoveInv DEF Remove
  <1>4. ASSUME NEW j \in Jobs, Age(j)  PROVE IInv'
    BY <1>4, AgeInv
  <1>5. ASSUME NEW w \in Workers, Work(w)  PROVE IInv'
    BY <1>5, PopInv, ResumeInv, ProcessInv DEF Work
  <1>6. CASE Purge
    BY <1>6, PurgeFindInv, PurgeFilesInv, PurgeKeysInv DEF Purge
  <1>7. CASE Fault
    <2>1. CASE ApiCrash
      BY <2>1, ApiCrashInv
    <2>2. ASSUME NEW w \in Workers,
                 PopLost(w) \/ DropCall(w) \/ GiveUp(w) \/ WorkerCrash(w)
          PROVE  IInv'
      BY <2>2, PopLostInv, DropCallInv, ResumeInv, WorkerCrashInv
    <2>3. ASSUME NEW j \in Jobs,
                 CreateFails(j) \/ RemoveDirectoryFails(j) \/ PurgeFails(j)
          PROVE  IInv'
      BY <2>3, CreateFailsInv, RemoveInv, PurgeFilesInv
    <2>4. ASSUME NEW m \in Payloads, NEW c \in {Done, Fail}, UnlinkFails(m, c)
          PROVE  IInv'
      BY <2>4, UnlinkInv
    <2> QED  BY <1>7, <2>1, <2>2, <2>3, <2>4 DEF Fault
  <1>8. CASE UNCHANGED vars
    BY <1>8, StutterInv
  <1> QED  BY <1>1, <1>2, <1>3, <1>4, <1>5, <1>6, <1>7, <1>8 DEF Next

(* The inductive invariant holds in every reachable state.                  *)
THEOREM Invariance == Spec => []IInv
  BY InitInv, NextInv, PTL DEF Spec

(* Every variable keeps its type.                                           *)
THEOREM TypeCorrect == Spec => []TypeOK
  BY Invariance, PTL DEF IInv

(* No payload is ever in two places: not twice in the lists, not in a list  *)
(* and at a worker, not at two workers.  And a job has one payload, unless  *)
(* ioredis repeated its LPUSH.                                              *)
THEOREM DeliveredOnce == Spec => []SingleDelivery
  BY Invariance, PTL DEF IInv

(* Whichever of the racing reports of a job lands last, the row carries an  *)
(* error message exactly when it says failed.                               *)
THEOREM ErrorConsistent == Spec => []ErrorMatchesOutcome
  BY Invariance, PTL DEF IInv

(* Nothing but a deletion takes the inputs away from a job whose worker has *)
(* not opened them, or the verdict on another payload of the job, when its  *)
(* LPUSH was repeated.                                                      *)
THEOREM InputsKept == Spec => []InputAvailable
  <1>1. IInv => InputAvailable
    <2> SUFFICES ASSUME IInv, NEW j \in Once, j \notin deleteRequested,
                        \/ Queued(j)
                        \/ \E w \in Workers :
                             HeldBy(w, j) /\ wpc[w] \in {"marking", "starting", "opening"}
                 PROVE  Inputs(j) \subseteq files[j]
      BY DEF InputAvailable
    <2> j \in Jobs /\ j \in Payloads
      BY JobFacts
    <2>1. Pushed(j) /\ Unserved(j)
      <3>1. CASE Queued(j)
        BY <3>1 DEF IInv, QueueInv, Queued
      <3>2. CASE \E w \in Workers :
                   HeldBy(w, j) /\ wpc[w] \in {"marking", "starting", "opening"}
        BY <3>2 DEF IInv, HoldInv, Unserved
      <3> QED  BY <3>1, <3>2
    <2>2. creating[j] = "enqueued"
      BY <2>1, MediaJobAssumption DEF Pushed, IInv, TypeOK
    <2> QED  BY <2>1, <2>2 DEF IInv, InputInv
  <1> QED  BY <1>1, Invariance, PTL

(* A completed job has its output file for as long as it is retained and    *)
(* its user does not delete it, unless its LPUSH was repeated.              *)
THEOREM OutputsKept == Spec => []CompletedHasOutput
  <1>1. IInv => CompletedHasOutput
    BY DEF IInv, CompletedHasOutput, ServedInv, OutputInv
  <1> QED  BY <1>1, Invariance, PTL

(* The sweep never works on a job that a list or a worker still has, unless *)
(* the job's LPUSH was repeated.                                            *)
THEOREM SweepSpares == Spec => []PurgeLeavesActiveJobs
  <1>1. IInv => PurgeLeavesActiveJobs
    BY JobFacts DEF IInv, PurgeLeavesActiveJobs, RetiredInv, Retired, QueueInv, Queued
  <1> QED  BY <1>1, Invariance, PTL

(* What a step may do to the row of a job, and which step does it.          *)
StatusKept(i) ==
    /\ row'[i].status = row[i].status
    /\ row'[i].completedAt = row[i].completedAt \/ row[i].completedAt = "recent"
    /\ row'[i].completedAt = "null" => row[i].completedAt = "null"
    /\ row'[i].progress = row[i].progress \/ \E p \in Stages, m \in PayloadsOf(i) : WriteProgress(m, p)
Inserted(i) ==
    /\ InsertRow(i) \/ (SaveKeys(i) /\ ~Exists(i))
    /\ row'[i].status = "pending" /\ row'[i].completedAt = "null"
Started(i) ==
    /\ Exists(i) /\ \E m \in PayloadsOf(i) : MarkProcessing(m)
    /\ row'[i].status = "processing" /\ row'[i].completedAt = row[i].completedAt
Completed(i) ==
    /\ Exists(i) /\ \E m \in PayloadsOf(i) : UpdateCompleted(m, Done)
    /\ row'[i].status = "completed" /\ row'[i].completedAt = "recent"
    /\ row'[i].progress = 100
Failed(i) ==
    /\ Exists(i) /\ \E m \in PayloadsOf(i) : UpdateCompleted(m, Fail)
    /\ row'[i].status = "failed" /\ row'[i].completedAt = "recent"
Removed(i) ==
    /\ RemoveRow(i)
    /\ row'[i].status = "absent" /\ row'[i].completedAt = "null"

RowMoves(i) ==
    StatusKept(i) \/ Inserted(i) \/ Started(i) \/ Completed(i) \/ Failed(i) \/ Removed(i)

(* The status of a row changes only by an insert, a verdict or a removal.   *)
LEMMA RowStep ==
    ASSUME IInv, Next, NEW i \in Jobs  PROVE RowMoves(i)
  <1> USE DEF RowMoves
  <1>1. row \in [Jobs -> Row] /\ row[i] \in Row
    BY DEF IInv, TypeOK
  <1>2. CASE row'[i] = row[i]
    BY <1>2 DEF StatusKept
  <1>3. ASSUME NEW j, NEW r, UpdateRow(j, r), j # i \/ ~Exists(i)  PROVE RowMoves(i)
    BY <1>1, <1>2, <1>3 DEF UpdateRow
  <1>4. CASE InsertRow(i)
    BY <1>1, <1>4, PendingFacts DEF InsertRow, Inserted
  <1>5. CASE SaveKeys(i)
    <2> DEFINE old == IF Exists(i) THEN row[i] ELSE Pending
               new == [old EXCEPT !.inputKey = TRUE, !.outputKey = TRUE]
    <2>1. old \in Row /\ new = [old EXCEPT !.inputKey = TRUE, !.outputKey = TRUE]
      BY <1>1, PendingFacts
    <2>2. row'[i] = new
      BY <1>1, <1>5 DEF SaveKeys
    <2>3. CASE Exists(i)
      <3>1. old = row[i]
        BY <2>3
      <3> HIDE DEF old, new
      <3>2. /\ new.status = old.status /\ new.completedAt = old.completedAt
            /\ new.progress = old.progress
        BY <2>1 DEF Row
      <3> QED  BY <2>2, <3>1, <3>2 DEF StatusKept
    <2>4. CASE ~Exists(i)
      <3>1. old = Pending
        BY <2>4
      <3> HIDE DEF old, new
      <3>2. new.status = old.status /\ new.completedAt = old.completedAt
        BY <2>1 DEF Row
      <3> QED  BY <1>5, <2>2, <2>4, <3>1, <3>2, PendingFacts DEF Inserted
    <2> QED  BY <2>3, <2>4
  <1> DEFINE Own == PayloadsOf(i)
  <1>6. ASSUME NEW m \in Own, MarkProcessing(m)  PROVE RowMoves(i)
    <2>1. UpdateRow(i, [row[i] EXCEPT !.status = "processing", !.progress = 10])
      BY <1>6 DEF MarkProcessing, PayloadsOf
    <2>2. CASE Exists(i)
      <3>1. row'[i] = [row[i] EXCEPT !.status = "processing", !.progress = 10]
        BY <1>1, <2>1, <2>2 DEF UpdateRow
      <3> QED  BY <1>1, <1>6, <2>2, <3>1 DEF Started, Row
    <2> QED  BY <1>3, <2>1, <2>2
  <1>7. ASSUME NEW p \in Stages, NEW m \in Own, WriteProgress(m, p)  PROVE RowMoves(i)
    <2>1. UpdateRow(i, [row[i] EXCEPT !.progress = p])
      BY <1>7 DEF WriteProgress, PayloadsOf
    <2>2. CASE Exists(i)
      <3>1. row'[i] = [row[i] EXCEPT !.progress = p]
        BY <1>1, <2>1, <2>2 DEF UpdateRow
      <3>2. row'[i].status = row[i].status /\ row'[i].completedAt = row[i].completedAt
        BY <1>1, <3>1 DEF Row
      <3> QED  BY <1>7, <3>2 DEF StatusKept
    <2> QED  BY <1>3, <2>1, <2>2
  <1>8. ASSUME NEW m \in Own, UpdateCompleted(m, Done)  PROVE RowMoves(i)
    <2>1. JobOf(m) = i /\ UpdateRow(i, CompletedRow(m))
      BY <1>8 DEF UpdateCompleted, PayloadsOf
    <2>2. CASE Exists(i)
      <3>1. row'[i] = CompletedRow(m)
        BY <1>1, <2>1, <2>2 DEF UpdateRow
      <3> QED  BY <1>1, <1>8, <2>1, <2>2, <3>1 DEF Completed, CompletedRow, Row
    <2> QED  BY <1>3, <2>1, <2>2
  <1>9. ASSUME NEW m \in Own, UpdateCompleted(m, Fail)  PROVE RowMoves(i)
    <2>1. JobOf(m) = i /\ UpdateRow(i, FailedRow(m))
      BY <1>9, CallFacts DEF UpdateCompleted, PayloadsOf
    <2>2. CASE Exists(i)
      <3>1. row'[i] = FailedRow(m)
        BY <1>1, <2>1, <2>2 DEF UpdateRow
      <3> QED  BY <1>1, <1>9, <2>1, <2>2, <3>1 DEF Failed, FailedRow, Row
    <2> QED  BY <1>3, <2>1, <2>2
  <1>10. ASSUME NEW m \in Own, NEW c \in {Done, Fail}, ClearInputKey(m, c)
         PROVE  RowMoves(i)
    <2>1. CASE row' = row
      BY <1>2, <2>1
    <2>2. CASE UpdateRow(i, [row[i] EXCEPT !.inputKey = FALSE])
      <3>1. CASE Exists(i)
        <4>1. row'[i] = [row[i] EXCEPT !.inputKey = FALSE]
          BY <1>1, <2>2, <3>1 DEF UpdateRow
        <4> QED  BY <1>1, <4>1 DEF StatusKept, Row
      <3> QED  BY <1>3, <2>2, <3>1
    <2> QED  BY <1>10, <2>1, <2>2 DEF ClearInputKey, PayloadsOf
  <1>11. CASE RemoveRow(i)
    BY <1>1, <1>11 DEF RemoveRow, Removed, Absent
  <1>12. CASE Age(i)
    <2>1. row'[i] = [row[i] EXCEPT !.completedAt = "old"] /\ row[i].completedAt = "recent"
      BY <1>1, <1>12 DEF Age
    <2> QED  BY <1>1, <2>1 DEF StatusKept, Row
  <1>13. CASE PurgeKeys
    <2>1. CASE purging = i /\ Exists(i)
      <3>1. row'[i] = [row[i] EXCEPT !.inputKey = FALSE, !.outputKey = FALSE]
        BY <1>1, <1>13, <2>1 DEF PurgeKeys, UpdateRow
      <3> QED  BY <1>1, <3>1 DEF StatusKept, Row
    <2> QED  BY <1>3, <1>13, <2>1 DEF PurgeKeys
  <1>14. ASSUME NEW j \in Jobs, Create(j)  PROVE RowMoves(i)
    BY <1>1, <1>2, <1>4, <1>5, <1>14
       DEF Create, InsertRow, SaveInput, SaveAux, SaveKeys, Enqueue, Resend, dbVars
  <1>15. ASSUME NEW m \in Payloads, Handle(m)  PROVE RowMoves(i)
    <2>1. CASE m \in Own
      <3>1. CASE MarkProcessing(m)
        BY <1>6, <2>1, <3>1
      <3>2. ASSUME NEW p \in Stages, LoadForProgress(m, p)  PROVE RowMoves(i)
        BY <1>2, <3>2 DEF LoadForProgress, dbVars
      <3>3. ASSUME NEW p \in Stages, WriteProgress(m, p)  PROVE RowMoves(i)
        BY <1>7, <2>1, <3>3
      <3>4. ASSUME NEW c \in {Done, Fail}, CompleteJob(m, c)  PROVE RowMoves(i)
        BY <1>2, <1>8, <1>9, <1>10, <2>1, <3>4
           DEF CompleteJob, LoadForComplete, DeleteInputArtifact, dbVars
      <3> QED  BY <1>15, <3>1, <3>2, <3>3, <3>4 DEF Handle
    <2>2. CASE m \notin Own
      <3>1. JobOf(m) # i
        BY <2>2 DEF PayloadsOf
      <3>2. row' = row \/ \E r : UpdateRow(JobOf(m), r)
        BY <1>15
           DEF Handle, MarkProcessing, LoadForProgress, WriteProgress, CompleteJob,
               LoadForComplete, UpdateCompleted, DeleteInputArtifact, ClearInputKey, dbVars
      <3> QED  BY <1>2, <1>3, <3>1, <3>2
    <2> QED  BY <2>1, <2>2
  <1>16. ASSUME NEW j \in Jobs, Remove(j) \/ Age(j)  PROVE RowMoves(i)
    BY <1>1, <1>2, <1>11, <1>12, <1>16
       DEF Remove, FindForRemoval, RemoveJobDirectory, RemoveRow, Age, dbVars
  <1>17. ASSUME NEW w \in Workers, Work(w)  PROVE RowMoves(i)
    BY <1>2, <1>17
       DEF Work, Pop, Return, EnsureParent, OpenInput, SendReport, WriteOutput,
           RunFails, FinishRun, dbVars
  <1>18. CASE Purge
    BY <1>2, <1>13, <1>18 DEF Purge, PurgeFind, PurgeDirectory, dbVars
  <1>19. CASE Fault
    BY <1>2, <1>19
       DEF Fault, ApiCrash, PopLost, DropCall, GiveUp, WorkerCrash, CreateFails,
           RemoveDirectoryFails, PurgeFails, UnlinkFails, dbVars
  <1> QED  BY <1>14, <1>15, <1>16, <1>17, <1>18, <1>19 DEF Next

(* Only the upload inserts: every other step leaves a missing row missing.  *)
LEMMA MissingStaysMissing ==
    ASSUME IInv, Next, NEW i \in Jobs, ~Exists(i), creating[i] \notin {"new", "gotAll"}
    PROVE  ~Exists(i)'
  <1>1. row[i].status = "absent"
    BY DEF Exists
  <1>2. ~Inserted(i)
    BY DEF Inserted, InsertRow, SaveKeys
  <1>3. ~Started(i) /\ ~Completed(i) /\ ~Failed(i)
    BY DEF Started, Completed, Failed
  <1>4. StatusKept(i) \/ Removed(i)
    BY <1>2, <1>3, RowStep DEF RowMoves
  <1> QED  BY <1>1, <1>4 DEF StatusKept, Removed, Exists

(* No callback, however late, and no sweep brings a deleted row back.       *)
THEOREM NoResurrection == Spec => CallbacksNeverResurrect
  <1>1. IInv /\ [Next]_vars =>
          [\A j \in Jobs : ~Exists(j) /\ Exists(j)' => creating[j] \in {"new", "gotAll"}]_vars
    BY MissingStaysMissing
  <1> QED  BY <1>1, Invariance, PTL DEF Spec, CallbacksNeverResurrect

----------------------------------------------------------------------------
(* What a step does to the callbacks and the workers, as long as no worker  *)
(* gives a callback up: handlers go on, a worker takes a payload, or it     *)
(* goes on, with none of its reports under way.                             *)
NoneAsked(j) == \A d \in {Mark} \cup Reports : call[j][d].at \notin InFlight

HandlersGoOn ==
    /\ UNCHANGED workerVars
    /\ \A i \in Payloads, d \in Calls : call'[i][d].at # call[i][d].at =>
          /\ call[i][d].at \in InFlight /\ call'[i][d].at # "unsent"
          /\ d = Mark /\ call'[i][d].at = "ok" => MarkProcessing(i)
          /\ OnlyRefusals /\ call[i][d].at \in Decided => call'[i][d].at \in Decided
          /\ d \in {Done, Fail} /\ call'[i][d].at \in Decided =>
                call[i][d].at \in Decided \/ UpdateCompleted(i, d)

Takes(w, j) ==
    /\ Queued(j) /\ ~Queued(j)' /\ wjob[w] = NoJob
    /\ wjob'[w] = j /\ wpc'[w] = "marking" /\ await'[w] = Mark
    /\ \A v \in Workers : v # w =>
          wpc'[v] = wpc[v] /\ await'[v] = await[v] /\ wjob'[v] = wjob[v]
    /\ call'[j][Mark].at = "sent"
    /\ \A i \in Payloads, d \in Calls : <<i, d>> # <<j, Mark>> => call'[i][d] = call[i][d]

MayGo(w, s, c) ==
    \/ s = "idle" /\ c = NoCall
    \/ /\ NoneAsked(wjob[w]) /\ wpc[w] \in WorkSteps \ {"idle", "failing"}
       /\ c # NoCall => Unsent(wjob[w], c)
       /\ \/ s = "failing" /\ c = Fail /\ call[wjob[w]][Done].at \in {"unsent", "error"}
          \/ s = "completing" /\ c = Done /\ wpc[w] = "written"
          \/ s = "starting" /\ c = NoCall /\ wpc[w] = "marking" /\ Marked(wjob[w])
          \/ /\ s \in {"opening", "running", "written"} /\ c \in Reports \cup {NoCall}
             /\ wpc[w] \notin {"marking", "completing"}

Advances(w, s, c) ==
    /\ wjob[w] \in Payloads /\ s \in WorkSteps /\ c \in Calls \cup {NoCall}
    /\ Goto(w, s, c) /\ MayGo(w, s, c)

Exchange ==
    \/ HandlersGoOn
    \/ \E w \in Workers, j \in Payloads : Takes(w, j)
    \/ \E w \in Workers, s \in WorkSteps, c \in Calls \cup {NoCall} : Advances(w, s, c)

(* The same with less said of the worker that goes on.                      *)
Moves ==
    \/ HandlersGoOn
    \/ \E w \in Workers, j \in Payloads : Takes(w, j)
    \/ \E w \in Workers, s \in WorkSteps, c \in Calls \cup {NoCall} :
          wjob[w] \in Payloads /\ Goto(w, s, c)

(* One handler goes on, and the others do not move.                         *)
LEMMA OneHandler ==
    ASSUME IInv, NEW j \in Payloads, NEW c \in Calls, call[j][c].at \in InFlight,
           call'[j][c].at # "unsent",
           \A i \in Payloads, d \in Calls : <<i, d>> # <<j, c>> => call'[i][d] = call[i][d],
           c = Mark /\ call'[j][c].at = "ok" => MarkProcessing(j),
           OnlyRefusals /\ call[j][c].at \in Decided => call'[j][c].at \in Decided,
           c \in {Done, Fail} /\ call'[j][c].at \in Decided =>
              call[j][c].at \in Decided \/ UpdateCompleted(j, c),
           UNCHANGED workerVars
    PROVE  HandlersGoOn
  <1> SUFFICES ASSUME NEW i \in Payloads, NEW d \in Calls, call'[i][d].at # call[i][d].at
               PROVE  i = j /\ d = c
    BY DEF HandlersGoOn
  <1> QED  OBVIOUS

(* The handlers of the API go on one at a time.                             *)
LEMMA HandleExchange ==
    ASSUME IInv, NEW j \in Payloads, Handle(j)  PROVE HandlersGoOn
  <1> USE CallFacts
  <1>1. call \in [Payloads -> [Calls -> CallStates]]
    BY DEF IInv, TypeOK, CallStates, Phases
  <1>2. ASSUME NEW c \in Calls, NEW x \in Phases, x # "unsent", Answer(j, c, x),
               call[j][c].at \in InFlight,
               c = Mark /\ x = "ok" => MarkProcessing(j),
               call[j][c].at \in Decided => x \in Decided,
               c \in {Done, Fail} /\ x \in Decided =>
                  call[j][c].at \in Decided \/ UpdateCompleted(j, c),
               UNCHANGED workerVars
        PROVE  HandlersGoOn
    <2>1. /\ call'[j][c].at = x
          /\ \A i \in Payloads, d \in Calls : <<i, d>> # <<j, c>> => call'[i][d] = call[i][d]
      BY <1>1, <1>2, AnswerFacts
    <2> QED  BY <1>2, <2>1, OneHandler
  <1>3. CASE MarkProcessing(j)
    BY <1>2, <1>3 DEF MarkProcessing, Phases, InFlight, Answered, Decided
  <1>4. ASSUME NEW p \in Stages, LoadForProgress(j, p)  PROVE HandlersGoOn
    BY <1>2, <1>4 DEF LoadForProgress, Phases, InFlight, Answered, Decided
  <1>5. ASSUME NEW p \in Stages, WriteProgress(j, p)  PROVE HandlersGoOn
    BY <1>2, <1>5 DEF WriteProgress, Phases, InFlight, Answered, Decided
  <1>6. ASSUME NEW c \in {Done, Fail}, LoadForComplete(j, c)  PROVE HandlersGoOn
    <2> DEFINE new == [at |-> IF Exists(JobOf(j)) THEN "loaded" ELSE "error",
                       inputKey |-> row[JobOf(j)].inputKey,
                       progress |-> row[JobOf(j)].progress]
    <2>1. /\ call[j][c].at = "sent" /\ UNCHANGED workerVars
          /\ call' = [call EXCEPT ![j] = [call[j] EXCEPT ![c] = new]]
      BY <1>6 DEF LoadForComplete
    <2>2. new.at # "unsent" /\ new.at \notin Decided
      BY DEF Decided
    <2> HIDE DEF new
    <2>3. /\ call'[j][c] = new
          /\ \A i \in Payloads, d \in Calls : <<i, d>> # <<j, c>> => call'[i][d] = call[i][d]
      BY <1>1, <2>1
    <2>4. call[j][c].at \in InFlight /\ call[j][c].at \notin Decided /\ c # Mark
      BY <2>1 DEF InFlight, Decided
    <2>5. call'[j][c].at # "unsent" /\ call'[j][c].at \notin Decided
      BY <2>2, <2>3
    <2> QED  BY <2>1, <2>3, <2>4, <2>5, OneHandler
  <1>7. ASSUME NEW c \in {Done, Fail}, UpdateCompleted(j, c)  PROVE HandlersGoOn
    BY <1>2, <1>7 DEF UpdateCompleted, Phases, InFlight, Decided
  <1>8. ASSUME NEW c \in {Done, Fail}, DeleteInputArtifact(j, c)  PROVE HandlersGoOn
    BY <1>2, <1>8 DEF DeleteInputArtifact, Phases, InFlight, Decided
  <1>9. ASSUME NEW c \in {Done, Fail}, ClearInputKey(j, c)  PROVE HandlersGoOn
    BY <1>2, <1>9 DEF ClearInputKey, Phases, InFlight, Answered, Decided
  <1> QED  BY <1>3, <1>4, <1>5, <1>6, <1>7, <1>8, <1>9 DEF Handle, CompleteJob

(* A refusal, a failing unlink and a crash of the API end handlers early.   *)
LEMMA FaultExchange ==
    ASSUME IInv,
           \/ \E w \in Workers : DropCall(w)
           \/ \E j \in Payloads, c \in {Done, Fail} : UnlinkFails(j, c)
           \/ ApiCrash
    PROVE  HandlersGoOn
  <1> USE CallFacts
  <1>1. call \in [Payloads -> [Calls -> CallStates]] /\ faults \in [FaultKinds -> Nat]
    BY DEF IInv, TypeOK, CallStates, Phases
  <1>2. ASSUME NEW w \in Workers, DropCall(w)  PROVE HandlersGoOn
    <2>1. wjob[w] \in Payloads /\ await[w] \in Calls
      BY <1>2, AwaitFacts DEF DropCall
    <2>2. /\ call'[wjob[w]][await[w]].at = "error"
          /\ \A i \in Payloads, d \in Calls :
                <<i, d>> # <<wjob[w], await[w]>> => call'[i][d] = call[i][d]
      BY <1>1, <1>2, <2>1, AnswerFacts DEF DropCall, Phases, Answered
    <2> QED  BY <1>2, <2>1, <2>2, OneHandler DEF DropCall, InFlight, Decided
  <1>3. ASSUME NEW k \in {"disk", "apiCrash"}, Spend(k)  PROVE ~OnlyRefusals
    BY <1>1, <1>3 DEF Spend, OnlyRefusals, FaultKinds
  <1>4. ASSUME NEW j \in Payloads, NEW c \in {Done, Fail}, UnlinkFails(j, c)  PROVE HandlersGoOn
    <2>1. /\ call'[j][c].at = "error"
          /\ \A i \in Payloads, d \in Calls : <<i, d>> # <<j, c>> => call'[i][d] = call[i][d]
      BY <1>1, <1>4, AnswerFacts DEF UnlinkFails, Phases, Answered
    <2>2. /\ call[j][c].at \in InFlight /\ c # Mark /\ UNCHANGED workerVars
          /\ ~OnlyRefusals
      BY <1>3, <1>4 DEF UnlinkFails, InFlight
    <2>3. call'[j][c].at # "unsent" /\ call'[j][c].at \notin Decided
      BY <2>1 DEF Decided
    <2> QED  BY <2>1, <2>2, <2>3, OneHandler
  <1>5. CASE ApiCrash
    <2>1. \A i \in Payloads, c \in Calls :
            call'[i][c] = IF call[i][c].at \in InFlight
                            THEN [call[i][c] EXCEPT !.at = "error"] ELSE call[i][c]
      BY <1>5 DEF ApiCrash
    <2>2. \A r \in CallStates : [r EXCEPT !.at = "error"].at = "error"
      BY DEF CallStates
    <2>3. \A i \in Payloads, c \in Calls : call'[i][c].at # call[i][c].at =>
            call[i][c].at \in InFlight /\ call'[i][c].at = "error"
      <3> SUFFICES ASSUME NEW i \in Payloads, NEW c \in Calls, call'[i][c].at # call[i][c].at
                   PROVE  call[i][c].at \in InFlight /\ call'[i][c].at = "error"
        OBVIOUS
      <3>1. PICK r \in CallStates : r = call[i][c]
        BY <1>1
      <3> QED  BY <2>1, <2>2, <3>1
    <2>4. UNCHANGED workerVars
      BY <1>5 DEF ApiCrash, workerVars
    <2>5. ~OnlyRefusals
      BY <1>3, <1>5 DEF ApiCrash
    <2>6. ASSUME NEW i \in Payloads, NEW c \in Calls, call'[i][c].at # call[i][c].at
          PROVE  /\ call[i][c].at \in InFlight /\ call'[i][c].at # "unsent"
                 /\ call'[i][c].at # "ok" /\ call'[i][c].at \notin Decided
      <3>1. call[i][c].at \in InFlight /\ call'[i][c].at = "error"
        BY <2>3, <2>6
      <3> QED  BY <3>1 DEF Decided
    <2> QED  BY <2>4, <2>5, <2>6 DEF HandlersGoOn
  <1> QED  BY <1>2, <1>4, <1>5

(* A worker that waits for nothing, or whose callback has answered, has no  *)
(* report under way.                                                        *)
LEMMA NothingAsked ==
    ASSUME IInv, FlightInv, NEW w \in Workers, wjob[w] \in Payloads,
           await[w] # NoCall => call[wjob[w]][await[w]].at \in Answered
    PROVE  NoneAsked(wjob[w])
  <1> SUFFICES ASSUME NEW d \in {Mark} \cup Reports, call[wjob[w]][d].at \in InFlight
               PROVE  FALSE
    BY DEF NoneAsked
  <1>1. await[w] = d
    BY DEF FlightInv, HeldBy
  <1> QED  BY <1>1, CallFacts DEF InFlight, Answered

(* A patient worker's steps besides Pop: it goes on, or it is gone.         *)
LEMMA AdvanceExchange ==
    ASSUME IInv, FlightInv, Patient, NEW w \in Workers,
           \/ Return(w) \/ EnsureParent(w) \/ OpenInput(w) \/ SendReport(w)
           \/ WriteOutput(w) \/ RunFails(w) \/ FinishRun(w)
           \/ GiveUp(w) \/ WorkerCrash(w)
    PROVE  \E s \in WorkSteps, c \in Calls \cup {NoCall} : Advances(w, s, c)
  <1> DEFINE j == wjob[w]
  <1> USE CallFacts
  <1>1. ~GiveUp(w)
    <2>1. faults \in [FaultKinds -> Nat] /\ "late" \in FaultKinds
      BY DEF IInv, TypeOK, FaultKinds
    <2>2. faults["late"] \in Nat
      BY <2>1
    <2>3. FaultBudget["late"] = 0
      BY DEF Patient
    <2>4. ~Spend("late")
      BY ONLY <2>2, <2>3 DEF Spend
    <2> QED  BY <2>4 DEF GiveUp
  <1>2. wpc[w] # "idle" \/ await[w] # NoCall
    BY DEF Return, EnsureParent, OpenInput, SendReport, WriteOutput, RunFails, FinishRun,
           GiveUp, WorkerCrash
  <1>3. /\ j \in Payloads /\ wpc[w] \in WorkSteps /\ wpc[w] # "idle"
        /\ await[w] \in Calls \cup {NoCall}
        /\ await[w] \in Reports => wpc[w] \in {"running", "written"}
        /\ await[w] = Mark <=> wpc[w] = "marking"
        /\ await[w] = Done <=> wpc[w] = "completing"
        /\ await[w] = Fail <=> wpc[w] = "failing"
    BY <1>2, AwaitFacts DEF IInv, WorkerInv, InStep
  <1>4. /\ wpc[w] # "failing" => Unsent(j, Fail)
        /\ wpc[w] \notin {"completing", "failing"} => Unsent(j, Done)
    BY <1>3 DEF IInv, HoldInv, HeldBy
  <1>5. CASE WorkerCrash(w)
    <2>1. Goto(w, "idle", NoCall)
      BY <1>5 DEF WorkerCrash
    <2> QED  BY <1>3, <2>1 DEF Advances, MayGo, WorkSteps
  <1>6. CASE Return(w)
    <2>1. NoneAsked(j) /\ await[w] # NoCall /\ call[j][await[w]].at \in Answered
      BY <1>3, <1>6, NothingAsked DEF Return
    <2>2. CASE await[w] \in Reports /\ Goto(w, wpc[w], NoCall)
      BY <1>3, <2>1, <2>2 DEF Advances, MayGo, WorkSteps
    <2>3. CASE await[w] = Mark /\ call[j][Mark].at = "ok" /\ Goto(w, "starting", NoCall)
      BY <1>3, <2>1, <2>3 DEF Advances, MayGo, WorkSteps, Marked
    <2>4. CASE await[w] \in {Mark, Done} /\ call[j][await[w]].at # "ok" /\ Goto(w, "failing", Fail)
      <3>1. call[j][Done].at \in {"unsent", "error"}
        BY <1>3, <1>4, <2>1, <2>4 DEF Unsent, Answered
      <3>2. wpc[w] \in WorkSteps \ {"idle", "failing"} /\ Unsent(j, Fail)
        BY <1>3, <1>4, <2>4
      <3>3. MayGo(w, "failing", Fail)
        BY <2>1, <3>1, <3>2 DEF MayGo
      <3>4. Fail \in Calls \cup {NoCall} /\ "failing" \in WorkSteps
        BY DEF WorkSteps
      <3> QED  BY <1>3, <2>4, <3>3, <3>4 DEF Advances
    <2>5. CASE Goto(w, "idle", NoCall)
      BY <1>3, <2>5 DEF Advances, MayGo, WorkSteps
    <2> QED  BY <1>6, <2>2, <2>3, <2>4, <2>5 DEF Return, Resume
  <1>7. ASSUME await[w] = NoCall  PROVE NoneAsked(j) /\ wpc[w] \notin {"marking", "completing", "failing"}
    BY <1>3, <1>7, NothingAsked
  <1>8. await[w] = NoCall \/ wpc[w] \notin {"starting", "opening"}
    BY <1>3 DEF Calls
  <1>9. ASSUME Goto(w, "failing", Fail), wpc[w] \in {"opening", "running"}, await[w] = NoCall
        PROVE  Advances(w, "failing", Fail)
    <2>1. /\ call[j][Done].at \in {"unsent", "error"} /\ Unsent(j, Fail)
          /\ wpc[w] \in WorkSteps \ {"idle", "failing"} /\ NoneAsked(j)
      BY <1>3, <1>4, <1>7, <1>9 DEF Unsent
    <2>2. Fail \in Calls \cup {NoCall} /\ "failing" \in WorkSteps
      BY DEF WorkSteps
    <2> QED  BY <1>3, <1>9, <2>1, <2>2 DEF Advances, MayGo
  <1>10. ASSUME NEW s \in {"opening", "running", "written"}, NEW c \in Reports \cup {NoCall},
                Goto(w, s, c), c # NoCall => Unsent(j, c), await[w] = NoCall
         PROVE  Advances(w, s, c)
    <2>1. /\ wpc[w] \in WorkSteps \ {"idle", "failing", "marking", "completing"}
          /\ NoneAsked(j) /\ s \in WorkSteps /\ c \in Calls \cup {NoCall}
      BY <1>3, <1>7, <1>10 DEF WorkSteps
    <2> QED  BY <1>3, <1>10, <2>1 DEF Advances, MayGo
  <1>11. CASE EnsureParent(w)
    <2>1. Advances(w, "opening", NoCall)
      BY <1>8, <1>10, <1>11 DEF EnsureParent
    <2> QED  BY <2>1 DEF WorkSteps
  <1>12. CASE OpenInput(w)
    <2>1. Advances(w, "running", NoCall) \/ Advances(w, "failing", Fail)
      BY <1>8, <1>9, <1>10, <1>12 DEF OpenInput
    <2> QED  BY <2>1 DEF WorkSteps
  <1>13. CASE SendReport(w)
    <2>1. PICK p \in Stages :
            /\ wpc[w] = IF p = 100 THEN "written" ELSE "running"
            /\ Unsent(j, Report(p)) /\ Goto(w, wpc[w], Report(p)) /\ await[w] = NoCall
      BY <1>13 DEF SendReport, Unsent
    <2>2. Advances(w, wpc[w], Report(p)) /\ Report(p) \in Calls
      BY <1>10, <2>1
    <2> QED  BY <1>3, <2>2
  <1>14. CASE WriteOutput(w)
    <2>1. Advances(w, "written", NoCall)
      BY <1>10, <1>14 DEF WriteOutput
    <2> QED  BY <2>1 DEF WorkSteps
  <1>15. CASE RunFails(w)
    <2>1. Advances(w, "failing", Fail)
      BY <1>9, <1>15 DEF RunFails
    <2> QED  BY <2>1 DEF WorkSteps
  <1>16. CASE FinishRun(w)
    <2>1. /\ wpc[w] = "written" /\ NoneAsked(j) /\ Unsent(j, Done)
          /\ Goto(w, "completing", Done)
      BY <1>4, <1>7, <1>16 DEF FinishRun
    <2>2. wpc[w] \in WorkSteps \ {"idle", "failing"} /\ "completing" \in WorkSteps
      BY <2>1 DEF WorkSteps
    <2>3. Advances(w, "completing", Done)
      BY <1>3, <2>1, <2>2 DEF Advances, MayGo
    <2> QED  BY <2>2, <2>3
  <1> QED  BY <1>1, <1>5, <1>6, <1>11, <1>12, <1>13, <1>14, <1>15, <1>16

(* Pop takes a payload that no list keeps.                                  *)
LEMMA TakeExchange ==
    ASSUME IInv, NEW w \in Workers, Pop(w)  PROVE \E m \in Payloads : Takes(w, m)
  <1>1. PICK k \in QueueKeys :
          /\ queue[k] # <<>>
          /\ queue' = [queue EXCEPT ![k] = Tail(queue[k])]
          /\ wjob' = [wjob EXCEPT ![w] = Head(queue[k])]
          /\ Answer(Head(queue[k]), Mark, "sent")
    BY DEF Pop, ServedBy
  <1>2. /\ wpc' = [wpc EXCEPT ![w] = "marking"] /\ await' = [await EXCEPT ![w] = Mark]
        /\ wpc \in [Workers -> WorkSteps] /\ wjob \in [Workers -> Payloads \cup {NoJob}]
        /\ await \in [Workers -> Calls \cup {NoCall}]
        /\ call \in [Payloads -> [Calls -> CallStates]]
    BY DEF Pop, IInv, TypeOK, WorkSteps, CallStates, Phases
  <1> PICK m : m = Head(queue[k])
    OBVIOUS
  <1>3. /\ m \in Payloads /\ Queued(m)
        /\ \A i \in Payloads : Queued(i)' <=> Queued(i) /\ i # m
    BY <1>1, ShiftFacts
  <1>4. /\ call'[m][Mark].at = "sent"
        /\ \A i \in Payloads, d \in Calls : <<i, d>> # <<m, Mark>> => call'[i][d] = call[i][d]
    BY <1>1, <1>2, <1>3, CallFacts, AnswerFacts DEF Phases, InFlight
  <1>5. ~Queued(m)'
    BY <1>3
  <1>6. wjob[w] = NoJob
    BY DEF Pop, IInv, WorkerInv, InStep
  <1>7. Takes(w, m)
    BY <1>1, <1>2, <1>3, <1>4, <1>5, <1>6 DEF Takes
  <1> QED  BY <1>3, <1>7

(* What every step does to the callbacks and the workers.                   *)
LEMMA StepExchange ==
    ASSUME IInv, FlightInv, Patient, Next  PROVE Exchange
  <1>1. ASSUME UNCHANGED <<call, workerVars>>  PROVE Exchange
    BY <1>1 DEF Exchange, HandlersGoOn
  <1>2. ASSUME NEW j \in Jobs, Create(j) \/ Remove(j) \/ Age(j)  PROVE Exchange
    BY <1>1, <1>2
       DEF Create, InsertRow, SaveInput, SaveAux, SaveKeys, Enqueue, Resend, Remove,
           FindForRemoval, RemoveJobDirectory, RemoveRow, Age
  <1>3. ASSUME NEW j \in Payloads, Handle(j)  PROVE Exchange
    BY <1>3, HandleExchange DEF Exchange
  <1>4. ASSUME NEW w \in Workers, Work(w) \/ GiveUp(w) \/ WorkerCrash(w)  PROVE Exchange
    BY <1>4, TakeExchange, AdvanceExchange DEF Work, Exchange
  <1>5. CASE Purge
    BY <1>1, <1>5 DEF Purge, PurgeFind, PurgeDirectory, PurgeKeys
  <1>6. CASE Fault
    <2>1. ASSUME NEW j \in Jobs, CreateFails(j) \/ RemoveDirectoryFails(j) \/ PurgeFails(j)
          PROVE  Exchange
      BY <1>1, <2>1 DEF CreateFails, RemoveDirectoryFails, PurgeFails
    <2>2. ASSUME NEW w \in Workers, PopLost(w)  PROVE Exchange
      BY <1>1, <2>2 DEF PopLost
    <2> QED  BY <1>4, <1>6, <2>1, <2>2, FaultExchange DEF Fault, Exchange
  <1> QED  BY <1>2, <1>3, <1>4, <1>5, <1>6 DEF Next

(* An upload only goes on, and a deletion that began is remembered.         *)
LEMMA UploadStep ==
    ASSUME IInv, Next, NEW i \in Jobs
    PROVE  /\ creating'[i] = "new" => creating[i] = "new"
           /\ creating[i] = "new" => creating'[i] = "new" \/ InsertRow(i)
           /\ creating[i] = "enqueued" => creating'[i] = "enqueued"
           /\ deleteRequested \subseteq deleteRequested'
  <1> DEFINE Goal == /\ creating'[i] = "new" => creating[i] = "new"
                     /\ creating[i] = "new" => creating'[i] = "new" \/ InsertRow(i)
                     /\ creating[i] = "enqueued" => creating'[i] = "enqueued"
                     /\ deleteRequested \subseteq deleteRequested'
  <1> SUFFICES Goal  OBVIOUS
  <1>1. creating \in [Jobs -> {"new", "inserted", "gotInput", "gotAll",
                               "keyed", "enqueued", "aborted"}]
    BY DEF IInv, TypeOK
  <1>2. ASSUME UNCHANGED creating, deleteRequested \subseteq deleteRequested'
        PROVE  Goal
    BY <1>2
  <1>3. ASSUME NEW j \in Jobs, UNCHANGED deleteRequested,
               NEW x, x # "new", creating' = [creating EXCEPT ![j] = x],
               creating[j] \notin {"new", "enqueued"} \/ InsertRow(j)
        PROVE  Goal
    <2>1. creating'[i] = IF i = j THEN x ELSE creating[i]
      BY <1>1, <1>3
    <2>2. InsertRow(j) => creating[j] = "new"
      BY DEF InsertRow
    <2> QED  BY <1>3, <2>1, <2>2
  <1>4. ASSUME NEW j \in Jobs, InsertRow(j)  PROVE Goal
    BY <1>3, <1>4 DEF InsertRow, cleanVars
  <1>5. ASSUME NEW j \in Jobs, SaveInput(j)  PROVE Goal
    BY <1>3, <1>5 DEF SaveInput, cleanVars
  <1>6. ASSUME NEW j \in Jobs, SaveAux(j) \/ SaveKeys(j)  PROVE Goal
    BY <1>3, <1>6 DEF SaveAux, SaveKeys, cleanVars
  <1>7. ASSUME NEW j \in Jobs, Enqueue(j)  PROVE Goal
    BY <1>3, <1>7 DEF Enqueue, cleanVars
  <1>8. ASSUME NEW j \in Jobs, Resend(j)  PROVE Goal
    BY <1>2, <1>8 DEF Resend, cleanVars
  <1>9. ASSUME NEW j \in Jobs, CreateFails(j)  PROVE Goal
    BY <1>3, <1>9 DEF CreateFails, cleanVars
  <1>10. CASE ApiCrash
    BY <1>1, <1>10 DEF ApiCrash
  <1>11. ASSUME NEW w \in Workers,
                Work(w) \/ PopLost(w) \/ DropCall(w) \/ GiveUp(w) \/ WorkerCrash(w)
         PROVE  Goal
    <2>1. UNCHANGED <<creating, deleteRequested>>
      BY <1>11 DEF Work, Pop, Return, EnsureParent, OpenInput, SendReport, WriteOutput,
                   RunFails, FinishRun, PopLost, DropCall, GiveUp, WorkerCrash, cleanVars
    <2> QED  BY <1>2, <2>1
  <1>12. ASSUME NEW m \in Payloads, Handle(m) \/ \E c \in {Done, Fail} : UnlinkFails(m, c)
         PROVE  Goal
    <2>1. UNCHANGED <<creating, deleteRequested>>
      BY <1>12 DEF Handle, MarkProcessing, LoadForProgress, WriteProgress, CompleteJob,
                   LoadForComplete, UpdateCompleted, DeleteInputArtifact, ClearInputKey,
                   UnlinkFails, cleanVars
    <2> QED  BY <1>2, <2>1
  <1>13. ASSUME NEW j \in Jobs,
                Remove(j) \/ Age(j) \/ RemoveDirectoryFails(j) \/ PurgeFails(j)
         PROVE  Goal
    <2>1. UNCHANGED creating /\ deleteRequested \subseteq deleteRequested'
      BY <1>13 DEF Remove, FindForRemoval, RemoveJobDirectory, RemoveRow, Age,
                   RemoveDirectoryFails, PurgeFails, cleanVars
    <2> QED  BY <1>2, <2>1
  <1>14. CASE Purge
    BY <1>2, <1>14 DEF Purge, PurgeFind, PurgeDirectory, PurgeKeys
  <1> QED
    BY <1>4, <1>5, <1>6, <1>7, <1>8, <1>9, <1>10, <1>11, <1>12, <1>13, <1>14
       DEF Next, Create, Fault

(* LPUSH alone puts a payload on a list, and none twice; BRPOP alone takes  *)
(* one off.                                                                 *)
LEMMA ListStep ==
    ASSUME IInv, Next, NEW i \in Payloads
    PROVE  /\ Pushed(i) => Pushed(i)'
           /\ Queued(i)' => Queued(i) \/ ~Pushed(i)
           /\ Pushed(i)' => Pushed(i) \/ Queued(i)'
           /\ Queued(i) => \/ Queued(i)'
                           \/ \E w \in Workers : Takes(w, i) \/ (PopLost(w) /\ i \in lost')
           /\ lost \subseteq lost' /\ Once' \subseteq Once
  <1> DEFINE Goal == /\ Pushed(i) => Pushed(i)'
                     /\ Queued(i)' => Queued(i) \/ ~Pushed(i)
                     /\ Pushed(i)' => Pushed(i) \/ Queued(i)'
                     /\ Queued(i) =>
                          \/ Queued(i)'
                          \/ \E w \in Workers : Takes(w, i) \/ (PopLost(w) /\ i \in lost')
                     /\ lost \subseteq lost' /\ Once' \subseteq Once
  <1> SUFFICES Goal  OBVIOUS
  <1> USE JobFacts
  <1>1. ASSUME UNCHANGED <<queue, repeated>>, lost \subseteq lost',
               \A j \in Jobs : creating'[j] = "enqueued" <=> creating[j] = "enqueued"
        PROVE  Goal
    BY <1>1 DEF Queued, Pushed, Once, Resent
  <1>2. creating \in [Jobs -> {"new", "inserted", "gotInput", "gotAll",
                               "keyed", "enqueued", "aborted"}]
    BY DEF IInv, TypeOK
  <1>3. ASSUME NEW j \in Jobs, NEW m \in Payloads, Push(j, m), ~Pushed(m),
               \A k \in Payloads : Pushed(k)' <=> Pushed(k) \/ k = m,
               UNCHANGED lost, repeated \subseteq repeated'
        PROVE  Goal
    <2>1. queue \in [QueueKeys -> Seq(Payloads)]
      BY DEF IInv, TypeOK
    <2>2. /\ Queued(m)'
          /\ Queued(i)' => Queued(i) \/ i = m
          /\ Queued(i) => Queued(i)'
      BY <1>3, <2>1, PushFacts
    <2>3. Once' \subseteq Once
      BY <1>3 DEF Once, Resent
    <2>4. Pushed(i)' <=> Pushed(i) \/ i = m
      BY <1>3
    <2>5. CASE i = m
      BY <1>3, <2>2, <2>3, <2>4, <2>5
    <2>6. CASE i # m
      BY <1>3, <2>2, <2>3, <2>4, <2>6
    <2> QED  BY <2>5, <2>6
  <1>4. ASSUME NEW j \in Jobs, Enqueue(j)  PROVE Goal
    <2>1. /\ j \in Payloads /\ ~Pushed(j) /\ Push(j, j)
          /\ creating' = [creating EXCEPT ![j] = "enqueued"] /\ UNCHANGED <<lost, repeated>>
      BY <1>4, NotEnqueued DEF Enqueue
    <2>2. \A k \in Payloads : Pushed(k)' <=> Pushed(k) \/ k = j
      BY <1>2, <2>1 DEF Pushed
    <2> QED  BY <1>3, <2>1, <2>2
  <1>5. ASSUME NEW j \in Jobs, Resend(j)  PROVE Goal
    <2>1. PICK m \in PayloadsOf(j) \ ({j} \cup repeated) :
             Push(j, m) /\ repeated' = repeated \cup {m}
      BY <1>5 DEF Resend
    <2>2. m \in Payloads /\ m \notin Jobs /\ ~Pushed(m) /\ UNCHANGED <<creating, lost>>
      BY <1>5, <2>1, MediaJobAssumption DEF Resend, PayloadsOf, Payloads, JobOf, Pushed
    <2>3. \A k \in Payloads : Pushed(k)' <=> Pushed(k) \/ k = m
      BY <2>1, <2>2 DEF Pushed
    <2> QED  BY <1>3, <2>1, <2>2, <2>3
  <1>6. ASSUME NEW j \in Jobs,
               InsertRow(j) \/ SaveInput(j) \/ SaveAux(j) \/ SaveKeys(j) \/ CreateFails(j)
        PROVE  Goal
    <2>1. /\ UNCHANGED <<queue, deliveryVars>> /\ creating[j] # "enqueued"
          /\ \E x : x # "enqueued" /\ creating' = [creating EXCEPT ![j] = x]
      BY <1>6 DEF InsertRow, SaveInput, SaveAux, SaveKeys, CreateFails
    <2>2. \A k \in Jobs : creating'[k] = "enqueued" <=> creating[k] = "enqueued"
      BY <1>2, <2>1
    <2> QED  BY <1>1, <2>1, <2>2 DEF deliveryVars
  <1>7. CASE ApiCrash
    <2>1. /\ UNCHANGED <<queue, repeated, lost>>
          /\ \A k \in Jobs : creating'[k] = "enqueued" <=> creating[k] = "enqueued"
      BY <1>7 DEF ApiCrash
    <2> QED  BY <1>1, <2>1
  <1>8. ASSUME NEW w \in Workers, Pop(w) \/ PopLost(w)  PROVE Goal
    <2>1. PICK k \in QueueKeys :
            /\ queue[k] # <<>>
            /\ queue' = [queue EXCEPT ![k] = Tail(queue[k])]
            /\ \/ PopLost(w) /\ lost' = lost \cup {Head(queue[k])}
               \/ Pop(w) /\ wjob' = [wjob EXCEPT ![w] = Head(queue[k])]
      <3>1. CASE Pop(w)
        BY <3>1 DEF Pop, ServedBy
      <3>2. CASE PopLost(w)
        BY <3>2 DEF PopLost, ServedBy
      <3> QED  BY <1>8, <3>1, <3>2
    <2>2. UNCHANGED <<creating, repeated>> /\ lost \subseteq lost'
      BY <1>8 DEF Pop, PopLost, deliveryVars
    <2>3. Queued(i)' <=> Queued(i) /\ i # Head(queue[k])
      BY <2>1, ShiftFacts
    <2>4. (Pushed(i)' <=> Pushed(i)) /\ Once' = Once /\ lost \subseteq lost'
      BY <1>8, <2>1, <2>2, OnceStays DEF Pushed
    <2>5. ASSUME Pop(w), wjob' = [wjob EXCEPT ![w] = Head(queue[k])], Queued(i), ~Queued(i)'
          PROVE  Takes(w, i)
      <3>1. PICK m \in Payloads : Takes(w, m)
        BY <2>5, TakeExchange
      <3>2. wjob'[w] = m
        BY <3>1 DEF Takes
      <3>3. wjob'[w] = Head(queue[k])
        BY <2>5 DEF IInv, TypeOK
      <3> QED  BY <2>3, <2>5, <3>1, <3>2, <3>3
    <2> QED  BY <2>1, <2>3, <2>4, <2>5
  <1>9. ASSUME NEW w \in Workers,
               \/ Return(w) \/ EnsureParent(w) \/ OpenInput(w) \/ SendReport(w)
               \/ WriteOutput(w) \/ RunFails(w) \/ FinishRun(w)
               \/ DropCall(w) \/ GiveUp(w) \/ WorkerCrash(w)
        PROVE  Goal
    <2>1. UNCHANGED <<creating, queue, repeated>> /\ lost \subseteq lost'
      BY <1>9 DEF Return, EnsureParent, OpenInput, SendReport, WriteOutput, RunFails,
                  FinishRun, DropCall, GiveUp, WorkerCrash, deliveryVars
    <2> QED  BY <1>1, <2>1
  <1>10. ASSUME NEW m \in Payloads, Handle(m) \/ \E c \in {Done, Fail} : UnlinkFails(m, c)
         PROVE  Goal
    <2>1. UNCHANGED <<creating, queue, repeated, lost>>
      BY <1>10 DEF Handle, MarkProcessing, LoadForProgress, WriteProgress, CompleteJob,
                   LoadForComplete, UpdateCompleted, DeleteInputArtifact, ClearInputKey,
                   UnlinkFails, deliveryVars
    <2> QED  BY <1>1, <2>1
  <1>11. ASSUME NEW j \in Jobs,
                Remove(j) \/ Age(j) \/ RemoveDirectoryFails(j) \/ PurgeFails(j)
         PROVE  Goal
    <2>1. UNCHANGED <<creating, queue, repeated, lost>>
      BY <1>11 DEF Remove, FindForRemoval, RemoveJobDirectory, RemoveRow, Age,
                   RemoveDirectoryFails, PurgeFails, deliveryVars
    <2> QED  BY <1>1, <2>1
  <1>12. CASE Purge
    <2>1. UNCHANGED <<creating, queue, repeated, lost>>
      BY <1>12 DEF Purge, PurgeFind, PurgeDirectory, PurgeKeys, deliveryVars
    <2> QED  BY <1>1, <2>1
  <1>13. ASSUME NEW w \in Workers, Work(w)  PROVE Goal
    BY <1>8, <1>9, <1>13 DEF Work
  <1>14. ASSUME NEW j \in Jobs, Create(j)  PROVE Goal
    BY <1>4, <1>5, <1>6, <1>14 DEF Create
  <1>15. CASE Fault
    <2>1. ASSUME NEW w \in Workers, PopLost(w) \/ DropCall(w) \/ GiveUp(w) \/ WorkerCrash(w)
          PROVE  Goal
      BY <1>8, <1>9, <2>1
    <2>2. ASSUME NEW j \in Jobs, CreateFails(j) \/ RemoveDirectoryFails(j) \/ PurgeFails(j)
          PROVE  Goal
      BY <1>6, <1>11, <2>2
    <2> QED  BY <1>7, <1>10, <1>15, <2>1, <2>2 DEF Fault
  <1> QED
    <2>1. ASSUME NEW j \in Jobs, Create(j) \/ Remove(j) \/ Age(j)  PROVE Goal
      BY <1>11, <1>14, <2>1
    <2>2. ASSUME NEW m \in Payloads, Handle(m)  PROVE Goal
      BY <1>10, <2>2
    <2> HIDE DEF Goal
    <2> QED  BY <1>12, <1>13, <1>15, <2>1, <2>2 DEF Next

(* Nothing was asked for a job before a worker takes it.                    *)
LEMMA QuietStep ==
    ASSUME IInv, QuietInv, Moves, Next  PROVE QuietInv'
  <1> SUFFICES ASSUME NEW m \in Payloads, Queued(m)', NEW c \in Calls
               PROVE  Unsent(m, c)'
    BY DEF QuietInv
  <1>1. Unsent(m, c)
    <2>1. Queued(m) \/ ~Pushed(m)
      BY ListStep
    <2> QED  BY <2>1 DEF QuietInv, IInv, CopyInv
  <1>2. CASE HandlersGoOn
    BY <1>1, <1>2 DEF HandlersGoOn, Unsent, InFlight
  <1>3. ASSUME NEW w \in Workers, NEW i \in Payloads, Takes(w, i)  PROVE Unsent(m, c)'
    <2>1. m # i
      BY <1>3 DEF Takes
    <2> QED  BY <1>1, <1>3, <2>1 DEF Takes, Unsent
  <1>4. ASSUME NEW w \in Workers, NEW s \in WorkSteps, NEW d \in Calls \cup {NoCall},
               wjob[w] \in Payloads, Goto(w, s, d)
        PROVE  Unsent(m, c)'
    <2>1. \A i \in Payloads, e \in Calls : <<i, e>> # <<wjob[w], d>> => call'[i][e] = call[i][e]
      BY <1>4, GotoFacts DEF IInv, WorkSteps
    <2>2. m # wjob[w]
      <3>1. ASSUME m = wjob[w]  PROVE FALSE
        <4>1. ~Queued(m) /\ Pushed(m)
          BY <1>4, <3>1, PushedFacts DEF IInv, SingleDelivery, HeldBy
        <4> QED  BY <4>1, ListStep
      <3> QED  BY <3>1
    <2> QED  BY <1>1, <2>1, <2>2 DEF Unsent
  <1> QED  BY <1>2, <1>3, <1>4 DEF Moves

(* The marking or a progress report under way is what the worker waits for. *)
LEMMA FlightStep ==
    ASSUME IInv, QuietInv, FlightInv, Patient, Next  PROVE FlightInv'
  <1> USE CallFacts
  <1> SUFFICES ASSUME NEW j \in Payloads, NEW c \in {Mark} \cup Reports, call'[j][c].at \in InFlight
               PROVE  Unserved(j)' /\ \A w \in Workers : HeldBy(w, j)' => await'[w] = c
    BY DEF FlightInv
  <1>1. c \in Calls /\ c \notin {Done, Fail}
    OBVIOUS
  <1>2. CASE HandlersGoOn
    <2>1. call[j][c].at \in InFlight
      BY <1>1, <1>2 DEF HandlersGoOn
    <2>2. Unserved(j) /\ \A w \in Workers : HeldBy(w, j) => await[w] = c
      BY <2>1 DEF FlightInv
    <2>3. Unserved(j)'
      BY <1>2, <2>2 DEF HandlersGoOn, Unserved, Unsent, InFlight
    <2> QED  BY <1>2, <2>2, <2>3 DEF HandlersGoOn, HeldBy, workerVars
  <1>3. ASSUME NEW w \in Workers, NEW i \in Payloads, Takes(w, i)
        PROVE  Unserved(j)' /\ \A v \in Workers : HeldBy(v, j)' => await'[v] = c
    <2>1. \A d \in Calls : Unsent(i, d)
      BY <1>3 DEF Takes, QuietInv
    <2>2. \A d \in {Done, Fail}, k \in Payloads : call'[k][d] = call[k][d]
      BY <1>3 DEF Takes
    <2>3. CASE j = i
      <3>1. c = Mark
        <4>1. ASSUME c # Mark  PROVE FALSE
          <5>1. call'[i][c] = call[i][c]
            BY <1>1, <1>3, <4>1 DEF Takes
          <5> QED  BY <1>1, <2>1, <2>3, <5>1 DEF Unsent, InFlight
        <4> QED  BY <4>1
      <3>2. \A v \in Workers : HeldBy(v, i)' => v = w
        BY <1>3 DEF Takes, IInv, SingleDelivery, HeldBy
      <3> QED  BY <1>3, <2>1, <2>2, <2>3, <3>1, <3>2 DEF Takes, Unserved, Unsent
    <2>4. CASE j # i
      <3>1. call'[j][c] = call[j][c]
        BY <1>1, <1>3, <2>4 DEF Takes
      <3>2. Unserved(j) /\ \A v \in Workers : HeldBy(v, j) => await[v] = c
        BY <3>1 DEF FlightInv
      <3> QED  BY <1>3, <2>2, <2>4, <3>2 DEF Takes, HeldBy, Unserved, Unsent
    <2> QED  BY <2>3, <2>4
  <1>4. ASSUME NEW w \in Workers, NEW s \in WorkSteps, NEW d \in Calls \cup {NoCall},
               Advances(w, s, d)
        PROVE  Unserved(j)' /\ \A v \in Workers : HeldBy(v, j)' => await'[v] = c
    <2>1. /\ wjob[w] \in Payloads /\ MayGo(w, s, d)
          /\ wpc'[w] = s /\ await'[w] = d
          /\ wjob'[w] = IF s = "idle" THEN NoJob ELSE wjob[w]
          /\ \A v \in Workers : v # w =>
                wpc'[v] = wpc[v] /\ await'[v] = await[v] /\ wjob'[v] = wjob[v]
          /\ \A i \in Payloads, e \in Calls : <<i, e>> # <<wjob[w], d>> => call'[i][e] = call[i][e]
      BY <1>4, GotoFacts DEF IInv, Advances, WorkSteps
    <2>2. CASE <<j, c>> = <<wjob[w], d>>
      <3>1. c = d /\ j = wjob[w]
        BY <2>2
      <3>2. c \in Reports /\ wpc[w] \notin {"completing", "failing"} /\ s # "idle"
        BY <1>1, <2>1, <3>1 DEF MayGo
      <3>3. Unserved(j)
        BY <3>1, <3>2 DEF IInv, HoldInv, HeldBy, Unserved
      <3>4. \A v \in Workers : HeldBy(v, j)' => v = w
        BY <2>1, <3>1, MediaJobAssumption DEF IInv, SingleDelivery, HeldBy
      <3>5. Unserved(j)'
        <4>1. \A e \in {Done, Fail} : e \in Calls /\ <<j, e>> # <<wjob[w], d>>
          BY <1>1, <3>1
        <4>2. \A e \in {Done, Fail} : call'[j][e] = call[j][e]
          BY <2>1, <4>1
        <4> QED  BY <3>3, <4>2 DEF Unserved, Unsent
      <3> QED  BY <2>1, <3>1, <3>4, <3>5
    <2>3. CASE <<j, c>> # <<wjob[w], d>>
      <3>1. call[j][c].at \in InFlight
        BY <1>1, <2>1, <2>3
      <3>2. Unserved(j) /\ \A v \in Workers : HeldBy(v, j) => await[v] = c
        BY <3>1 DEF FlightInv
      <3>3. CASE j = wjob[w]
        <4>1. s = "idle" /\ d = NoCall
          BY <2>1, <3>1, <3>3 DEF MayGo, NoneAsked
        <4>2. \A v \in Workers : ~HeldBy(v, j)'
          BY <2>1, <3>3, <4>1, MediaJobAssumption DEF IInv, SingleDelivery, HeldBy
        <4> QED  BY <2>1, <3>2, <4>1, <4>2 DEF Unserved, Unsent
      <3>4. CASE j # wjob[w]
        BY <2>1, <3>2, <3>4, MediaJobAssumption DEF Unserved, Unsent, HeldBy
      <3> QED  BY <3>3, <3>4
    <2> QED  BY <2>2, <2>3
  <1> QED  BY <1>2, <1>3, <1>4, StepExchange DEF Exchange

(* Only a report that overtakes the verdict could lower the progress.       *)
LEMMA FullStep ==
    ASSUME IInv, FlightInv, CompletedIsFull, Next  PROVE CompletedIsFull'
  <1> USE JobFacts
  <1> SUFFICES ASSUME NEW j \in Once', row'[j].status = "completed"
               PROVE  row'[j].progress = 100
    BY DEF CompletedIsFull
  <1>1. j \in Jobs /\ j \in Payloads
    BY DEF Once
  <1>2. j \in Once
    BY <1>1, ListStep
  <1>3. Completed(j) \/ StatusKept(j)
    BY <1>1, RowStep DEF RowMoves, Inserted, Started, Failed, Removed
  <1>4. CASE Completed(j)
    BY <1>4 DEF Completed
  <1>5. CASE StatusKept(j)
    <2>1. row[j].status = "completed" /\ ~Unsent(j, Done)
      BY <1>2, <1>5 DEF StatusKept, IInv, ServedInv
    <2>2. ASSUME NEW m \in PayloadsOf(j), NEW p \in Stages, WriteProgress(m, p)  PROVE FALSE
      <3>1. call[m][Report(p)].at = "loaded" /\ Report(p) \in Calls /\ m \in Payloads /\ JobOf(m) = j
        BY <2>2, CallFacts DEF WriteProgress, PayloadsOf
      <3>2. Unserved(m) /\ ~Unsent(m, Report(p))
        BY <3>1, CallFacts DEF FlightInv, InFlight, Unsent
      <3>3. m = j
        BY <1>2, <3>1, <3>2, PushedFacts, OwnPayload
      <3> QED  BY <2>1, <3>2, <3>3 DEF Unserved
    <2> QED  BY <1>2, <1>5, <2>1, <2>2 DEF StatusKept, CompletedIsFull
  <1> QED  BY <1>3, <1>4, <1>5

(* What holds besides, when no callback outlives its client.                *)
LEMMA PatientSteps ==
    ASSUME Patient
    PROVE  /\ Init => IInv /\ PatientInv
           /\ IInv /\ PatientInv /\ [Next]_vars => (IInv /\ PatientInv)'
  <1>1. ASSUME Init  PROVE PatientInv
    BY <1>1, CallFacts, JobFacts
       DEF Init, PatientInv, QuietInv, FlightInv, CompletedIsFull, Unsent, InFlight, Absent
  <1>2. ASSUME IInv, PatientInv, Next  PROVE PatientInv'
    <2>1. Moves
      BY <1>2, StepExchange DEF PatientInv, Exchange, Advances, Moves
    <2> QED  BY <1>2, <2>1, QuietStep, FlightStep, FullStep DEF PatientInv
  <1>3. ASSUME PatientInv, UNCHANGED vars  PROVE PatientInv'
    <2>1. Once' = Once
      BY <1>3, OnceStays DEF vars, deliveryVars
    <2>2. CompletedIsFull'
      BY <1>3, <2>1 DEF vars, dbVars, PatientInv, CompletedIsFull
    <2>3. QuietInv' /\ FlightInv'
      BY <1>3 DEF vars, workerVars, PatientInv, QuietInv, FlightInv, Unsent, Unserved,
                  Queued, HeldBy
    <2> QED  BY <2>2, <2>3 DEF PatientInv
  <1> QED  BY <1>1, <1>2, <1>3, InitInv, NextInv

(* A completed job shows progress 100, unless a progress callback outlived  *)
(* the 30 s its worker waits for it, or the job's LPUSH was repeated:       *)
(* nothing else lets updateProgress write after completeJob.                *)
THEOREM CompletedFull == Patient => (Spec => []CompletedIsFull)
  <1> SUFFICES ASSUME Patient PROVE Spec => []CompletedIsFull
    OBVIOUS
  <1>1. Init => IInv /\ PatientInv
    BY PatientSteps
  <1>2. IInv /\ PatientInv /\ [Next]_vars => (IInv /\ PatientInv)'
    BY PatientSteps
  <1>3. PatientInv => CompletedIsFull
    BY DEF PatientInv
  <1> QED  BY <1>1, <1>2, <1>3, PTL DEF Spec

----------------------------------------------------------------------------
(* No verdict is taken back, as long as the only faults are refused calls,  *)
(* broken uploads and lost workers.                                         *)

(* Then no LPUSH is repeated either: every job has one payload.             *)
LEMMA SinglePayloads ==
    ASSUME OnlyRefusals
    PROVE  /\ Payloads = Jobs /\ \A j \in Jobs : JobOf(j) = j /\ PayloadsOf(j) = {j}
           /\ IInv => Once = Jobs /\ repeated = {}
  <1>1. Payloads = Jobs /\ \A j \in Jobs : JobOf(j) = j
    BY DEF OnlyRefusals, Payloads, JobOf
  <1>2. \A j \in Jobs : PayloadsOf(j) = {j}
    BY <1>1 DEF PayloadsOf
  <1>3. IInv => Once = Jobs /\ repeated = {}
    BY DEF IInv, TypeOK, OnlyRefusals, Once, Resent
  <1> QED  BY <1>1, <1>2, <1>3

(* A row is missing before its upload inserts it, or after its deletion.    *)
LEMMA NewStep ==
    ASSUME IInv, NewInv, OnlyRefusals, Next  PROVE NewInv'
  <1> SUFFICES ASSUME NEW j \in Jobs
               PROVE  /\ creating'[j] = "new" => ~Exists(j)'
                      /\ ~Exists(j)' => creating'[j] = "new" \/ j \in deleteRequested'
    BY DEF NewInv
  <1>1. /\ creating'[j] = "new" => creating[j] = "new"
        /\ creating[j] = "new" => creating'[j] = "new" \/ InsertRow(j)
        /\ deleteRequested \subseteq deleteRequested'
    BY UploadStep
  <1>2. /\ creating[j] = "new" => ~Exists(j)
        /\ ~Exists(j) => creating[j] = "new" \/ j \in deleteRequested
    BY DEF NewInv
  <1>3. creating \in [Jobs -> {"new", "inserted", "gotInput", "gotAll",
                               "keyed", "enqueued", "aborted"}]
    BY DEF IInv, TypeOK
  <1>4. InsertRow(j) \/ SaveKeys(j) => creating'[j] # "new"
    BY <1>3 DEF InsertRow, SaveKeys
  <1>5. CASE StatusKept(j)
    <2>1. InsertRow(j) => Exists(j)'
      BY PendingFacts DEF InsertRow, IInv, TypeOK, Exists
    <2> QED  BY <1>1, <1>2, <1>5, <2>1 DEF StatusKept, Exists
  <1>6. CASE Inserted(j)
    BY <1>4, <1>6 DEF Inserted, Exists
  <1>7. CASE Started(j) \/ Completed(j) \/ Failed(j)
    BY <1>1, <1>2, <1>7 DEF Started, Completed, Failed, Exists
  <1>8. CASE Removed(j)
    <2>1. j \in deleteRequested
      BY <1>8, SinglePayloads DEF Removed, RemoveRow, IInv, RetiredInv
    <2> QED  BY <1>1, <1>8, <2>1 DEF Removed, Exists
  <1> QED  BY <1>5, <1>6, <1>7, <1>8, RowStep DEF RowMoves

(* A worker gets past its first callback only when that was answered, and   *)
(* the job is pending no longer.                                            *)
LEMMA MarkedStep ==
    ASSUME IInv, QuietInv, FlightInv, MarkedInv, OnlyRefusals, Patient, Next
    PROVE  MarkedInv'
  <1> USE CallFacts, SinglePayloads
  <1> SUFFICES ASSUME NEW j \in Jobs
               PROVE  /\ Marked(j)' => row'[j].status # "pending"
                      /\ ~Unsent(j, Done)' => Marked(j)'
                      /\ \A w \in Workers : HeldBy(w, j)' /\ wpc'[w] \notin {"marking", "failing"}
                            => Marked(j)'
    BY DEF MarkedInv
  <1>1. /\ Marked(j) => row[j].status # "pending"
        /\ ~Unsent(j, Done) => Marked(j)
        /\ \A w \in Workers : HeldBy(w, j) /\ wpc[w] \notin {"marking", "failing"} => Marked(j)
    BY DEF MarkedInv
  <1>2. Inserted(j) => ~Marked(j)
    <2>1. Inserted(j) => creating[j] # "enqueued"
      BY DEF Inserted, InsertRow, SaveKeys
    <2> QED  BY <2>1, NotEnqueued DEF Unsent, Marked
  <1>3. row'[j].status = "pending" => row[j].status = "pending" \/ Inserted(j)
    BY RowStep DEF RowMoves, StatusKept, Started, Completed, Failed, Removed
  <1>4. CASE HandlersGoOn
    <2>1. Marked(j) => Marked(j)'
      BY <1>4 DEF HandlersGoOn, Marked, InFlight
    <2>2. ~Unsent(j, Done)' => ~Unsent(j, Done)
      BY <1>4 DEF HandlersGoOn, Unsent, InFlight
    <2>3. Marked(j)' => Marked(j) \/ MarkProcessing(j)
      BY <1>4 DEF HandlersGoOn, Marked
    <2>4. MarkProcessing(j) => row'[j].status # "pending"
      <3>1. MarkProcessing(j) => UpdateRow(j, [row[j] EXCEPT !.status = "processing", !.progress = 10])
        BY DEF MarkProcessing
      <3>2. row \in [Jobs -> Row] /\ row[j] \in Row
        BY DEF IInv, TypeOK
      <3>3. [row[j] EXCEPT !.status = "processing", !.progress = 10].status = "processing"
        BY <3>2 DEF Row
      <3> HIDE <3>3
      <3> QED  BY <3>1, <3>2, <3>3 DEF UpdateRow, Exists
    <2>5. \A w \in Workers : HeldBy(w, j)' /\ wpc'[w] \notin {"marking", "failing"}
            => HeldBy(w, j) /\ wpc[w] \notin {"marking", "failing"}
      BY <1>4 DEF HandlersGoOn, HeldBy, workerVars
    <2> QED  BY <1>1, <1>2, <1>3, <2>1, <2>2, <2>3, <2>4, <2>5
  <1>5. ASSUME NEW w \in Workers, NEW i \in Jobs, Takes(w, i)
        PROVE  /\ Marked(j) => Marked(j)'
               /\ Marked(j)' => Marked(j)
               /\ ~Unsent(j, Done)' => ~Unsent(j, Done)
               /\ \A v \in Workers : HeldBy(v, j)' /\ wpc'[v] \notin {"marking", "failing"}
                     => HeldBy(v, j) /\ wpc[v] \notin {"marking", "failing"}
    <2>1. call[i][Mark].at = "unsent"
      BY <1>5 DEF Takes, QuietInv, Unsent
    <2>2. call'[i][Mark].at = "sent"
      BY <1>5 DEF Takes
    <2>3. \A k \in Payloads, d \in Calls : <<k, d>> # <<i, Mark>> => call'[k][d] = call[k][d]
      BY <1>5 DEF Takes
    <2>4. Marked(j)' <=> Marked(j)
      BY <2>1, <2>2, <2>3 DEF Marked
    <2>5. Unsent(j, Done)' <=> Unsent(j, Done)
      BY <2>3 DEF Unsent
    <2> QED  BY <1>5, <2>4, <2>5 DEF Takes, HeldBy
  <1>6. ASSUME NEW w \in Workers, NEW s \in WorkSteps, NEW c \in Calls \cup {NoCall},
               Advances(w, s, c)
        PROVE  /\ Marked(j)' <=> Marked(j)
               /\ ~Unsent(j, Done)' => Marked(j)
               /\ \A v \in Workers : HeldBy(v, j)' /\ wpc'[v] \notin {"marking", "failing"}
                     => Marked(j)
    <2>1. /\ wjob[w] \in Payloads /\ MayGo(w, s, c)
          /\ wpc'[w] = s
          /\ wjob'[w] = IF s = "idle" THEN NoJob ELSE wjob[w]
          /\ \A v \in Workers : v # w => wpc'[v] = wpc[v] /\ wjob'[v] = wjob[v]
          /\ \A i \in Payloads, d \in Calls : <<i, d>> # <<wjob[w], c>> => call'[i][d] = call[i][d]
      BY <1>6, GotoFacts DEF IInv, Advances, WorkSteps
    <2>2. c # Mark
      BY <2>1 DEF MayGo
    <2>3. call'[j][Mark] = call[j][Mark]
      BY <2>1, <2>2
    <2>4. Marked(j)' <=> Marked(j)
      BY <2>3 DEF Marked
    <2>5. s \notin {"idle", "failing"} => Marked(wjob[w])
      BY <2>1 DEF MayGo, MarkedInv, HeldBy, WorkSteps
    <2>6. ASSUME ~Unsent(j, Done)'  PROVE Marked(j)
      <3>1. CASE j = wjob[w] /\ c = Done
        <4>1. s = "completing"
          BY <2>1, <3>1 DEF MayGo
        <4> QED  BY <2>5, <3>1, <4>1
      <3>2. CASE j # wjob[w] \/ c # Done
        <4>1. call'[j][Done] = call[j][Done]
          BY <2>1, <3>2
        <4> QED  BY <1>1, <2>6, <4>1 DEF Unsent
      <3> QED  BY <3>1, <3>2
    <2>7. ASSUME NEW v \in Workers, HeldBy(v, j)', wpc'[v] \notin {"marking", "failing"}
          PROVE  Marked(j)
      <3>1. CASE v = w
        BY <2>1, <2>5, <2>7, <3>1, MediaJobAssumption DEF HeldBy
      <3>2. CASE v # w
        BY <1>1, <2>1, <2>7, <3>2 DEF HeldBy
      <3> QED  BY <3>1, <3>2
    <2> QED  BY <2>4, <2>6, <2>7
  <1>7. CASE \E w \in Workers, i \in Jobs : Takes(w, i)
    BY <1>1, <1>2, <1>3, <1>5, <1>7
  <1>8. CASE \E w \in Workers, s \in WorkSteps, c \in Calls \cup {NoCall} : Advances(w, s, c)
    BY <1>1, <1>2, <1>3, <1>6, <1>8
  <1> QED  BY <1>4, <1>7, <1>8, StepExchange DEF Exchange

(* A decided job stays decided, and at most one verdict is reached: failure *)
(* is reported only when completion was not, or was refused.                *)
LEMMA VerdictStep ==
    ASSUME IInv, FlightInv, QuietInv, VerdictInv, OnlyRefusals, Patient, Next
    PROVE  VerdictInv'
  <1> USE CallFacts, SinglePayloads
  <1> SUFFICES ASSUME NEW j \in Jobs
               PROVE  /\ ~Unsent(j, Fail)' => call'[j][Done].at \in {"unsent", "error"}
                      /\ row'[j].status = "completed" => call'[j][Done].at \in Decided
                      /\ row'[j].status = "failed" => call'[j][Fail].at \in Decided
                      /\ row'[j].completedAt # "null" => row'[j].status \in Terminal
    BY DEF VerdictInv
  <1>1. /\ ~Unsent(j, Fail) => call[j][Done].at \in {"unsent", "error"}
        /\ row[j].status = "completed" => call[j][Done].at \in Decided
        /\ row[j].status = "failed" => call[j][Fail].at \in Decided
        /\ row[j].completedAt # "null" => row[j].status \in Terminal
    BY DEF VerdictInv
  <1>2. \A c \in {Done, Fail} : call[j][c].at \in Decided => call'[j][c].at \in Decided
    <2>1. CASE HandlersGoOn
      BY <2>1 DEF HandlersGoOn
    <2>2. ASSUME NEW w \in Workers, NEW i \in Jobs, Takes(w, i), NEW c \in {Done, Fail}
          PROVE  call'[j][c] = call[j][c]
      BY <2>2 DEF Takes
    <2>3. ASSUME NEW w \in Workers, NEW s \in WorkSteps, NEW d \in Calls \cup {NoCall},
                 Advances(w, s, d), NEW c \in {Done, Fail}, call[j][c].at \in Decided
          PROVE  call'[j][c] = call[j][c]
      <3>1. /\ wjob[w] \in Payloads /\ MayGo(w, s, d)
            /\ \A i \in Jobs, e \in Calls : <<i, e>> # <<wjob[w], d>> => call'[i][e] = call[i][e]
        BY <2>3, GotoFacts DEF IInv, Advances, WorkSteps
      <3>2. <<j, c>> # <<wjob[w], d>>
        BY <2>3, <3>1 DEF MayGo, Unsent, Decided
      <3> QED  BY <3>1, <3>2
    <2> QED  BY <2>1, <2>2, <2>3, StepExchange DEF Exchange
  <1>3. ~Unsent(j, Fail)' => call'[j][Done].at \in {"unsent", "error"}
    <2>1. CASE HandlersGoOn
      BY <1>1, <2>1 DEF HandlersGoOn, Unsent, InFlight
    <2>2. ASSUME NEW w \in Workers, NEW i \in Jobs, Takes(w, i)
          PROVE  call'[j][Done] = call[j][Done] /\ call'[j][Fail] = call[j][Fail]
      BY <2>2 DEF Takes
    <2>3. ASSUME NEW w \in Workers, NEW s \in WorkSteps, NEW d \in Calls \cup {NoCall},
                 Advances(w, s, d), ~Unsent(j, Fail)'
          PROVE  call'[j][Done].at \in {"unsent", "error"}
      <3>1. /\ wjob[w] \in Payloads /\ MayGo(w, s, d)
            /\ \A i \in Jobs, e \in Calls : <<i, e>> # <<wjob[w], d>> => call'[i][e] = call[i][e]
        BY <2>3, GotoFacts DEF IInv, Advances, WorkSteps
      <3>2. CASE j = wjob[w] /\ d = Done
        <4>1. wpc[w] = "written"
          BY <3>1, <3>2 DEF MayGo
        <4>2. Unsent(j, Fail)
          BY <3>1, <3>2, <4>1 DEF IInv, HoldInv, HeldBy
        <4>3. call'[j][Fail] = call[j][Fail]
          BY <3>1, <3>2
        <4> QED  BY <2>3, <4>2, <4>3 DEF Unsent
      <3>3. CASE j = wjob[w] /\ d = Fail
        <4>1. call[j][Done].at \in {"unsent", "error"}
          BY <3>1, <3>3 DEF MayGo
        <4>2. call'[j][Done] = call[j][Done]
          BY <3>1, <3>3
        <4> QED  BY <4>1, <4>2
      <3>4. CASE j # wjob[w] \/ d \notin {Done, Fail}
        <4>1. call'[j][Done] = call[j][Done] /\ call'[j][Fail] = call[j][Fail]
          BY <3>1, <3>4
        <4> QED  BY <1>1, <2>3, <4>1 DEF Unsent
      <3> QED  BY <3>2, <3>3, <3>4
    <2>4. CASE \E w \in Workers, i \in Jobs : Takes(w, i)
      BY <1>1, <2>2, <2>4 DEF Unsent
    <2> QED  BY <2>1, <2>3, <2>4, StepExchange DEF Exchange
  <1>4. ASSUME NEW c \in {Done, Fail}, UpdateCompleted(j, c)  PROVE call'[j][c].at \in Decided
    <2>1. call'[j][c].at = "updated"
      BY <1>4, AnswerFacts DEF UpdateCompleted, IInv, TypeOK, CallStates, Phases, InFlight
    <2> QED  BY <2>1 DEF Decided
  <1>5. row'[j].status = "completed" => call'[j][Done].at \in Decided
    BY <1>1, <1>2, <1>4, RowStep
       DEF RowMoves, StatusKept, Inserted, Started, Completed, Failed, Removed
  <1>6. row'[j].status = "failed" => call'[j][Fail].at \in Decided
    BY <1>1, <1>2, <1>4, RowStep
       DEF RowMoves, StatusKept, Inserted, Started, Completed, Failed, Removed
  <1>7. row'[j].completedAt # "null" => row'[j].status \in Terminal
    <2>1. CASE StatusKept(j)
      BY <1>1, <2>1 DEF StatusKept
    <2>2. CASE Started(j)
      <3>1. Unserved(j)
        BY <2>2 DEF Started, MarkProcessing, FlightInv, InFlight
      <3> QED  BY <2>2, <3>1 DEF Started, IInv, ServedInv
    <2>3. CASE Inserted(j) \/ Completed(j) \/ Failed(j) \/ Removed(j)
      BY <2>3 DEF Inserted, Completed, Failed, Removed, Terminal
    <2> QED  BY <2>1, <2>2, <2>3, RowStep DEF RowMoves
  <1> QED  BY <1>3, <1>5, <1>6, <1>7

(* The invariant of a job whose verdict is final.                           *)
LEMMA FinalSteps ==
    ASSUME OnlyRefusals
    PROVE  /\ Init => IInv /\ PatientInv /\ FinalInv
           /\ IInv /\ PatientInv /\ FinalInv /\ [Next]_vars => (IInv /\ PatientInv /\ FinalInv)'
  <1>1. Patient
    BY DEF OnlyRefusals, Patient
  <1>2. ASSUME Init  PROVE FinalInv
    <2>1. NewInv
      BY <1>2 DEF Init, NewInv, Exists, Absent
    <2>2. MarkedInv
      BY <1>2, CallFacts, JobFacts DEF Init, MarkedInv, Marked, Unsent, HeldBy
    <2>3. VerdictInv
      BY <1>2, CallFacts, JobFacts DEF Init, VerdictInv, Unsent, Absent
    <2> QED  BY <2>1, <2>2, <2>3 DEF FinalInv
  <1>3. ASSUME IInv, PatientInv, FinalInv, Next  PROVE FinalInv'
    BY <1>1, <1>3, NewStep, MarkedStep, VerdictStep DEF FinalInv, PatientInv
  <1>4. ASSUME FinalInv, UNCHANGED vars  PROVE FinalInv'
    BY <1>4 DEF vars, dbVars, workerVars, cleanVars, FinalInv, NewInv, MarkedInv,
                VerdictInv, Marked, Unsent, Exists, HeldBy
  <1> QED  BY <1>1, <1>2, <1>3, <1>4, PatientSteps

----------------------------------------------------------------------------
(* MediaJob implements JobLifecycle: a row is its status, a file its         *)
(* existence, and every step one of the lifecycle's or none.                *)
LifecycleStep == [Lifecycle!Next]_(Lifecycle!lvars)

(* A step that changes none of what the lifecycle shows.                    *)
LEMMA LifecycleStutter ==
    ASSUME \A i \in Jobs : row'[i].status = row[i].status,
           \A i \in Jobs : "output" \in files'[i] <=> "output" \in files[i],
           UNCHANGED deleteRequested
    PROVE  LifecycleStep
  <1>1. [i \in Jobs |-> row'[i].status] = [i \in Jobs |-> row[i].status]
    OBVIOUS
  <1>2. {i \in Jobs : "output" \in files'[i]} = {i \in Jobs : "output" \in files[i]}
    OBVIOUS
  <1> QED  BY <1>1, <1>2 DEF LifecycleStep, Lifecycle!lvars

(* What one row may become.                                                 *)
LEMMA RowLifecycle ==
    ASSUME TypeOK, NEW j \in Jobs, NEW r \in Row, row' = [row EXCEPT ![j] = r],
           UNCHANGED <<files, deleteRequested>>,
           \/ r.status = row[j].status
           \/ row[j].status = "absent" /\ r.status = "pending"
           \/ row[j].status = "pending" /\ r.status = "processing"
           \/ /\ row[j].status = "processing" /\ r.status = "completed"
              /\ "output" \in files[j] \/ j \in deleteRequested
           \/ row[j].status \in {"pending", "processing"} /\ r.status = "failed"
           \/ j \in deleteRequested /\ r.status = "absent"
    PROVE  LifecycleStep
  <1> DEFINE status == [i \in Jobs |-> row[i].status]
             artefact == {i \in Jobs : "output" \in files[i]}
  <1>1. \A i \in Jobs : row'[i] = IF i = j THEN r ELSE row[i]
    BY DEF TypeOK
  <1>2. [i \in Jobs |-> row'[i].status] = [status EXCEPT ![j] = r.status]
    <2>1. \A i \in Jobs : row'[i].status = IF i = j THEN r.status ELSE row[i].status
      BY <1>1
    <2> QED  BY <2>1
  <1>3. /\ {i \in Jobs : "output" \in files'[i]} = artefact
        /\ UNCHANGED deleteRequested
    OBVIOUS
  <1>4. status[j] = row[j].status /\ ("output" \in files[j] => j \in artefact)
    OBVIOUS
  <1>5. CASE r.status = row[j].status
    BY <1>1, <1>5, LifecycleStutter
  <1>6. CASE row[j].status = "absent" /\ r.status = "pending"
    <2>1. Lifecycle!Submit(j)
      BY <1>2, <1>3, <1>4, <1>6 DEF Lifecycle!Submit
    <2> QED  BY <2>1 DEF LifecycleStep, Lifecycle!Next
  <1>7. CASE row[j].status = "pending" /\ r.status = "processing"
    <2>1. Lifecycle!Start(j)
      BY <1>2, <1>3, <1>4, <1>7 DEF Lifecycle!Start
    <2> QED  BY <2>1 DEF LifecycleStep, Lifecycle!Next
  <1>8. CASE /\ row[j].status = "processing" /\ r.status = "completed"
             /\ "output" \in files[j] \/ j \in deleteRequested
    <2>1. Lifecycle!Complete(j)
      BY <1>2, <1>3, <1>4, <1>8 DEF Lifecycle!Complete
    <2> QED  BY <2>1 DEF LifecycleStep, Lifecycle!Next
  <1>9. CASE row[j].status \in {"pending", "processing"} /\ r.status = "failed"
    <2>1. Lifecycle!GiveUpOn(j)
      BY <1>2, <1>3, <1>4, <1>9 DEF Lifecycle!GiveUpOn
    <2> QED  BY <2>1 DEF LifecycleStep, Lifecycle!Next
  <1>10. CASE j \in deleteRequested /\ r.status = "absent"
    <2>1. Lifecycle!Forget(j)
      BY <1>2, <1>3, <1>10 DEF Lifecycle!Forget
    <2> QED  BY <2>1 DEF LifecycleStep, Lifecycle!Next
  <1> QED  BY <1>5, <1>6, <1>7, <1>8, <1>9, <1>10

(* What the output of one job may become.                                   *)
LEMMA FilesLifecycle ==
    ASSUME NEW j \in Jobs, \A i \in Jobs : i # j => files'[i] = files[i],
           UNCHANGED <<row, deleteRequested>>,
           \/ "output" \in files'[j] <=> "output" \in files[j]
           \/ /\ "output" \in files'[j]
              /\ row[j].status \in {"pending", "processing"} \/ j \in deleteRequested
           \/ /\ "output" \notin files'[j]
              /\ row[j].status \in Terminal \/ j \in deleteRequested
    PROVE  LifecycleStep
  <1> DEFINE status == [i \in Jobs |-> row[i].status]
             artefact == {i \in Jobs : "output" \in files[i]}
  <1>1. [i \in Jobs |-> row'[i].status] = status /\ status[j] = row[j].status
    OBVIOUS
  <1>2. CASE "output" \in files'[j] <=> "output" \in files[j]
    BY <1>2, LifecycleStutter
  <1>3. CASE /\ "output" \in files'[j]
             /\ row[j].status \in {"pending", "processing"} \/ j \in deleteRequested
    <2>1. {i \in Jobs : "output" \in files'[i]} = artefact \cup {j}
      BY <1>3
    <2>2. Lifecycle!Produce(j)
      BY <1>1, <1>3, <2>1 DEF Lifecycle!Produce
    <2> QED  BY <2>2 DEF LifecycleStep, Lifecycle!Next
  <1>4. CASE /\ "output" \notin files'[j]
             /\ row[j].status \in Terminal \/ j \in deleteRequested
    <2>1. {i \in Jobs : "output" \in files'[i]} = artefact \ {j}
      BY <1>4
    <2>2. Lifecycle!Expire(j)
      BY <1>1, <1>4, <2>1 DEF Lifecycle!Expire, Terminal
    <2> QED  BY <2>2 DEF LifecycleStep, Lifecycle!Next
  <1> QED  BY <1>2, <1>3, <1>4

(* UPDATE with a row of the right status, or without effect.                *)
LEMMA UpdateLifecycle ==
    ASSUME TypeOK, NEW j \in Jobs, NEW r \in Row, UpdateRow(j, r),
           UNCHANGED <<files, deleteRequested>>,
           Exists(j) =>
             \/ r.status = row[j].status
             \/ row[j].status = "pending" /\ r.status = "processing"
             \/ /\ row[j].status = "processing" /\ r.status = "completed"
                /\ "output" \in files[j] \/ j \in deleteRequested
             \/ row[j].status \in {"pending", "processing"} /\ r.status = "failed"
    PROVE  LifecycleStep
  <1>1. CASE Exists(j)
    <2>1. row' = [row EXCEPT ![j] = r]
      BY <1>1 DEF UpdateRow
    <2> QED  BY <1>1, <2>1, RowLifecycle
  <1>2. CASE ~Exists(j)
    <2>1. row' = row
      BY <1>2 DEF UpdateRow
    <2> QED  BY <2>1, LifecycleStutter
  <1> QED  BY <1>1, <1>2

(* A job that nobody reported on yet has no verdict.                        *)
LEMMA UnservedUndecided ==
    ASSUME IInv, FinalInv, NEW j \in Jobs, Unserved(j)
    PROVE  row[j].status \in {"absent", "pending", "processing"}
  <1>1. row[j].status \in {"absent", "pending", "processing", "completed", "failed"}
    BY DEF IInv, TypeOK, Row
  <1>2. row[j].status \notin {"completed", "failed"}
    BY DEF FinalInv, VerdictInv, Unserved, Unsent, Decided
  <1> QED  BY <1>1, <1>2

(* The upload is the lifecycle's Submit.                                    *)
LEMMA CreateLifecycle ==
    ASSUME IInv, FinalInv, NEW j \in Jobs, Create(j) \/ CreateFails(j)  PROVE LifecycleStep
  <1> USE DEF cleanVars
  <1>1. /\ TypeOK /\ row \in [Jobs -> Row] /\ row[j] \in Row
        /\ files \in [Jobs -> SUBSET Files]
    BY DEF IInv, TypeOK
  <1>2. CASE InsertRow(j)
    <2>1. row[j].status = "absent"
      BY <1>2 DEF InsertRow, FinalInv, NewInv, Exists
    <2>2. row' = [row EXCEPT ![j] = Pending] /\ UNCHANGED <<files, deleteRequested>>
      BY <1>2 DEF InsertRow
    <2> QED  BY <1>1, <2>1, <2>2, PendingFacts, RowLifecycle
  <1>3. CASE SaveKeys(j)
    <2> DEFINE old == IF Exists(j) THEN row[j] ELSE Pending
               new == [old EXCEPT !.inputKey = TRUE, !.outputKey = TRUE]
    <2>1. old \in Row /\ (row[j].status = old.status \/ (row[j].status = "absent" /\ old.status = "pending"))
      BY <1>1, PendingFacts DEF Exists
    <2>2. row' = [row EXCEPT ![j] = new] /\ UNCHANGED <<files, deleteRequested>>
      BY <1>3 DEF SaveKeys
    <2> HIDE DEF old
    <2>3. new \in Row /\ new.status = old.status
      BY <2>1 DEF Row
    <2> HIDE DEF new
    <2> QED  BY <1>1, <2>1, <2>2, <2>3, RowLifecycle
  <1>4. CASE SaveInput(j)
    <2>1. /\ \A i \in Jobs : "output" \in files'[i] <=> "output" \in files[i]
          /\ UNCHANGED <<row, deleteRequested>>
      BY <1>1, <1>4 DEF SaveInput
    <2> QED  BY <2>1, LifecycleStutter
  <1>5. CASE SaveAux(j)
    <2>1. /\ \A i \in Jobs : "output" \in files'[i] <=> "output" \in files[i]
          /\ UNCHANGED <<row, deleteRequested>>
      BY <1>1, <1>5 DEF SaveAux
    <2> QED  BY <2>1, LifecycleStutter
  <1>6. CASE Enqueue(j) \/ Resend(j) \/ CreateFails(j)
    <2>1. UNCHANGED <<row, files, deleteRequested>>
      BY <1>6 DEF Enqueue, Resend, CreateFails, dbVars
    <2> QED  BY <2>1, LifecycleStutter
  <1> QED  BY <1>2, <1>3, <1>4, <1>5, <1>6 DEF Create

(* markProcessing is Start, completeJob is Complete or GiveUpOn.            *)
LEMMA HandleLifecycle ==
    ASSUME OnlyRefusals, IInv, PatientInv, FinalInv, NEW j \in Payloads, Handle(j)
    PROVE  LifecycleStep
  <1> USE CallFacts, SinglePayloads DEF cleanVars
  <1>1. /\ TypeOK /\ row \in [Jobs -> Row] /\ row[j] \in Row
        /\ files \in [Jobs -> SUBSET Files]
    BY DEF IInv, TypeOK
  <1>2. CASE MarkProcessing(j)
    <2>1. PICK r : r = [row[j] EXCEPT !.status = "processing", !.progress = 10]
      OBVIOUS
    <2>2. r \in Row /\ r.status = "processing"
      <3>1. PICK p \in 0..100 : p = 10
        OBVIOUS
      <3>2. row[j] \in Row
        BY <1>1
      <3>3. r = [row[j] EXCEPT !.status = "processing", !.progress = p]
        BY <2>1, <3>1
      <3> QED  BY ONLY <3>1, <3>2, <3>3 DEF Row
    <2>3. UpdateRow(j, r) /\ UNCHANGED <<files, deleteRequested>>
      BY <1>2, <2>1 DEF MarkProcessing
    <2>4. row[j].status \in {"absent", "pending", "processing"}
      BY <1>2, UnservedUndecided DEF MarkProcessing, PatientInv, FlightInv, InFlight
    <2> QED  BY <1>1, <2>2, <2>3, <2>4, UpdateLifecycle DEF Exists
  <1>3. ASSUME NEW p \in Stages, LoadForProgress(j, p)  PROVE LifecycleStep
    BY <1>3, LifecycleStutter DEF LoadForProgress, dbVars
  <1>4. ASSUME NEW p \in Stages, WriteProgress(j, p)  PROVE LifecycleStep
    <2>1. PICK r : r = [row[j] EXCEPT !.progress = p]
      OBVIOUS
    <2>2. p \in 0..100
      BY MediaJobAssumption
    <2>3. r \in Row /\ r.status = row[j].status
      BY <1>1, <2>1, <2>2 DEF Row
    <2>5. UpdateRow(j, r) /\ UNCHANGED <<files, deleteRequested>>
      BY <1>4, <2>1 DEF WriteProgress
    <2> QED  BY <1>1, <2>3, <2>5, UpdateLifecycle
  <1>5. CASE UpdateCompleted(j, Done)
    <2>1. /\ call[j][Done].at = "loaded" /\ UpdateRow(j, CompletedRow(j))
          /\ UNCHANGED <<files, deleteRequested>>
      BY <1>5 DEF UpdateCompleted
    <2>2. 100 \in 0..100
      OBVIOUS
    <2>3. CompletedRow(j) \in Row /\ CompletedRow(j).status = "completed"
      BY <1>1, <2>2 DEF CompletedRow, Row
    <2>4. row[j].status \notin {"pending", "completed", "failed"}
      BY <2>1 DEF FinalInv, MarkedInv, VerdictInv, Unsent, Decided
    <2>5. "output" \in files[j] \/ j \in deleteRequested
      BY <2>1 DEF IInv, OutputInv, RetiredInv, Retired, Unsent, InFlight
    <2>6. Exists(j) => row[j].status = "processing"
      BY <1>1, <2>4 DEF Row, Exists
    <2> QED  BY <1>1, <2>1, <2>3, <2>5, <2>6, UpdateLifecycle
  <1>6. CASE UpdateCompleted(j, Fail)
    <2>1. /\ call[j][Fail].at = "loaded" /\ UpdateRow(j, FailedRow(j))
          /\ UNCHANGED <<files, deleteRequested>>
      BY <1>6 DEF UpdateCompleted
    <2>2. call[j][Fail].progress \in 0..100
      BY DEF IInv, TypeOK
    <2>3. FailedRow(j) \in Row /\ FailedRow(j).status = "failed"
      BY <1>1, <2>2 DEF FailedRow, Row
    <2>4. row[j].status \notin {"completed", "failed"}
      BY <2>1 DEF FinalInv, VerdictInv, Unsent, Decided
    <2>5. Exists(j) => row[j].status \in {"pending", "processing"}
      BY <1>1, <2>4 DEF Row, Exists
    <2> QED  BY <1>1, <2>1, <2>3, <2>5, UpdateLifecycle
  <1>7. ASSUME NEW c \in {Done, Fail}, LoadForComplete(j, c)  PROVE LifecycleStep
    BY <1>7, LifecycleStutter DEF LoadForComplete, dbVars
  <1>8. ASSUME NEW c \in {Done, Fail}, DeleteInputArtifact(j, c)  PROVE LifecycleStep
    <2>1. /\ \A i \in Jobs : "output" \in files'[i] <=> "output" \in files[i]
          /\ UNCHANGED <<row, deleteRequested>>
      BY <1>1, <1>8 DEF DeleteInputArtifact, InputArtifact
    <2> QED  BY <2>1, LifecycleStutter
  <1>9. ASSUME NEW c \in {Done, Fail}, ClearInputKey(j, c)  PROVE LifecycleStep
    <2>1. PICK r : r = [row[j] EXCEPT !.inputKey = FALSE]
      OBVIOUS
    <2>3. r \in Row /\ r.status = row[j].status
      BY <1>1, <2>1 DEF Row
    <2>4. (UpdateRow(j, r) \/ row' = row) /\ UNCHANGED <<files, deleteRequested>>
      <3>1. JobOf(j) = j
        OBVIOUS
      <3> QED  BY ONLY <1>9, <2>1, <3>1 DEF ClearInputKey, cleanVars
    <2>5. CASE row' = row
      BY <2>4, <2>5, LifecycleStutter
    <2>6. CASE UpdateRow(j, r)
      BY <1>1, <2>3, <2>4, <2>6, UpdateLifecycle
    <2> QED  BY <2>4, <2>5, <2>6
  <1> QED
    BY <1>2, <1>3, <1>4, <1>5, <1>6, <1>7, <1>8, <1>9 DEF Handle, CompleteJob

(* Only a runner that still runs writes an output, so before any verdict.   *)
LEMMA WorkLifecycle ==
    ASSUME OnlyRefusals, IInv, FinalInv, NEW w \in Workers,
           Work(w) \/ PopLost(w) \/ DropCall(w) \/ GiveUp(w) \/ WorkerCrash(w)
    PROVE  LifecycleStep
  <1> USE SinglePayloads DEF cleanVars, dbVars
  <1>1. files \in [Jobs -> SUBSET Files]
    BY DEF IInv, TypeOK
  <1>2. CASE EnsureParent(w)
    <2>1. wjob[w] \in Payloads
      BY <1>2, AwaitFacts DEF EnsureParent
    <2>2. /\ \A i \in Jobs : "output" \in files'[i] <=> "output" \in files[i]
          /\ UNCHANGED <<row, deleteRequested>>
      BY <1>1, <1>2, <2>1 DEF EnsureParent
    <2> QED  BY <2>2, LifecycleStutter
  <1>3. CASE WriteOutput(w) \/ RunFails(w)
    <2>1. wpc[w] = "running" /\ UNCHANGED <<row, deleteRequested>>
      BY <1>3 DEF WriteOutput, RunFails
    <2>2. PICK j \in Jobs : j = wjob[w]
      BY <2>1, AwaitFacts
    <2>3. creating[j] = "enqueued" /\ Unserved(j)
      BY <2>1, <2>2 DEF IInv, HoldInv, HeldBy, Pushed, Unserved
    <2>4. row[j].status \in {"pending", "processing"} \/ j \in deleteRequested
      BY <2>3, UnservedUndecided DEF FinalInv, NewInv, Exists
    <2>5. \E more \in SUBSET Files : files' = [files EXCEPT ![j] = @ \cup more]
      BY <1>3, <2>2 DEF WriteOutput, RunFails, Files
    <2>6. /\ \A i \in Jobs : i # j => files'[i] = files[i]
          /\ "output" \in files[j] => "output" \in files'[j]
      BY <1>1, <2>5
    <2> QED  BY <2>1, <2>4, <2>6, FilesLifecycle
  <1>4. CASE /\ ~EnsureParent(w) /\ ~WriteOutput(w) /\ ~RunFails(w)
    <2>1. UNCHANGED <<row, files, deleteRequested>>
      BY <1>4 DEF Work, Pop, PopLost, Return, OpenInput, SendReport, FinishRun,
                  DropCall, GiveUp, WorkerCrash
    <2> QED  BY <2>1, LifecycleStutter
  <1> QED  BY <1>2, <1>3, <1>4

(* A deletion is Discard, then Expire, then Forget; the sweep is Expire.    *)
LEMMA CleanLifecycle ==
    ASSUME OnlyRefusals, IInv, FinalInv, (\E j \in Jobs : Remove(j) \/ Age(j)) \/ Purge
    PROVE  LifecycleStep
  <1> USE SinglePayloads
  <1>1. /\ TypeOK /\ row \in [Jobs -> Row] /\ files \in [Jobs -> SUBSET Files]
    BY DEF IInv, TypeOK
  <1>2. ASSUME NEW j \in Jobs, FindForRemoval(j)  PROVE LifecycleStep
    <2>1. Lifecycle!Discard(j)
      BY <1>2 DEF FindForRemoval, Exists, dbVars, Lifecycle!Discard
    <2> QED  BY <2>1 DEF LifecycleStep, Lifecycle!Next
  <1>3. ASSUME NEW j \in Jobs, RemoveJobDirectory(j) \/ PurgeDirectory(j)  PROVE LifecycleStep
    <2>1. files' = [files EXCEPT ![j] = {}] /\ UNCHANGED <<row, deleteRequested>>
      BY <1>3 DEF RemoveJobDirectory, PurgeDirectory
    <2>2. /\ \A i \in Jobs : i # j => files'[i] = files[i]
          /\ "output" \notin files'[j]
      BY <1>1, <2>1
    <2>3. row[j].completedAt = "old" \/ j \in deleteRequested
      BY <1>3 DEF RemoveJobDirectory, PurgeDirectory, IInv, RetiredInv
    <2>4. row[j].status \in Terminal \/ j \in deleteRequested
      BY <2>3 DEF FinalInv, VerdictInv
    <2> QED  BY <2>1, <2>2, <2>4, FilesLifecycle
  <1>4. ASSUME NEW j \in Jobs, RemoveRow(j)  PROVE LifecycleStep
    <2>1. row' = [row EXCEPT ![j] = Absent] /\ UNCHANGED <<files, deleteRequested>>
      BY <1>4 DEF RemoveRow
    <2>2. j \in deleteRequested
      BY <1>4 DEF RemoveRow, IInv, RetiredInv
    <2>3. Absent.status = "absent"
      BY DEF Absent
    <2> QED  BY <1>1, <2>1, <2>2, <2>3, PendingFacts, RowLifecycle
  <1>5. ASSUME NEW j \in Jobs, Age(j)  PROVE LifecycleStep
    <2>1. PICK r : r = [row[j] EXCEPT !.completedAt = "old"]
      OBVIOUS
    <2>2. r \in Row /\ r.status = row[j].status
      BY <1>1, <2>1 DEF Row
    <2>3. row' = [row EXCEPT ![j] = r] /\ UNCHANGED <<files, deleteRequested>>
      BY <1>5, <2>1 DEF Age, cleanVars
    <2> QED  BY <1>1, <2>2, <2>3, RowLifecycle
  <1>6. CASE PurgeFind
    BY <1>6, LifecycleStutter DEF PurgeFind, dbVars
  <1>7. CASE PurgeKeys
    <2>1. purging \in Jobs
      BY <1>7 DEF PurgeKeys, IInv, TypeOK
    <2>2. PICK r : r = [row[purging] EXCEPT !.inputKey = FALSE, !.outputKey = FALSE]
      OBVIOUS
    <2>3. r \in Row /\ r.status = row[purging].status
      <3>1. row[purging] \in Row
        BY <1>1, <2>1
      <3> QED  BY ONLY <2>2, <3>1 DEF Row
    <2>5. UpdateRow(purging, r) /\ UNCHANGED <<files, deleteRequested>>
      BY <1>7, <2>2 DEF PurgeKeys
    <2> QED  BY <1>1, <2>1, <2>3, <2>5, UpdateLifecycle
  <1> QED  BY <1>2, <1>3, <1>4, <1>5, <1>6, <1>7 DEF Remove, Purge

(* Every step of MediaJob is one of JobLifecycle, or changes nothing of it. *)
LEMMA NextLifecycle ==
    ASSUME OnlyRefusals, IInv, PatientInv, FinalInv, [Next]_vars  PROVE LifecycleStep
  <1>1. ASSUME NEW k \in {"disk", "apiCrash"}  PROVE ~Spend(k)
    <2>1. faults \in [FaultKinds -> Nat] /\ k \in FaultKinds
      BY DEF IInv, TypeOK, FaultKinds
    <2>2. faults[k] \in Nat /\ FaultBudget[k] = 0
      BY <2>1 DEF OnlyRefusals
    <2> QED  BY ONLY <2>2 DEF Spend
  <1>2. CASE Fault
    <2>1. ~ApiCrash
      BY <1>1 DEF ApiCrash
    <2>2. /\ \A j \in Jobs : ~RemoveDirectoryFails(j) /\ ~PurgeFails(j)
          /\ \A m \in Payloads, c \in {Done, Fail} : ~UnlinkFails(m, c)
      BY <1>1 DEF RemoveDirectoryFails, PurgeFails, UnlinkFails
    <2> QED  BY <1>2, <2>1, <2>2, WorkLifecycle, CreateLifecycle DEF Fault
  <1>3. CASE UNCHANGED vars
    BY <1>3, LifecycleStutter DEF vars, dbVars, cleanVars
  <1> QED
    BY <1>2, <1>3, CreateLifecycle, HandleLifecycle, WorkLifecycle, CleanLifecycle DEF Next

(* A status only moves forward and an artefact exists before its job is     *)
(* called completed: MediaJob implements JobLifecycle when the only faults  *)
(* are refused callbacks, broken uploads, lost BRPOP replies and lost       *)
(* workers.                                                                 *)
THEOREM RefinesLifecycle == OnlyRefusals => (Spec => ImplementsLifecycle)
  <1> SUFFICES ASSUME OnlyRefusals PROVE Spec => ImplementsLifecycle
    OBVIOUS
  <1>1. Init => IInv /\ PatientInv /\ FinalInv
    BY FinalSteps
  <1>2. IInv /\ PatientInv /\ FinalInv /\ [Next]_vars => (IInv /\ PatientInv /\ FinalInv)'
    BY FinalSteps
  <1>3. Init => Lifecycle!Init
    BY DEF Init, Lifecycle!Init, Absent
  <1>4. IInv /\ PatientInv /\ FinalInv /\ [Next]_vars => [Lifecycle!Next]_(Lifecycle!lvars)
    BY NextLifecycle DEF LifecycleStep
  <1> QED  BY <1>1, <1>2, <1>3, <1>4, PTL DEF Spec, ImplementsLifecycle, Lifecycle!Spec

----------------------------------------------------------------------------
(* No job is forgotten: what a step may do to a job's calls and its worker  *)
(* when callbacks outlive their clients and workers die, too.               *)

Lost(k) == faults[k] > 0

MayLetGo(w, s, c) ==
    \/ /\ s = "idle" /\ c = NoCall
       /\ wpc[w] = "failing" \/ call[wjob[w]][Done].at = "ok" \/ wjob[w] \in lost'
    \/ /\ s = "failing" /\ c = Fail
       /\ call[wjob[w]][Mark].at \notin InFlight \/ Lost("late")'
    \/ s = "completing" /\ c = Done /\ wpc[w] = "written"
    \/ s = "starting" /\ c = NoCall /\ call[wjob[w]][Mark].at = "ok"
    \/ /\ s \in {"opening", "running", "written"} /\ c \in Reports \cup {NoCall}
       /\ wpc[w] \notin {"marking", "failing"}

Proceeds(w, s, c) ==
    /\ wjob[w] \in Payloads /\ s \in WorkSteps /\ c \in Calls \cup {NoCall}
    /\ Goto(w, s, c) /\ MayLetGo(w, s, c)

(* A fault, once it happened, is not taken back.                            *)
LEMMA FaultsStay ==
    ASSUME IInv, Next, NEW k \in FaultKinds, Lost(k)  PROVE Lost(k)'
  <1>1. faults \in [FaultKinds -> Nat]
    BY DEF IInv, TypeOK
  <1>2. CASE UNCHANGED faults
    BY <1>2 DEF Lost
  <1>3. ASSUME NEW f \in FaultKinds, Spend(f)  PROVE Lost(k)'
    <2>1. faults'[k] = IF k = f THEN faults[k] + 1 ELSE faults[k]
      BY <1>1, <1>3 DEF Spend
    <2>2. faults[k] \in Nat
      BY <1>1
    <2> QED  BY <2>1, <2>2 DEF Lost
  <1>4. /\ \A j \in Jobs : Create(j) \/ Remove(j) \/ Age(j) => UNCHANGED faults
        /\ \A m \in Payloads : Handle(m) => UNCHANGED faults
    <2>1. ASSUME NEW j \in Jobs, Create(j)  PROVE UNCHANGED faults
      BY <2>1 DEF Create, InsertRow, SaveInput, SaveAux, SaveKeys, Enqueue, Resend
    <2>2. ASSUME NEW m \in Payloads, Handle(m)  PROVE UNCHANGED faults
      BY <2>2 DEF Handle, MarkProcessing, LoadForProgress, WriteProgress, CompleteJob,
                  LoadForComplete, UpdateCompleted, DeleteInputArtifact, ClearInputKey
    <2>3. ASSUME NEW j \in Jobs, Remove(j) \/ Age(j)  PROVE UNCHANGED faults
      BY <2>3 DEF Remove, FindForRemoval, RemoveJobDirectory, RemoveRow, Age
    <2> QED  BY <2>1, <2>2, <2>3
  <1>5. ASSUME NEW w \in Workers, Work(w)  PROVE UNCHANGED faults
    BY <1>5 DEF Work, Pop, Return, EnsureParent, OpenInput, SendReport, WriteOutput,
                RunFails, FinishRun
  <1>6. CASE Purge
    BY <1>2, <1>6 DEF Purge, PurgeFind, PurgeDirectory, PurgeKeys
  <1>7. CASE Fault
    <2>1. Fault => \E f \in FaultKinds : Spend(f)
      BY DEF Fault, ApiCrash, PopLost, DropCall, GiveUp, WorkerCrash, CreateFails,
             RemoveDirectoryFails, PurgeFails, UnlinkFails, FaultKinds
    <2> QED  BY <1>3, <1>7, <2>1
  <1> QED  BY <1>2, <1>4, <1>5, <1>6, <1>7 DEF Next

(* A fault that is spent has happened.                                      *)
LEMMA SpentIsLost ==
    ASSUME IInv, NEW k \in FaultKinds, Spend(k)  PROVE Lost(k)'
  <1>1. faults \in [FaultKinds -> Nat]
    BY DEF IInv, TypeOK
  <1>2. faults'[k] = faults[k] + 1 /\ faults[k] \in Nat
    BY <1>1 DEF Spend
  <1> QED  BY <1>2 DEF Lost

(* A worker's steps besides Pop, patient or not: it goes on, or it lets its *)
(* job go for a reason.                                                     *)
LEMMA ProceedExchange ==
    ASSUME IInv, ReportedInv, NEW w \in Workers,
           \/ Return(w) \/ EnsureParent(w) \/ OpenInput(w) \/ SendReport(w)
           \/ WriteOutput(w) \/ RunFails(w) \/ FinishRun(w)
           \/ GiveUp(w) \/ WorkerCrash(w)
    PROVE  \E s \in WorkSteps, c \in Calls \cup {NoCall} : Proceeds(w, s, c)
  <1> DEFINE j == wjob[w]
  <1> USE CallFacts
  <1>1. wpc[w] # "idle" \/ await[w] # NoCall
    BY DEF Return, EnsureParent, OpenInput, SendReport, WriteOutput, RunFails, FinishRun,
           GiveUp, WorkerCrash
  <1>2. /\ j \in Payloads /\ wpc[w] \in WorkSteps
        /\ await[w] \in Calls \cup {NoCall}
        /\ await[w] \in Reports => wpc[w] \in {"running", "written"}
        /\ await[w] = Mark <=> wpc[w] = "marking"
        /\ await[w] = Done <=> wpc[w] = "completing"
        /\ await[w] = Fail <=> wpc[w] = "failing"
    BY <1>1, AwaitFacts DEF IInv, WorkerInv, InStep
  <1>3. call[j][Mark].at \in InFlight => wpc[w] \in {"marking", "failing"}
    BY <1>2 DEF ReportedInv, HeldBy
  <1>4. NoCall \in Calls \cup {NoCall} /\ Fail \in Calls \cup {NoCall} /\ Done \in Calls \cup {NoCall}
    OBVIOUS
  <1>5. ASSUME await[w] \in Reports, Goto(w, wpc[w], NoCall)
        PROVE  \E s \in WorkSteps, c \in Calls \cup {NoCall} : Proceeds(w, s, c)
    <2>1. wpc[w] \in {"running", "written"}
      BY <1>2, <1>5
    <2>2. MayLetGo(w, wpc[w], NoCall)
      BY <2>1 DEF MayLetGo
    <2>3. Proceeds(w, wpc[w], NoCall)
      BY <1>2, <1>4, <1>5, <2>2 DEF Proceeds
    <2> QED  BY <1>2, <1>4, <2>3
  <1>6. ASSUME Goto(w, "failing", Fail), call[j][Mark].at \notin InFlight \/ Lost("late")'
        PROVE  \E s \in WorkSteps, c \in Calls \cup {NoCall} : Proceeds(w, s, c)
    <2>1. MayLetGo(w, "failing", Fail) /\ "failing" \in WorkSteps
      BY <1>6 DEF MayLetGo, WorkSteps
    <2>2. Proceeds(w, "failing", Fail)
      BY <1>2, <1>4, <1>6, <2>1 DEF Proceeds
    <2> QED  BY <1>4, <2>1, <2>2
  <1>7. ASSUME Goto(w, "idle", NoCall),
               wpc[w] = "failing" \/ call[j][Done].at = "ok" \/ j \in lost'
        PROVE  \E s \in WorkSteps, c \in Calls \cup {NoCall} : Proceeds(w, s, c)
    <2>1. MayLetGo(w, "idle", NoCall) /\ "idle" \in WorkSteps
      BY <1>7 DEF MayLetGo, WorkSteps
    <2>2. Proceeds(w, "idle", NoCall)
      BY <1>2, <1>4, <1>7, <2>1 DEF Proceeds
    <2> QED  BY <1>4, <2>1, <2>2
  <1>8. ASSUME NEW s \in {"opening", "running", "written"}, NEW c \in Reports \cup {NoCall},
               Goto(w, s, c), wpc[w] \notin {"marking", "failing"}
        PROVE  \E t \in WorkSteps, d \in Calls \cup {NoCall} : Proceeds(w, t, d)
    <2>1. MayLetGo(w, s, c) /\ s \in WorkSteps /\ c \in Calls \cup {NoCall}
      BY <1>8 DEF MayLetGo, WorkSteps
    <2>2. Proceeds(w, s, c)
      BY <1>2, <1>8, <2>1 DEF Proceeds
    <2> QED  BY <2>1, <2>2
  <1>9. CASE Return(w)
    <2>1. /\ call[j][await[w]].at \in Answered /\ await[w] # NoCall
          /\ Resume(w, call[j][await[w]].at = "ok")
      BY <1>9 DEF Return
    <2>2. CASE await[w] \in Reports /\ Goto(w, wpc[w], NoCall)
      BY <1>5, <2>2
    <2>3. CASE await[w] = Mark /\ call[j][Mark].at = "ok" /\ Goto(w, "starting", NoCall)
      <3>1. MayLetGo(w, "starting", NoCall) /\ "starting" \in WorkSteps
        BY <2>3 DEF MayLetGo, WorkSteps
      <3>2. Proceeds(w, "starting", NoCall)
        BY <1>2, <1>4, <2>3, <3>1 DEF Proceeds
      <3> QED  BY <1>4, <3>1, <3>2
    <2>4. CASE await[w] \in {Mark, Done} /\ Goto(w, "failing", Fail)
      <3>1. call[j][Mark].at \notin InFlight
        BY <1>2, <1>3, <2>1, <2>4 DEF InFlight, Answered
      <3> QED  BY <1>6, <2>4, <3>1
    <2>5. CASE (await[w] = Fail \/ (await[w] = Done /\ call[j][Done].at = "ok")) /\ Goto(w, "idle", NoCall)
      BY <1>2, <1>7, <2>5
    <2> QED  BY <2>1, <2>2, <2>3, <2>4, <2>5 DEF Resume
  <1>10. CASE GiveUp(w)
    <2>1. Resume(w, FALSE) /\ Lost("late")'
      BY <1>10, SpentIsLost DEF GiveUp, FaultKinds
    <2>2. CASE await[w] \in Reports /\ Goto(w, wpc[w], NoCall)
      BY <1>5, <2>2
    <2>3. CASE Goto(w, "failing", Fail)
      BY <1>6, <2>1, <2>3
    <2>4. CASE await[w] = Fail /\ Goto(w, "idle", NoCall)
      BY <1>2, <1>7, <2>4
    <2> QED  BY <2>1, <2>2, <2>3, <2>4 DEF Resume
  <1>11. CASE WorkerCrash(w)
    <2>1. Goto(w, "idle", NoCall) /\ j \in lost'
      BY <1>11 DEF WorkerCrash
    <2> QED  BY <1>7, <2>1
  <1>12. CASE EnsureParent(w)
    BY <1>8, <1>12 DEF EnsureParent
  <1>13. CASE OpenInput(w)
    <2>1. wpc[w] = "opening" /\ (Goto(w, "running", NoCall) \/ Goto(w, "failing", Fail))
      BY <1>13 DEF OpenInput
    <2> QED  BY <1>3, <1>6, <1>8, <2>1
  <1>14. CASE SendReport(w)
    <2>1. PICK p \in Stages : wpc[w] \in {"running", "written"} /\ Goto(w, wpc[w], Report(p))
      BY <1>14 DEF SendReport
    <2> QED  BY <1>8, <2>1
  <1>15. CASE WriteOutput(w)
    BY <1>8, <1>15 DEF WriteOutput
  <1>16. CASE RunFails(w)
    <2>1. wpc[w] = "running" /\ Goto(w, "failing", Fail)
      BY <1>16 DEF RunFails
    <2> QED  BY <1>3, <1>6, <2>1
  <1>17. CASE FinishRun(w)
    <2>1. MayLetGo(w, "completing", Done) /\ "completing" \in WorkSteps /\ Goto(w, "completing", Done)
      BY <1>17 DEF FinishRun, MayLetGo, WorkSteps
    <2>2. Proceeds(w, "completing", Done)
      BY <1>2, <1>4, <2>1 DEF Proceeds
    <2> QED  BY <1>4, <2>1, <2>2
  <1> QED  BY <1>9, <1>10, <1>11, <1>12, <1>13, <1>14, <1>15, <1>16, <1>17

Hands ==
    \/ HandlersGoOn
    \/ \E w \in Workers, m \in Payloads : Takes(w, m)
    \/ \E w \in Workers, s \in WorkSteps, c \in Calls \cup {NoCall} : Proceeds(w, s, c)

(* What every step does to the callbacks and the workers, under any faults. *)
LEMMA StepHands ==
    ASSUME IInv, ReportedInv, Next  PROVE Hands
  <1>1. ASSUME UNCHANGED <<call, workerVars>>  PROVE Hands
    BY <1>1 DEF Hands, HandlersGoOn
  <1>2. ASSUME NEW j \in Jobs, Create(j) \/ Remove(j) \/ Age(j)  PROVE Hands
    BY <1>1, <1>2
       DEF Create, InsertRow, SaveInput, SaveAux, SaveKeys, Enqueue, Resend, Remove,
           FindForRemoval, RemoveJobDirectory, RemoveRow, Age
  <1>3. ASSUME NEW m \in Payloads, Handle(m)  PROVE Hands
    BY <1>3, HandleExchange DEF Hands
  <1>4. ASSUME NEW w \in Workers, Work(w) \/ GiveUp(w) \/ WorkerCrash(w)  PROVE Hands
    BY <1>4, TakeExchange, ProceedExchange DEF Work, Hands
  <1>5. CASE Purge
    BY <1>1, <1>5 DEF Purge, PurgeFind, PurgeDirectory, PurgeKeys
  <1>6. CASE Fault
    <2>1. ASSUME NEW j \in Jobs, CreateFails(j) \/ RemoveDirectoryFails(j) \/ PurgeFails(j)
          PROVE  Hands
      BY <1>1, <2>1 DEF CreateFails, RemoveDirectoryFails, PurgeFails
    <2>2. ASSUME NEW w \in Workers, PopLost(w)  PROVE Hands
      BY <1>1, <2>2 DEF PopLost
    <2> QED  BY <1>4, <1>6, <2>1, <2>2, FaultExchange DEF Fault, Hands
  <1> QED  BY <1>2, <1>3, <1>4, <1>5, <1>6 DEF Next

(* What Proceeds does to the calls and to the workers.                      *)
LEMMA ProceedFacts ==
    ASSUME IInv, NEW w \in Workers, NEW s \in WorkSteps, NEW c \in Calls \cup {NoCall},
           Proceeds(w, s, c)
    PROVE  /\ wjob[w] \in Payloads /\ MayLetGo(w, s, c) /\ c # Mark
           /\ wpc'[w] = s
           /\ wjob'[w] = IF s = "idle" THEN NoJob ELSE wjob[w]
           /\ \A v \in Workers : v # w => wpc'[v] = wpc[v] /\ wjob'[v] = wjob[v]
           /\ \A i \in Payloads, d \in Calls : <<i, d>> # <<wjob[w], c>> => call'[i][d] = call[i][d]
           /\ c # NoCall => call'[wjob[w]][c].at = "sent"
  <1>1. wjob[w] \in Payloads /\ MayLetGo(w, s, c) /\ Goto(w, s, c)
    BY DEF Proceeds
  <1>2. c # Mark
    BY <1>1, CallFacts DEF MayLetGo
  <1> QED  BY <1>1, <1>2, GotoFacts DEF IInv, WorkSteps

(* Whoever holds a failing job has reported it, and a marking is under way  *)
(* only while its worker waits for it or has given up.                      *)
LEMMA ReportedStep ==
    ASSUME IInv, ReportedInv, Next  PROVE ReportedInv'
  <1> USE CallFacts
  <1> SUFFICES ASSUME NEW v \in Workers, NEW j \in Payloads, HeldBy(v, j)'
               PROVE  /\ wpc'[v] = "failing" => ~Unsent(j, Fail)'
                      /\ call'[j][Mark].at \in InFlight => wpc'[v] \in {"marking", "failing"}
    BY DEF ReportedInv
  <1>1. HeldBy(v, j) => /\ wpc[v] = "failing" => ~Unsent(j, Fail)
                        /\ call[j][Mark].at \in InFlight => wpc[v] \in {"marking", "failing"}
    BY DEF ReportedInv
  <1>2. CASE HandlersGoOn
    <2>1. HeldBy(v, j) /\ wpc'[v] = wpc[v]
      BY <1>2 DEF HandlersGoOn, HeldBy, workerVars
    <2>2. ~Unsent(j, Fail) => ~Unsent(j, Fail)'
      BY <1>2 DEF HandlersGoOn, Unsent
    <2>3. call'[j][Mark].at \in InFlight => call[j][Mark].at \in InFlight
      BY <1>2 DEF HandlersGoOn
    <2> QED  BY <1>1, <2>1, <2>2, <2>3
  <1>3. ASSUME NEW w \in Workers, NEW i \in Payloads, Takes(w, i)
        PROVE  /\ wpc'[v] = "failing" => ~Unsent(j, Fail)'
               /\ call'[j][Mark].at \in InFlight => wpc'[v] \in {"marking", "failing"}
    <2>1. CASE v = w
      BY <1>3, <2>1 DEF Takes
    <2>2. CASE v # w
      <3>1. HeldBy(v, j) /\ wpc'[v] = wpc[v]
        BY <1>3, <2>2 DEF Takes, HeldBy
      <3>2. j # i
        BY <1>3, <3>1 DEF Takes, IInv, SingleDelivery
      <3>3. call'[j][Fail] = call[j][Fail] /\ call'[j][Mark] = call[j][Mark]
        BY <1>3, <3>2 DEF Takes
      <3> QED  BY <1>1, <3>1, <3>3 DEF Unsent
    <2> QED  BY <2>1, <2>2
  <1>4. ASSUME NEW w \in Workers, NEW s \in WorkSteps, NEW c \in Calls \cup {NoCall},
               Proceeds(w, s, c)
        PROVE  /\ wpc'[v] = "failing" => ~Unsent(j, Fail)'
               /\ call'[j][Mark].at \in InFlight => wpc'[v] \in {"marking", "failing"}
    <2>1. /\ wjob[w] \in Payloads /\ MayLetGo(w, s, c) /\ c # Mark
          /\ wpc'[w] = s
          /\ wjob'[w] = IF s = "idle" THEN NoJob ELSE wjob[w]
          /\ \A u \in Workers : u # w => wpc'[u] = wpc[u] /\ wjob'[u] = wjob[u]
          /\ \A i \in Payloads, d \in Calls : <<i, d>> # <<wjob[w], c>> => call'[i][d] = call[i][d]
          /\ c # NoCall => call'[wjob[w]][c].at = "sent"
      BY <1>4, ProceedFacts
    <2>2. CASE v = w
      <3>1. HeldBy(w, j) /\ j = wjob[w] /\ s # "idle"
        BY <2>1, <2>2, MediaJobAssumption DEF HeldBy
      <3>2. call'[j][Mark] = call[j][Mark]
        BY <2>1
      <3>3. CASE s = "failing"
        <4>1. c = Fail
          BY <2>1, <3>3 DEF MayLetGo
        <4>2. call'[j][Fail].at = "sent"
          BY <2>1, <3>1, <4>1
        <4> QED  BY <2>1, <2>2, <3>3, <4>2 DEF Unsent
      <3>4. CASE s # "failing"
        <4>1. call[j][Mark].at = "ok" \/ wpc[w] \notin {"marking", "failing"}
          BY <2>1, <3>1, <3>4 DEF MayLetGo
        <4>2. call[j][Mark].at \notin InFlight
          BY <1>1, <2>2, <3>1, <4>1 DEF InFlight
        <4> QED  BY <2>1, <2>2, <3>2, <3>4, <4>2
      <3> QED  BY <3>3, <3>4
    <2>3. CASE v # w
      <3>1. HeldBy(v, j) /\ wpc'[v] = wpc[v]
        BY <2>1, <2>3 DEF HeldBy
      <3>2. j # wjob[w]
        BY <2>1, <2>3, <3>1, MediaJobAssumption DEF IInv, SingleDelivery, HeldBy
      <3>3. call'[j][Fail] = call[j][Fail] /\ call'[j][Mark] = call[j][Mark]
        BY <2>1, <3>2
      <3> QED  BY <1>1, <3>1, <3>3 DEF Unsent
    <2> QED  BY <2>2, <2>3
  <1> QED  BY <1>2, <1>3, <1>4, StepHands DEF Hands

(* A marking under way precedes every verdict but a failure it was given    *)
(* up for.                                                                  *)
LEMMA LateMarkStep ==
    ASSUME IInv, ReportedInv, LateMarkInv, Next  PROVE LateMarkInv'
  <1> USE CallFacts
  <1> SUFFICES ASSUME NEW j \in Payloads, call'[j][Mark].at \in InFlight
               PROVE  Unsent(j, Done)' /\ (Unsent(j, Fail)' \/ Lost("late")')
    BY DEF LateMarkInv, Lost
  <1>1. Lost("late") => Lost("late")'
    BY FaultsStay DEF FaultKinds
  <1>2. call[j][Mark].at \in InFlight => Unsent(j, Done) /\ (Unsent(j, Fail) \/ Lost("late"))
    BY DEF LateMarkInv, Lost
  <1>3. CASE HandlersGoOn
    <2>1. call[j][Mark].at \in InFlight
      BY <1>3 DEF HandlersGoOn
    <2>2. \A c \in {Done, Fail} : Unsent(j, c) => Unsent(j, c)'
      BY <1>3 DEF HandlersGoOn, Unsent, InFlight
    <2> QED  BY <1>1, <1>2, <2>1, <2>2
  <1>4. ASSUME NEW w \in Workers, NEW i \in Payloads, Takes(w, i)
        PROVE  Unsent(j, Done)' /\ (Unsent(j, Fail)' \/ Lost("late")')
    <2>1. call'[j][Done] = call[j][Done] /\ call'[j][Fail] = call[j][Fail]
      BY <1>4 DEF Takes
    <2>2. CASE j = i
      <3>1. Unserved(j)
        BY <1>4, <2>2 DEF Takes, Queued, IInv, QueueInv
      <3> QED  BY <2>1, <3>1 DEF Unserved, Unsent
    <2>3. CASE j # i
      <3>1. call'[j][Mark] = call[j][Mark]
        BY <1>4, <2>3 DEF Takes
      <3> QED  BY <1>1, <1>2, <2>1, <3>1 DEF Unsent
    <2> QED  BY <2>2, <2>3
  <1>5. ASSUME NEW w \in Workers, NEW s \in WorkSteps, NEW c \in Calls \cup {NoCall},
               Proceeds(w, s, c)
        PROVE  Unsent(j, Done)' /\ (Unsent(j, Fail)' \/ Lost("late")')
    <2>1. /\ wjob[w] \in Payloads /\ MayLetGo(w, s, c) /\ c # Mark
          /\ \A i \in Payloads, d \in Calls : <<i, d>> # <<wjob[w], c>> => call'[i][d] = call[i][d]
      BY <1>5, ProceedFacts
    <2>2. call'[j][Mark] = call[j][Mark]
      BY <2>1
    <2>3. Unsent(j, Done) /\ (Unsent(j, Fail) \/ Lost("late"))
      BY <1>2, <2>2
    <2>4. CASE j = wjob[w] /\ c = Done
      <3>1. wpc[w] = "written" /\ HeldBy(w, j)
        BY <2>1, <2>4 DEF MayLetGo, HeldBy
      <3> QED  BY <2>2, <3>1 DEF ReportedInv
    <2>5. CASE j = wjob[w] /\ c = Fail
      <3>1. Lost("late")'
        BY <2>1, <2>2, <2>5 DEF MayLetGo
      <3>2. call'[j][Done] = call[j][Done]
        BY <2>1, <2>5
      <3> QED  BY <2>3, <3>1, <3>2 DEF Unsent
    <2>6. CASE j # wjob[w] \/ c \notin {Done, Fail}
      <3>1. call'[j][Done] = call[j][Done] /\ call'[j][Fail] = call[j][Fail]
        BY <2>1, <2>6
      <3> QED  BY <1>1, <2>3, <3>1 DEF Unsent
    <2> QED  BY <2>4, <2>5, <2>6
  <1> QED  BY <1>3, <1>4, <1>5, StepHands DEF Hands

(* A verdict is in the row, or the row is gone, once its UPDATE is done.    *)
LEMMA VerdictWrites ==
    ASSUME IInv, NEW m \in Payloads, NEW c \in {Done, Fail}, UpdateCompleted(m, c)
    PROVE  row'[JobOf(m)].status \in Terminal \cup {"absent"}
  <1> PICK j \in Jobs : j = JobOf(m)
    BY JobFacts
  <1>1. row \in [Jobs -> Row] /\ row[j] \in Row
    BY DEF IInv, TypeOK
  <1>2. UpdateRow(j, IF c = Done THEN CompletedRow(m) ELSE FailedRow(m))
    BY DEF UpdateCompleted
  <1>3. CASE ~Exists(j)
    BY <1>2, <1>3 DEF UpdateRow, Exists
  <1>4. CASE Exists(j) /\ c = Done
    <2>1. row'[j] = CompletedRow(m)
      BY <1>1, <1>2, <1>4 DEF UpdateRow
    <2> QED  BY <1>1, <2>1 DEF CompletedRow, Row, Terminal
  <1>5. CASE Exists(j) /\ c = Fail
    <2>1. row'[j] = FailedRow(m)
      BY <1>1, <1>2, <1>5, CallFacts DEF UpdateRow
    <2> QED  BY <1>1, <2>1 DEF FailedRow, Row, Terminal
  <1> QED  BY <1>3, <1>4, <1>5

(* Only that UPDATE decides.                                                *)
LEMMA DecidedStep ==
    ASSUME IInv, ReportedInv, Next, NEW m \in Payloads, NEW c \in {Done, Fail},
           call'[m][c].at \in Decided
    PROVE  call[m][c].at \in Decided \/ UpdateCompleted(m, c)
  <1> USE CallFacts
  <1>1. CASE HandlersGoOn
    <2>1. CASE call'[m][c].at = call[m][c].at
      BY <2>1
    <2>2. CASE call'[m][c].at # call[m][c].at
      BY <1>1, <2>2 DEF HandlersGoOn
    <2> QED  BY <2>1, <2>2
  <1>2. ASSUME NEW w \in Workers, NEW i \in Payloads, Takes(w, i)
        PROVE  call'[m][c] = call[m][c]
    BY <1>2 DEF Takes
  <1>3. ASSUME NEW w \in Workers, NEW s \in WorkSteps, NEW d \in Calls \cup {NoCall},
               Proceeds(w, s, d)
        PROVE  call'[m][c] = call[m][c]
    <2>1. /\ \A i \in Payloads, e \in Calls : <<i, e>> # <<wjob[w], d>> => call'[i][e] = call[i][e]
          /\ d # NoCall => call'[wjob[w]][d].at = "sent"
      BY <1>3, ProceedFacts
    <2>2. <<m, c>> # <<wjob[w], d>>
      BY <2>1 DEF Decided
    <2> QED  BY <2>1, <2>2
  <1>4. CASE \E w \in Workers, i \in Payloads : Takes(w, i)
    BY <1>2, <1>4
  <1>5. CASE \E w \in Workers, s \in WorkSteps, d \in Calls \cup {NoCall} : Proceeds(w, s, d)
    BY <1>3, <1>5
  <1> QED  BY <1>1, <1>4, <1>5, StepHands DEF Hands

(* A payload that was marked stays marked.                                  *)
LEMMA MarkedStays ==
    ASSUME IInv, QuietInv, ReportedInv, Next, NEW m \in Payloads, Marked(m)  PROVE Marked(m)'
  <1> USE CallFacts
  <1>1. CASE HandlersGoOn
    BY <1>1 DEF HandlersGoOn, Marked, InFlight
  <1>2. ASSUME NEW w \in Workers, NEW i \in Payloads, Takes(w, i)
        PROVE  call'[m][Mark] = call[m][Mark]
    <2>1. m # i
      BY <1>2 DEF Takes, QuietInv, Marked, Unsent
    <2> QED  BY <1>2, <2>1 DEF Takes
  <1>3. ASSUME NEW w \in Workers, NEW s \in WorkSteps, NEW d \in Calls \cup {NoCall},
               Proceeds(w, s, d)
        PROVE  call'[m][Mark] = call[m][Mark]
    BY <1>3, ProceedFacts
  <1>4. CASE \E w \in Workers, i \in Payloads : Takes(w, i)
    BY <1>2, <1>4 DEF Marked
  <1>5. CASE \E w \in Workers, s \in WorkSteps, d \in Calls \cup {NoCall} : Proceeds(w, s, d)
    BY <1>3, <1>5 DEF Marked
  <1> QED  BY <1>1, <1>4, <1>5, StepHands DEF Hands

(* No payload of a job has brought a verdict while the row says pending: the *)
(* upload writes that status before it pushes.                              *)
LEMMA PendingStep ==
    ASSUME IInv, ReportedInv, PendingInv, Next  PROVE PendingInv'
  <1> USE CallFacts, JobFacts
  <1> SUFFICES ASSUME NEW m \in Payloads, row'[JobOf(m)].status = "pending",
                      NEW c \in {Done, Fail}, call'[m][c].at \in Decided
               PROVE  FALSE
    BY DEF PendingInv
  <1> PICK j \in Jobs : j = JobOf(m)
    OBVIOUS
  <1>1. call[m][c].at \in Decided
    <2>1. UpdateCompleted(m, c) => row'[j].status \in Terminal \cup {"absent"}
      BY VerdictWrites
    <2>2. ~UpdateCompleted(m, c)
      BY <2>1 DEF Terminal
    <2> QED  BY <2>2, DecidedStep
  <1>2. row[j].status # "pending"
    BY <1>1 DEF PendingInv
  <1>3. Inserted(j)
    BY <1>2, RowStep DEF RowMoves, StatusKept, Started, Completed, Failed, Removed
  <1>4. creating[j] # "enqueued"
    BY <1>3 DEF Inserted, InsertRow, SaveKeys
  <1>5. ~Pushed(m)
    BY <1>4, MediaJobAssumption DEF Pushed, JobOf, IInv, CopyInv, TypeOK
  <1> QED  BY <1>1, <1>5 DEF IInv, CopyInv, Unsent, Decided

(* A row says processing for a payload that was marked, and that has not    *)
(* brought a verdict unless its mark came late.                             *)
LEMMA ProcessingStep ==
    ASSUME IInv, QuietInv, ReportedInv, LateMarkInv, ProcessingInv, Next  PROVE ProcessingInv'
  <1> USE CallFacts, JobFacts
  <1> SUFFICES ASSUME NEW j \in Jobs, row'[j].status = "processing"
               PROVE  \E m \in PayloadsOf(j) : Undecided(m)'
    BY DEF ProcessingInv, PayloadsOf
  <1>1. Lost("late") => Lost("late")'
    BY FaultsStay DEF FaultKinds
  <1>2. ASSUME NEW m \in PayloadsOf(j), Marked(m)',
               call[m][Done].at \notin Decided,
               call[m][Fail].at \in Decided => Lost("late")
        PROVE  Undecided(m)'
    <2>1. m \in Payloads /\ JobOf(m) = j
      BY DEF PayloadsOf
    <2>2. \A c \in {Done, Fail} : ~UpdateCompleted(m, c)
      BY <2>1, VerdictWrites DEF Terminal
    <2>3. /\ call'[m][Done].at \notin Decided
          /\ call'[m][Fail].at \in Decided => Lost("late")'
      BY <1>1, <1>2, <2>1, <2>2, DecidedStep
    <2> QED  BY <1>2, <2>3 DEF Undecided, Lost
  <1>3. CASE StatusKept(j)
    <2>1. PICK m \in PayloadsOf(j) : Undecided(m)
      BY <1>3 DEF StatusKept, ProcessingInv
    <2>2. Marked(m)'
      BY <2>1, MarkedStays DEF Undecided, PayloadsOf
    <2> QED  BY <1>2, <2>1, <2>2 DEF Undecided, Lost
  <1>4. CASE Started(j)
    <2>1. PICK m \in PayloadsOf(j) : MarkProcessing(m)
      BY <1>4 DEF Started
    <2>2. m \in Payloads /\ call[m][Mark].at \in InFlight
      BY <2>1 DEF PayloadsOf, MarkProcessing, InFlight
    <2>3. Unsent(m, Done) /\ (Unsent(m, Fail) \/ Lost("late"))
      BY <2>2 DEF LateMarkInv, Lost
    <2>4. Marked(m)'
      BY <2>1, <2>2, AnswerFacts
         DEF MarkProcessing, IInv, TypeOK, CallStates, Phases, Answered, Marked
    <2>5. /\ call[m][Done].at \notin Decided
          /\ call[m][Fail].at \in Decided => Lost("late")
      BY <2>3 DEF Unsent, Decided
    <2> QED  BY <1>2, <2>4, <2>5
  <1> QED
    BY <1>3, <1>4, RowStep DEF RowMoves, Inserted, Completed, Failed, Removed

(* A worker lets a payload go when it has reported it, or dies with it.     *)
LEMMA LetGoStep ==
    ASSUME IInv, ReportedInv, LetGoInv, Next  PROVE LetGoInv'
  <1> USE CallFacts
  <1> SUFFICES ASSUME NEW m \in Payloads, Pushed(m)', ~Queued(m)', Unsent(m, Fail)',
                      \A w \in Workers : ~HeldBy(w, m)'
               PROVE  m \in lost' \/ call'[m][Done].at = "ok"
    BY DEF LetGoInv
  <1>1. lost \subseteq lost' /\ Pushed(m)
    BY ListStep
  <1>2. ~Queued(m) \/ m \in lost'
    <2>1. \A w \in Workers : ~Takes(w, m)
      BY DEF Takes, HeldBy
    <2> QED  BY <2>1, ListStep
  <1>3. CASE HandlersGoOn
    <2>1. Unsent(m, Fail)
      BY <1>3 DEF HandlersGoOn, Unsent, InFlight
    <2>2. \A w \in Workers : ~HeldBy(w, m)
      BY <1>3 DEF HandlersGoOn, HeldBy, workerVars
    <2>3. m \in lost' \/ call[m][Done].at = "ok"
      BY <1>1, <1>2, <2>1, <2>2 DEF LetGoInv
    <2> QED  BY <1>3, <2>3 DEF HandlersGoOn, InFlight
  <1>4. ASSUME NEW w \in Workers, NEW i \in Payloads, Takes(w, i)
        PROVE  m \in lost' \/ call'[m][Done].at = "ok"
    <2>1. call'[m][Done] = call[m][Done] /\ call'[m][Fail] = call[m][Fail]
      BY <1>4 DEF Takes
    <2>2. \A v \in Workers : ~HeldBy(v, m)
      BY <1>4, MediaJobAssumption DEF Takes, HeldBy
    <2> QED  BY <1>1, <1>2, <2>1, <2>2 DEF LetGoInv, Unsent
  <1>5. ASSUME NEW w \in Workers, NEW s \in WorkSteps, NEW c \in Calls \cup {NoCall},
               Proceeds(w, s, c)
        PROVE  m \in lost' \/ call'[m][Done].at = "ok"
    <2>1. /\ wjob[w] \in Payloads /\ MayLetGo(w, s, c)
          /\ wjob'[w] = IF s = "idle" THEN NoJob ELSE wjob[w]
          /\ \A v \in Workers : v # w => wjob'[v] = wjob[v]
          /\ \A i \in Payloads, d \in Calls : <<i, d>> # <<wjob[w], c>> => call'[i][d] = call[i][d]
          /\ c # NoCall => call'[wjob[w]][c].at = "sent"
      BY <1>5, ProceedFacts
    <2>2. <<m, Fail>> # <<wjob[w], c>>
      BY <2>1 DEF Unsent
    <2>3. Unsent(m, Fail)
      BY <2>1, <2>2 DEF Unsent
    <2>4. CASE HeldBy(w, m)
      <3>1. m = wjob[w] /\ s = "idle" /\ c = NoCall
        BY <2>1, <2>4 DEF HeldBy, MayLetGo
      <3>2. wpc[w] # "failing"
        BY <2>3, <2>4 DEF ReportedInv
      <3>3. call[m][Done].at = "ok" \/ m \in lost'
        BY <2>1, <3>1, <3>2 DEF MayLetGo
      <3>4. call'[m][Done] = call[m][Done]
        BY <2>1, <3>1
      <3> QED  BY <3>3, <3>4
    <2>5. CASE ~HeldBy(w, m)
      <3>1. \A v \in Workers : ~HeldBy(v, m)
        BY <2>1, <2>5 DEF HeldBy
      <3>2. call'[m][Done] = call[m][Done]
        BY <2>1, <2>5 DEF HeldBy
      <3> QED  BY <1>1, <1>2, <2>3, <3>1, <3>2 DEF LetGoInv
    <2> QED  BY <2>4, <2>5
  <1> QED  BY <1>3, <1>4, <1>5, StepHands DEF Hands

(* What is lost was lost to a named fault, in every reachable state.        *)
LEMMA HandSteps ==
    /\ Init => IInv /\ HandInv
    /\ IInv /\ HandInv /\ [Next]_vars => (IInv /\ HandInv)'
  <1>1. ASSUME Init  PROVE HandInv
    <2>1. QuietInv /\ ReportedInv
      BY <1>1, MediaJobAssumption DEF Init, QuietInv, Unsent, ReportedInv, HeldBy
    <2>2. LateMarkInv
      BY <1>1, CallFacts DEF Init, LateMarkInv, InFlight
    <2>3. PendingInv
      BY <1>1, CallFacts DEF Init, PendingInv, Decided
    <2>4. ProcessingInv
      BY <1>1 DEF Init, ProcessingInv, Absent
    <2>5. LetGoInv
      BY <1>1 DEF Init, LetGoInv, Pushed
    <2> QED  BY <2>1, <2>2, <2>3, <2>4, <2>5 DEF HandInv
  <1>2. ASSUME IInv, HandInv, Next  PROVE HandInv'
    <2>1. Moves
      BY <1>2, StepHands DEF HandInv, Hands, Proceeds, Moves
    <2> QED
      BY <1>2, <2>1, QuietStep, ReportedStep, LateMarkStep, PendingStep, ProcessingStep,
         LetGoStep
         DEF HandInv
  <1>3. ASSUME HandInv, UNCHANGED vars  PROVE HandInv'
    <2> USE DEF vars, dbVars, deliveryVars, workerVars, HandInv
    <2>1. QuietInv' /\ ReportedInv' /\ LateMarkInv'
      BY <1>3 DEF QuietInv, ReportedInv, LateMarkInv, HeldBy, Unsent, Queued
    <2>2. PendingInv' /\ ProcessingInv'
      BY <1>3 DEF PendingInv, ProcessingInv, Undecided, Marked
    <2>3. LetGoInv'
      BY <1>3 DEF LetGoInv, Pushed, HeldBy, Unsent, Queued
    <2> QED  BY <2>1, <2>2, <2>3
  <1> QED  BY <1>1, <1>2, <1>3, InitInv, NextInv

(* Under every fault the model has, a job that is enqueued and not deleted  *)
(* is settled, or a payload of it is queued, at a worker or being reported  *)
(* as failed, or it fell to one of four losses: the report of its failure,  *)
(* its worker, the reply of the BRPOP that took it off its list, or a mark  *)
(* that was handled after its failure.                                      *)
THEOREM NoneForgotten == Spec => []NoJobForgotten
  <1>1. IInv /\ HandInv => NoJobForgotten
    <2> SUFFICES ASSUME IInv, HandInv, NEW j \in Jobs, creating[j] = "enqueued",
                        row[j].status \in {"pending", "processing"}
                 PROVE  \E m \in PayloadsOf(j) : Pursued(m) \/ Dropped(m)
      BY DEF NoJobForgotten
    <2>1. ASSUME NEW m \in PayloadsOf(j), Pushed(m), call[m][Done].at # "ok",
                 call[m][Fail].at \in Decided => Marked(m) /\ Lost("late")
          PROVE  Pursued(m) \/ Dropped(m)
      <3>1. m \in Payloads /\ call[m][Fail].at \in {"unsent"} \cup InFlight \cup Answered
        BY CallFacts DEF PayloadsOf, IInv, TypeOK
      <3>2. call[m][Fail].at \in {"unsent", "sent", "loaded", "error"} \cup Decided
        BY <3>1 DEF InFlight, Answered, Decided
      <3>3. CASE call[m][Fail].at = "unsent"
        BY <2>1, <3>1, <3>3 DEF HandInv, LetGoInv, Unsent, Pursued, Dropped
      <3>4. CASE call[m][Fail].at # "unsent"
        BY <2>1, <3>2, <3>4 DEF Pursued, Dropped, Lost
      <3> QED  BY <3>3, <3>4
    <2>2. CASE row[j].status = "pending"
      <3>1. j \in PayloadsOf(j) /\ JobOf(j) = j /\ Pushed(j)
        BY JobFacts DEF PayloadsOf, Pushed
      <3>2. \A c \in {Done, Fail} : call[j][c].at \notin Decided
        BY <2>2, <3>1 DEF HandInv, PendingInv, PayloadsOf
      <3> QED  BY <2>1, <3>1, <3>2 DEF Decided
    <2>3. CASE row[j].status = "processing"
      <3>1. PICK m \in PayloadsOf(j) : Undecided(m)
        BY <2>3 DEF HandInv, ProcessingInv
      <3>2. Pushed(m)
        BY <3>1, CallFacts, PushedFacts DEF Undecided, Marked, Unsent, PayloadsOf
      <3> QED  BY <2>1, <3>1, <3>2 DEF Undecided, Decided, Lost
    <2> QED  BY <2>2, <2>3
  <1> QED  BY <1>1, HandSteps, PTL DEF Spec

----------------------------------------------------------------------------
(* The sweep leaves no file behind.                                         *)

(* A retired job stays retired, and nobody writes into its directory.       *)
LEMMA RetiredStays ==
    ASSUME IInv, ReportedInv, Next, NEW i \in Once, Retired(i)
    PROVE  Retired(i)' /\ files'[i] \subseteq files[i]
  <1> USE CallFacts, JobFacts
  <1>1. /\ ~Unserved(i) /\ ~Queued(i)
        /\ \A w \in Workers : ~HeldBy(w, i)
        /\ \A c \in {Done, Fail} : call[i][c].at \notin InFlight
    BY DEF Retired, IInv, QueueInv, Queued
  <1>0. creating[i] = "enqueued"
    <2>1. Pushed(i)
      BY <1>1, PushedFacts DEF Unserved
    <2> QED  BY <2>1, MediaJobAssumption DEF Pushed, IInv, TypeOK
  <1>2. Retired(i)'
    <2>1. CASE HandlersGoOn
      <3>1. \A c \in {Done, Fail} : call'[i][c].at = call[i][c].at
        BY <1>1, <2>1 DEF HandlersGoOn
      <3> QED  BY <1>1, <2>1, <3>1 DEF HandlersGoOn, Retired, Unserved, Unsent, HeldBy, workerVars
    <2>2. ASSUME NEW w \in Workers, NEW j \in Payloads, Takes(w, j)  PROVE Retired(i)'
      <3>1. j # i
        BY <1>1, <2>2 DEF Takes
      <3>2. \A c \in {Done, Fail} : call'[i][c] = call[i][c]
        BY <2>2 DEF Takes
      <3> QED  BY <1>1, <2>2, <3>1, <3>2 DEF Takes, Retired, Unserved, Unsent, HeldBy
    <2>3. ASSUME NEW w \in Workers, NEW s \in WorkSteps, NEW c \in Calls \cup {NoCall},
                 Proceeds(w, s, c)
          PROVE  Retired(i)'
      <3>1. /\ wjob[w] \in Payloads
            /\ wjob'[w] = IF s = "idle" THEN NoJob ELSE wjob[w]
            /\ \A v \in Workers : v # w => wjob'[v] = wjob[v]
            /\ \A k \in Payloads, d \in Calls : <<k, d>> # <<wjob[w], c>> => call'[k][d] = call[k][d]
        BY <2>3, ProceedFacts
      <3>2. i # wjob[w]
        BY <1>1 DEF HeldBy
      <3>3. \A d \in {Done, Fail} : call'[i][d] = call[i][d]
        BY <3>1, <3>2
      <3>4. \A v \in Workers : ~HeldBy(v, i)'
        BY <1>1, <3>1, MediaJobAssumption DEF HeldBy
      <3> QED  BY <1>1, <3>3, <3>4 DEF Retired, Unserved, Unsent
    <2> QED  BY <2>1, <2>2, <2>3, StepHands DEF Hands
  <1>3. files'[i] \subseteq files[i]
    <2>1. files \in [Jobs -> SUBSET Files]
      BY DEF IInv, TypeOK
    <2>2. CASE UNCHANGED files
      BY <2>2
    <2>3. ASSUME NEW j \in Jobs, NEW S, files' = [files EXCEPT ![j] = S],
                 j # i \/ S \subseteq files[j]
          PROVE  files'[i] \subseteq files[i]
      BY <2>1, <2>3
    <2>4. ASSUME NEW j \in Jobs, Create(j) \/ CreateFails(j) \/ Age(j)
          PROVE  files'[i] \subseteq files[i]
      <3>1. CASE SaveInput(j)
        <4>1. j # i /\ files' = [files EXCEPT ![j] = files[j] \cup {"input"}]
          BY <1>0, <3>1 DEF SaveInput
        <4> QED  BY <2>3, <4>1
      <3>2. CASE SaveAux(j)
        <4>1. j # i /\ files' = [files EXCEPT ![j] = files[j] \cup {"aux"}]
          BY <1>0, <3>2 DEF SaveAux
        <4> QED  BY <2>3, <4>1
      <3>3. CASE InsertRow(j) \/ SaveKeys(j) \/ Enqueue(j) \/ Resend(j) \/ CreateFails(j) \/ Age(j)
        BY <2>2, <3>3 DEF InsertRow, SaveKeys, Enqueue, Resend, CreateFails, Age, dbVars
      <3> QED  BY <2>4, <3>1, <3>2, <3>3 DEF Create
    <2>5. ASSUME NEW m \in Payloads,
                 Handle(m) \/ \E c \in {Done, Fail} : UnlinkFails(m, c)
          PROVE  files'[i] \subseteq files[i]
      <3> PICK j \in Jobs : j = JobOf(m)
        OBVIOUS
      <3>1. ASSUME NEW gone, files' = [files EXCEPT ![j] = files[j] \ gone]
            PROVE  files'[i] \subseteq files[i]
        <4>1. files[j] \ gone \subseteq files[j]
          OBVIOUS
        <4> QED  BY <2>3, <3>1, <4>1
      <3>2. ASSUME NEW c \in {Done, Fail}, DeleteInputArtifact(m, c) \/ UnlinkFails(m, c)
            PROVE  files'[i] \subseteq files[i]
        BY <3>1, <3>2 DEF DeleteInputArtifact, UnlinkFails
      <3>3. ASSUME ~\E c \in {Done, Fail} : DeleteInputArtifact(m, c), Handle(m)
            PROVE  UNCHANGED files
        BY <3>3 DEF Handle, MarkProcessing, LoadForProgress, WriteProgress, CompleteJob,
                    LoadForComplete, UpdateCompleted, ClearInputKey, dbVars
      <3> QED  BY <2>2, <2>5, <3>2, <3>3
    <2>6. ASSUME NEW j \in Jobs,
                 \/ Remove(j) \/ RemoveDirectoryFails(j)
                 \/ PurgeDirectory(j) \/ PurgeFails(j)
          PROVE  files'[i] \subseteq files[i]
      <3>1. UNCHANGED files \/ \E left \in SUBSET files[j] : files' = [files EXCEPT ![j] = left]
        BY <2>6 DEF Remove, FindForRemoval, RemoveJobDirectory, RemoveRow,
                    RemoveDirectoryFails, PurgeDirectory, PurgeFails, dbVars
      <3>2. ASSUME NEW left \in SUBSET files[j], files' = [files EXCEPT ![j] = left]
            PROVE  files'[i] \subseteq files[i]
        BY <2>3, <3>2
      <3> QED  BY <2>2, <3>1, <3>2
    <2>7. ASSUME NEW w \in Workers,
                 Work(w) \/ PopLost(w) \/ DropCall(w) \/ GiveUp(w) \/ WorkerCrash(w)
          PROVE  files'[i] \subseteq files[i]
      <3>1. CASE EnsureParent(w) \/ WriteOutput(w) \/ RunFails(w)
        <4>1. \E S : files' = [files EXCEPT ![JobOf(wjob[w])] = S]
          BY <3>1 DEF EnsureParent, WriteOutput, RunFails
        <4>2. wpc[w] # "idle"
          BY <3>1 DEF EnsureParent, WriteOutput, RunFails
        <4>3. wjob[w] \in Payloads /\ Pushed(wjob[w])
          BY <4>2, AwaitFacts, PushedFacts DEF HeldBy
        <4>4. JobOf(wjob[w]) # i
          BY <1>1, <4>3, OwnPayload DEF HeldBy
        <4> QED  BY <2>1, <4>1, <4>3, <4>4
      <3>2. CASE UNCHANGED files
        BY <3>2
      <3> QED  BY <2>7, <3>1, <3>2 DEF Work, Pop, PopLost, Return, OpenInput, SendReport,
                                       FinishRun, DropCall, GiveUp, WorkerCrash, dbVars
    <2>8. CASE PurgeFind \/ PurgeKeys \/ ApiCrash
      BY <2>2, <2>8 DEF PurgeFind, PurgeKeys, ApiCrash, dbVars
    <2> QED  BY <2>4, <2>5, <2>6, <2>7, <2>8 DEF Next, Purge, Fault
  <1> QED  BY <1>2, <1>3

(* Only the sweep clears the outputKey of a row that has one.               *)
LEMMA KeysStep ==
    ASSUME IInv, Next, NEW i \in Jobs, Exists(i)', ~row'[i].outputKey
    PROVE  \/ Exists(i) /\ ~row[i].outputKey
           \/ InsertRow(i)
           \/ PurgeKeys /\ purging = i
  <1> DEFINE Goal == \/ Exists(i) /\ ~row[i].outputKey
                     \/ InsertRow(i)
                     \/ PurgeKeys /\ purging = i
  <1> SUFFICES Goal  OBVIOUS
  <1>1. row \in [Jobs -> Row] /\ row[i] \in Row
    BY DEF IInv, TypeOK
  <1>2. CASE row'[i] = row[i]
    BY <1>2 DEF Exists
  <1>3. ASSUME row'[i].status = row[i].status \/ Exists(i), row'[i].outputKey = row[i].outputKey
        PROVE  Goal
    BY <1>3 DEF Exists
  <1>4. ASSUME NEW j, NEW r, UpdateRow(j, r), j # i \/ ~Exists(i)  PROVE Goal
    BY <1>1, <1>2, <1>4 DEF UpdateRow
  <1>5. ASSUME NEW r \in Row, UpdateRow(i, r), r.outputKey = row[i].outputKey  PROVE Goal
    <2>1. CASE Exists(i)
      <3>1. row'[i] = r
        BY <1>1, <1>5, <2>1 DEF UpdateRow
      <3> QED  BY <1>5, <2>1, <3>1
    <2> QED  BY <1>4, <1>5, <2>1
  <1>6. ~SaveKeys(i)
    <2> SUFFICES ASSUME SaveKeys(i) PROVE FALSE
      OBVIOUS
    <2> DEFINE old == IF Exists(i) THEN row[i] ELSE Pending
    <2>1. old \in Row
      BY <1>1, PendingFacts
    <2>2. row'[i] = [old EXCEPT !.inputKey = TRUE, !.outputKey = TRUE]
      BY <1>1 DEF SaveKeys
    <2> HIDE DEF old
    <2>3. row'[i].outputKey
      BY <2>1, <2>2 DEF Row
    <2> QED  BY <2>3
  <1> DEFINE Own == PayloadsOf(i)
  <1>7. ASSUME NEW m \in Own, MarkProcessing(m)  PROVE Goal
    <2>1. PICK r : r = [row[i] EXCEPT !.status = "processing", !.progress = 10]
      OBVIOUS
    <2>2. UpdateRow(i, r)
      BY <1>7, <2>1 DEF MarkProcessing, PayloadsOf
    <2>3. r \in Row
      <3>1. 10 \in 0..100
        OBVIOUS
      <3>2. \A p \in 0..100 : [row[i] EXCEPT !.status = "processing", !.progress = p] \in Row
        BY ONLY <1>1, RowUpdates
      <3> QED  BY ONLY <2>1, <3>1, <3>2
    <2>4. r.outputKey = row[i].outputKey
      BY <1>1, <2>1 DEF Row
    <2> QED  BY <1>5, <2>2, <2>3, <2>4
  <1>8. ASSUME NEW p \in Stages, NEW m \in Own, WriteProgress(m, p)  PROVE Goal
    <2> DEFINE r == [row[i] EXCEPT !.progress = p]
    <2>1. r \in Row /\ r.outputKey = row[i].outputKey
      BY <1>1, MediaJobAssumption DEF Row
    <2> QED  BY <1>5, <1>8, <2>1 DEF WriteProgress, PayloadsOf
  <1>9. ASSUME NEW m \in Own, UpdateCompleted(m, Done)  PROVE Goal
    <2>1. JobOf(m) = i /\ UpdateRow(i, CompletedRow(m))
      BY <1>9 DEF UpdateCompleted, PayloadsOf
    <2>2. CASE Exists(i)
      <3>1. row'[i] = CompletedRow(m)
        BY <1>1, <2>1, <2>2 DEF UpdateRow
      <3> QED  BY <1>1, <2>1, <3>1 DEF CompletedRow, Row
    <2> QED  BY <1>4, <2>1, <2>2
  <1>10. ASSUME NEW m \in Own, UpdateCompleted(m, Fail)  PROVE Goal
    <2>1. JobOf(m) = i /\ UpdateRow(i, FailedRow(m))
      BY <1>10, CallFacts DEF UpdateCompleted, PayloadsOf
    <2>2. CASE Exists(i)
      <3>1. row'[i] = FailedRow(m)
        BY <1>1, <2>1, <2>2 DEF UpdateRow
      <3>2. row'[i].outputKey = row[i].outputKey
        BY <1>1, <2>1, <3>1 DEF FailedRow, Row
      <3> QED  BY <1>3, <2>2, <3>2
    <2> QED  BY <1>4, <2>1, <2>2
  <1>11. ASSUME NEW m \in Own, NEW c \in {Done, Fail}, ClearInputKey(m, c)  PROVE Goal
    <2> DEFINE r == [row[i] EXCEPT !.inputKey = FALSE]
    <2>1. r \in Row /\ r.outputKey = row[i].outputKey
      BY <1>1 DEF Row
    <2>2. row' = row \/ UpdateRow(i, r)
      BY <1>11 DEF ClearInputKey, PayloadsOf
    <2> QED  BY <1>2, <1>5, <2>1, <2>2
  <1>12. CASE RemoveRow(i)
    <2>1. row'[i] = Absent
      BY <1>1, <1>12 DEF RemoveRow
    <2> QED  BY <2>1 DEF Absent, Exists
  <1>13. CASE Age(i)
    <2>1. row'[i] = [row[i] EXCEPT !.completedAt = "old"]
      BY <1>1, <1>13 DEF Age
    <2>2. row'[i].status = row[i].status /\ row'[i].outputKey = row[i].outputKey
      BY <1>1, <2>1 DEF Row
    <2> QED  BY <1>3, <2>2
  <1>14. CASE PurgeKeys
    BY <1>4, <1>14 DEF PurgeKeys
  <1>15. ASSUME NEW j \in Jobs, Create(j)  PROVE Goal
    BY <1>1, <1>2, <1>6, <1>15
       DEF Create, InsertRow, SaveInput, SaveAux, SaveKeys, Enqueue, Resend, dbVars
  <1>16. ASSUME NEW m \in Payloads, Handle(m)  PROVE Goal
    <2>1. CASE m \in Own
      <3>1. CASE MarkProcessing(m)
        BY <1>7, <2>1, <3>1
      <3>2. ASSUME NEW p \in Stages, LoadForProgress(m, p)  PROVE Goal
        BY <1>2, <3>2 DEF LoadForProgress, dbVars
      <3>3. ASSUME NEW p \in Stages, WriteProgress(m, p)  PROVE Goal
        BY <1>8, <2>1, <3>3
      <3>4. ASSUME NEW c \in {Done, Fail}, CompleteJob(m, c)  PROVE Goal
        BY <1>2, <1>9, <1>10, <1>11, <2>1, <3>4
           DEF CompleteJob, LoadForComplete, DeleteInputArtifact, dbVars
      <3> QED  BY <1>16, <3>1, <3>2, <3>3, <3>4 DEF Handle
    <2>2. CASE m \notin Own
      <3>1. JobOf(m) # i
        BY <2>2 DEF PayloadsOf
      <3>2. row' = row \/ \E r : UpdateRow(JobOf(m), r)
        BY <1>16
           DEF Handle, MarkProcessing, LoadForProgress, WriteProgress, CompleteJob,
               LoadForComplete, UpdateCompleted, DeleteInputArtifact, ClearInputKey, dbVars
      <3> QED  BY <1>2, <1>4, <3>1, <3>2
    <2> QED  BY <2>1, <2>2
  <1>17. ASSUME NEW j \in Jobs, Remove(j) \/ Age(j)  PROVE Goal
    BY <1>1, <1>2, <1>12, <1>13, <1>17
       DEF Remove, FindForRemoval, RemoveJobDirectory, RemoveRow, Age, dbVars
  <1>18. ASSUME NEW w \in Workers, Work(w)  PROVE Goal
    BY <1>2, <1>18
       DEF Work, Pop, Return, EnsureParent, OpenInput, SendReport, WriteOutput,
           RunFails, FinishRun, dbVars
  <1>19. CASE Purge
    BY <1>2, <1>14, <1>19 DEF Purge, PurgeFind, PurgeDirectory, dbVars
  <1>20. CASE Fault
    BY <1>2, <1>20
       DEF Fault, ApiCrash, PopLost, DropCall, GiveUp, WorkerCrash, CreateFails,
           RemoveDirectoryFails, PurgeFails, UnlinkFails, dbVars
  <1> QED  BY <1>15, <1>16, <1>17, <1>18, <1>19, <1>20 DEF Next

(* An upload reaches its keys only by saving them.                          *)
LEMMA KeyedStep ==
    ASSUME IInv, Next, NEW i \in Jobs, creating'[i] \in {"keyed", "enqueued"}
    PROVE  creating[i] \in {"keyed", "enqueued"} \/ SaveKeys(i)
  <1> DEFINE Goal == creating[i] \in {"keyed", "enqueued"} \/ SaveKeys(i)
  <1> SUFFICES Goal  OBVIOUS
  <1>1. creating \in [Jobs -> {"new", "inserted", "gotInput", "gotAll",
                               "keyed", "enqueued", "aborted"}]
    BY DEF IInv, TypeOK
  <1>2. CASE UNCHANGED creating
    BY <1>2
  <1>3. ASSUME NEW j \in Jobs, NEW x, creating' = [creating EXCEPT ![j] = x],
               x \notin {"keyed", "enqueued"} \/ creating[j] \in {"keyed", "enqueued"}
                  \/ SaveKeys(j)
        PROVE  Goal
    BY <1>1, <1>3
  <1>4. ASSUME NEW j \in Jobs, Create(j) \/ CreateFails(j)  PROVE Goal
    <2>1. CASE InsertRow(j) \/ SaveAux(j) \/ CreateFails(j)
      BY <1>3, <2>1 DEF InsertRow, SaveAux, CreateFails
    <2>2. CASE SaveInput(j)
      BY <1>3, <2>2 DEF SaveInput
    <2>3. CASE SaveKeys(j)
      <3>1. creating' = [creating EXCEPT ![j] = "keyed"]
        BY <2>3 DEF SaveKeys
      <3> QED  BY <1>3, <2>3, <3>1
    <2>4. CASE Enqueue(j)
      <3>1. creating' = [creating EXCEPT ![j] = "enqueued"] /\ creating[j] = "keyed"
        BY <2>4 DEF Enqueue
      <3> QED  BY <1>3, <3>1
    <2>5. CASE Resend(j)
      BY <1>2, <2>5 DEF Resend
    <2> QED  BY <1>4, <2>1, <2>2, <2>3, <2>4, <2>5 DEF Create
  <1>5. ASSUME NEW j \in Jobs,
               \/ Remove(j) \/ Age(j) \/ PurgeDirectory(j)
               \/ RemoveDirectoryFails(j) \/ PurgeFails(j)
        PROVE  Goal
    BY <1>2, <1>5
       DEF Remove, FindForRemoval, RemoveJobDirectory, RemoveRow, Age,
           PurgeDirectory, RemoveDirectoryFails, PurgeFails
  <1>6. ASSUME NEW m \in Payloads, Handle(m) \/ \E c \in {Done, Fail} : UnlinkFails(m, c)
        PROVE  Goal
    BY <1>2, <1>6
       DEF Handle, MarkProcessing, LoadForProgress, WriteProgress, CompleteJob,
           LoadForComplete, UpdateCompleted, DeleteInputArtifact, ClearInputKey,
           UnlinkFails
  <1>7. ASSUME NEW w \in Workers,
               Work(w) \/ PopLost(w) \/ DropCall(w) \/ GiveUp(w) \/ WorkerCrash(w)
        PROVE  Goal
    BY <1>2, <1>7
       DEF Work, Pop, PopLost, Return, EnsureParent, OpenInput, SendReport, WriteOutput,
           RunFails, FinishRun, DropCall, GiveUp, WorkerCrash
  <1>8. CASE PurgeFind \/ PurgeKeys
    BY <1>2, <1>8 DEF PurgeFind, PurgeKeys
  <1>9. CASE ApiCrash
    <2>1. creating'[i] = IF creating[i] \in {"new", "enqueued"} THEN creating[i] ELSE "aborted"
      BY <1>9 DEF ApiCrash
    <2> QED  BY <2>1
  <1> QED  BY <1>4, <1>5, <1>7, <1>8, <1>9, <1>6 DEF Next, Purge, Fault

(* The sweep turns to a job by emptying its directory.                      *)
LEMMA PurgingStep ==
    ASSUME Next, NEW i \in Jobs, purging' = i
    PROVE  purging = i \/ PurgeDirectory(i)
  <1> USE DEF cleanVars
  <1>1. purging' # NoJob
    BY JobFacts
  <1>2. ASSUME NEW j \in Jobs, Create(j) \/ CreateFails(j) \/ Age(j)  PROVE UNCHANGED purging
    BY <1>2 DEF Create, InsertRow, SaveInput, SaveAux, SaveKeys, Enqueue, Resend,
                CreateFails, Age
  <1>3. ASSUME NEW m \in Payloads, Handle(m) \/ \E c \in {Done, Fail} : UnlinkFails(m, c)
        PROVE  UNCHANGED purging
    BY <1>3 DEF Handle, MarkProcessing, LoadForProgress, WriteProgress, CompleteJob,
                LoadForComplete, UpdateCompleted, DeleteInputArtifact, ClearInputKey,
                UnlinkFails
  <1>4. ASSUME NEW j \in Jobs, Remove(j) \/ RemoveDirectoryFails(j) \/ PurgeFails(j)
        PROVE  UNCHANGED purging
    BY <1>4 DEF Remove, FindForRemoval, RemoveJobDirectory, RemoveRow,
                RemoveDirectoryFails, PurgeFails
  <1>5. ASSUME NEW w \in Workers,
               Work(w) \/ PopLost(w) \/ DropCall(w) \/ GiveUp(w) \/ WorkerCrash(w)
        PROVE  UNCHANGED purging
    BY <1>5
       DEF Work, Pop, PopLost, Return, EnsureParent, OpenInput, SendReport, WriteOutput,
           RunFails, FinishRun, DropCall, GiveUp, WorkerCrash
  <1>6. ASSUME NEW j \in Jobs, PurgeDirectory(j)  PROVE j = i
    BY <1>6 DEF PurgeDirectory
  <1>7. PurgeFind => UNCHANGED purging
    BY DEF PurgeFind
  <1>8. ~PurgeKeys /\ ~ApiCrash
    BY <1>1 DEF PurgeKeys, ApiCrash
  <1> QED  BY <1>2, <1>3, <1>4, <1>5, <1>6, <1>7, <1>8 DEF Next, Purge, Fault

(* Each step of the sweep, and of everyone beside it, preserves its         *)
(* invariant.                                                               *)
LEMMA SweepStep ==
    ASSUME IInv, ReportedInv, SweepInv, Next  PROVE SweepInv'
  <1> USE CallFacts, JobFacts
  <1>0. Once' \subseteq Once
    <2> SUFFICES ASSUME NEW i \in Once' PROVE i \in Once
      OBVIOUS
    <2>1. i \in Payloads
      BY DEF Once
    <2> QED  BY <2>1, ListStep
  <1>1. ASSUME NEW i \in Once, purging = i
        PROVE  Retired(i) /\ files[i] = {}
    BY <1>1 DEF IInv, RetiredInv, SweepInv
  <1>2. ASSUME NEW i \in Once, Retired(i), files[i] = {}
        PROVE  Retired(i)' /\ files'[i] = {}
    <2>1. Retired(i)' /\ files'[i] \subseteq files[i]
      BY <1>2, RetiredStays
    <2> QED  BY <1>2, <2>1
  <1>3. ASSUME NEW i \in Once, purging' = i  PROVE files'[i] = {}
    <2>1. CASE purging = i
      BY <1>1, <1>2, <2>1
    <2>2. CASE PurgeDirectory(i)
      <3>1. files' = [files EXCEPT ![i] = {}] /\ files \in [Jobs -> SUBSET Files]
        BY <2>2 DEF PurgeDirectory, IInv, TypeOK
      <3> QED  BY <3>1
    <2> QED  BY <1>3, <2>1, <2>2, PurgingStep
  <1>4. ASSUME NEW i \in Once, Exists(i)', ~row'[i].outputKey
        PROVE  \/ Retired(i)' /\ files'[i] = {}
               \/ creating'[i] \notin {"keyed", "enqueued"} /\ row'[i].status \notin Terminal
    <2>1. CASE PurgeKeys /\ purging = i
      BY <1>1, <1>2, <2>1
    <2>2. CASE InsertRow(i)
      <3>1. creating'[i] = "inserted" /\ row'[i] = Pending
        BY <2>2 DEF InsertRow, IInv, TypeOK
      <3> QED  BY <3>1, PendingFacts DEF Terminal
    <2>3. ASSUME Exists(i), ~row[i].outputKey,
                 creating[i] \notin {"keyed", "enqueued"}, row[i].status \notin Terminal
          PROVE  creating'[i] \notin {"keyed", "enqueued"} /\ row'[i].status \notin Terminal
      <3>1. ~SaveKeys(i)
        <4> SUFFICES ASSUME SaveKeys(i) PROVE FALSE
          OBVIOUS
        <4>1. row \in [Jobs -> Row] /\ row[i] \in Row
          BY DEF IInv, TypeOK
        <4>2. row'[i] = [row[i] EXCEPT !.inputKey = TRUE, !.outputKey = TRUE]
          BY <2>3, <4>1 DEF SaveKeys
        <4> QED  BY <1>4, <4>1, <4>2 DEF Row
      <3>2. creating'[i] \notin {"keyed", "enqueued"}
        BY <2>3, <3>1, KeyedStep
      <3>3. Unserved(i)
        <4>1. i \in Payloads /\ ~Pushed(i)
          BY <2>3, MediaJobAssumption DEF Pushed, IInv, TypeOK
        <4> QED  BY <4>1 DEF IInv, CopyInv, Unserved
      <3>4. ~Completed(i) /\ ~Failed(i)
        <4>1. ASSUME NEW m \in PayloadsOf(i), NEW c \in {Done, Fail}, UpdateCompleted(m, c)
              PROVE  FALSE
          <5>1. m \in Payloads /\ JobOf(m) = i /\ ~Unsent(m, c)
            BY <4>1 DEF PayloadsOf, UpdateCompleted, Unsent
          <5>2. m = i
            BY <5>1, PushedFacts, OwnPayload
          <5> QED  BY <3>3, <5>1, <5>2 DEF Unserved
        <4> QED  BY <4>1 DEF Completed, Failed
      <3>5. StatusKept(i) \/ Inserted(i) \/ Started(i) \/ Removed(i)
        BY <3>4, RowStep DEF RowMoves
      <3>6. row'[i].status \in {row[i].status, "pending", "processing", "absent"}
        BY <3>5 DEF StatusKept, Inserted, Started, Removed
      <3> QED  BY <2>3, <3>2, <3>6 DEF Terminal
    <2>4. CASE Exists(i) /\ ~row[i].outputKey
      <3>1. \/ Retired(i) /\ files[i] = {}
            \/ creating[i] \notin {"keyed", "enqueued"} /\ row[i].status \notin Terminal
        BY <2>4 DEF SweepInv, Exists
      <3> QED  BY <1>2, <2>3, <2>4, <3>1
    <2> QED  BY <1>4, <2>1, <2>2, <2>4, KeysStep
  <1> QED  BY <1>0, <1>3, <1>4 DEF SweepInv, Exists

(* Whatever breaks off in between, a settled job that the sweep will not    *)
(* find again has an empty directory: rm comes before the UPDATE that takes *)
(* the job out of the sweep's query, and no worker writes after the report, *)
(* unless the job's LPUSH was repeated and it is run a second time.         *)
THEOREM SweptAway == Spec => []SweptClean
  <1>1. ASSUME Init  PROVE SweepInv
    BY <1>1, JobFacts DEF Init, SweepInv, Absent
  <1>2. ASSUME SweepInv, UNCHANGED vars  PROVE SweepInv'
    BY <1>2, OnceStays, JobFacts
       DEF vars, dbVars, deliveryVars, workerVars, cleanVars, SweepInv, Retired, Unserved,
           Unsent, HeldBy
  <1>3. IInv /\ HandInv /\ SweepInv /\ [Next]_vars => SweepInv'
    BY <1>2, SweepStep DEF HandInv
  <1>4. SweepInv => SweptClean
    BY JobFacts DEF SweepInv, SweptClean, Terminal
  <1> QED  BY <1>1, <1>3, <1>4, HandSteps, PTL DEF Spec
=============================================================================
