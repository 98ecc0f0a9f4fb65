------------------------- MODULE PublishResultProofs -------------------------
(* The safety of PublishResult for any number of batches, keys, drafts,     *)
(* accounts, bodies and concurrent requests.                                *)
EXTENDS PublishResult, FiniteSetTheorems, TLAPS

(* The number of tasks of a body is a number.                               *)
LEMMA TasksType == ASSUME NEW p \in Payload PROVE Tasks(p) \in Nat
<1>1. ItemAccounts(p) \subseteq Accounts
  BY DEF ItemAccounts, Having
<1>2. IsFiniteSet(ItemAccounts(p))
  BY <1>1, FS_Subset, PublishResultAssumption
<1> QED
  BY <1>2, FS_CardinalityType DEF Tasks

(* No body is a body of the type, ...                                         *)
LEMMA NoBodyType == NoBody \in Payload
  BY DEF NoBody, Payload, Statuses, Items, NoItems

(* ... and a request at rest has the type of one.                             *)
LEMMA IdleType == Idle \in RequestStates
  BY NoBodyType DEF Idle, RequestStates, Answers

(* Before anything is reported, all holds.                                    *)
LEMMA InitResult == Init => ResultInv
<1> SUFFICES ASSUME Init PROVE ResultInv
  OBVIOUS
<1>1. NoBatch \in Rows
  BY DEF NoBatch, Rows, Statuses, Items, NoItems
<1>2. ItemAccounts(NoBatch) = {}
  BY DEF ItemAccounts, Having, NoBatch, NoItems
<1>3. NoBatch.draft = None /\ NoBatch.saved = FALSE
  BY DEF NoBatch
<1>4. Idle.at = "idle" /\ Idle.answer = "none"
  BY DEF Idle
<1>5. TypeOK
  BY <1>1, <1>2, <1>3, IdleType, NoBodyType DEF Init, TypeOK
<1>6. CrowdInv /\ SoundInv
  BY <1>4 DEF Init, CrowdInv, SoundInv, Sound, Busy, At
<1>7. StoredInv
  BY <1>3 DEF Init, StoredInv, Saved
<1>8. PublishedTogether
  BY <1>3, PublishResultAssumption DEF Init, PublishedTogether
<1> QED
  BY <1>5, <1>6, <1>7, <1>8 DEF ResultInv

(* What Becomes does to the requests.                                       *)
LEMMA BecomesFacts ==
  ASSUME req \in [Requests -> RequestStates],
         NEW q \in Requests, NEW r \in RequestStates, Becomes(q, r)
  PROVE  /\ req' \in [Requests -> RequestStates]
         /\ req'[q] = r
         /\ \A o \in Requests : o # q => req'[o] = req[o]
  BY DEF Becomes

(* A request moves and the rows stay.  Sound(r) and the new crowded keys are *)
(* all there is to show.                                                    *)
LEMMA RequestMoves ==
  ASSUME ResultInv, NEW q \in Requests, NEW r \in RequestStates, Becomes(q, r), Sound(r),
         UNCHANGED <<draft, account, batch, origin, changed, reverted>>,
         crowded \subseteq crowded', crowded' \subseteq Keys,
         r.at # "idle" /\ r.key # None =>
            \A o \in Requests : o # q /\ Busy(o) /\ req[o].key = r.key => r.key \in crowded'
  PROVE  ResultInv'
<1> USE DEF ResultInv
<1>1. /\ req' \in [Requests -> RequestStates]
      /\ req'[q] = r
      /\ \A o \in Requests : o # q => req'[o] = req[o]
  BY BecomesFacts DEF TypeOK
<1>2. TypeOK'
  BY <1>1 DEF TypeOK, Exists, ItemAccounts, Having
<1>3. CrowdInv'
  BY <1>1 DEF CrowdInv, Busy, At
<1>4. StoredInv'
  BY DEF StoredInv, Saved, Tasks, ItemAccounts, Having
<1>5. ASSUME NEW s, Sound(s) PROVE Sound(s)'
  BY <1>5 DEF Sound, Saved, Existing
<1>6. SoundInv'
  BY <1>1, <1>5 DEF SoundInv
<1>7. PublishedTogether'
  BY DEF PublishedTogether, Exists
<1> QED
  BY <1>2, <1>3, <1>4, <1>6, <1>7

(* A request that is over and remembers nothing is sound.                   *)
LEMMA OverIsSound ==
  ASSUME NEW a \in {"none", "created", "refused", "dangling"}
  PROVE  LET r == [Idle EXCEPT !.answer = a]
         IN  r \in RequestStates /\ r.at = "idle" /\ Sound(r)
<1>1. [Idle EXCEPT !.answer = a] \in RequestStates
  BY IdleType DEF RequestStates, Answers
<1>2. [Idle EXCEPT !.answer = a].at = "idle" /\ [Idle EXCEPT !.answer = a].answer = a
  BY DEF Idle
<1> QED
  BY <1>1, <1>2 DEF Sound

(* A request that ends with an answer that names no batch.                    *)
LEMMA EndsSafe ==
  ASSUME ResultInv, NEW q \in Requests, NEW a \in {"none", "created", "refused", "dangling"},
         Ends(q, a), UNCHANGED <<draft, account, batch, origin, history>>
  PROVE  ResultInv'
<1>1. PICK r : r = [Idle EXCEPT !.answer = a]
  OBVIOUS
<1>2. r \in RequestStates /\ r.at = "idle" /\ Sound(r)
  BY <1>1, OverIsSound
<1>3. Becomes(q, r)
  BY <1>1 DEF Ends
<1> QED
  BY <1>2, <1>3, RequestMoves DEF history, ResultInv, TypeOK

(* A submit makes its key crowded when another request has it.                *)
LEMMA SubmitSafe ==
  ASSUME ResultInv, NEW q \in Requests, NEW k \in Keys \cup {None}, NEW p \in Bodies,
         Submit(q, k, p)
  PROVE  ResultInv'
<1>1. p \in Payload
  BY PublishResultAssumption
<1>2. PICK r : r = IF p.draft = None \/ Exists(p.draft)
                   THEN [Idle EXCEPT !.key = k, !.body = p, !.at = "accounts"]
                   ELSE [Idle EXCEPT !.answer = "refused"]
  OBVIOUS
<1>3. Becomes(q, r)
  BY <1>2 DEF Submit
<1>4. r \in RequestStates
  BY <1>1, <1>2, IdleType, OverIsSound DEF RequestStates, Steps
<1>5. Sound(r) /\ (r.at # "idle" => r.key = k)
  BY <1>2, OverIsSound DEF Sound, Idle
<1>6. crowded \subseteq crowded' /\ crowded' \subseteq Keys
  BY PublishResultAssumption DEF Submit, ResultInv, TypeOK
<1>7. r.at # "idle" /\ r.key # None =>
        \A o \in Requests : o # q /\ Busy(o) /\ req[o].key = r.key => r.key \in crowded'
  BY <1>5 DEF Submit, Busy
<1>8. UNCHANGED <<draft, account, batch, origin, changed, reverted>>
  BY DEF Submit
<1> QED
  BY <1>3, <1>4, <1>5, <1>6, <1>7, <1>8, RequestMoves

(* A busy request goes on with the key it has.                              *)
LEMMA BusyMoves ==
  ASSUME ResultInv, NEW q \in Requests, NEW r \in RequestStates, Becomes(q, r), Sound(r),
         Busy(q), r.at = "idle" \/ r.key = req[q].key,
         UNCHANGED <<draft, account, batch, origin, history>>
  PROVE  ResultInv'
<1>1. r.at # "idle" /\ r.key # None =>
        \A o \in Requests : o # q /\ Busy(o) /\ req[o].key = r.key => r.key \in crowded'
  BY DEF ResultInv, CrowdInv, history
<1> QED
  BY <1>1, RequestMoves DEF history, ResultInv, TypeOK

(* Looking for the accounts writes nothing.                                   *)
LEMMA CheckAccountsSafe ==
  ASSUME ResultInv, NEW q \in Requests, CheckAccounts(q)
  PROVE  ResultInv'
<1>1. CASE Ends(q, "refused")
  BY <1>1, EndsSafe DEF CheckAccounts
<1>2. CASE Moves(q, "lookup")
  <2>1. PICK r : r = [req[q] EXCEPT !.at = "lookup"]
    OBVIOUS
  <2>2. req[q] \in RequestStates /\ Sound(req[q]) /\ req[q].at = "accounts"
    BY DEF ResultInv, TypeOK, SoundInv, CheckAccounts, At
  <2>3. r \in RequestStates /\ r.at = "lookup" /\ r.key = req[q].key /\ r.answer = req[q].answer
    BY <2>1, <2>2 DEF RequestStates, Steps
  <2>4. Sound(r)
    BY <2>2, <2>3 DEF Sound
  <2>5. Becomes(q, r)
    BY <1>2, <2>1 DEF Moves
  <2> QED
    BY <2>2, <2>3, <2>4, <2>5, BusyMoves DEF CheckAccounts, Busy, At
<1> QED
  BY <1>1, <1>2 DEF CheckAccounts

(* A batch that is found has the draft that the request sees, and one that is not *)
(* found is not there.                                                        *)
LEMMA LookupSafe ==
  ASSUME ResultInv, NEW q \in Requests, Lookup(q)
  PROVE  ResultInv'
<1>1. req[q] \in RequestStates /\ Sound(req[q]) /\ req[q].at = "lookup"
  BY DEF ResultInv, TypeOK, SoundInv, Lookup, At
<1>2. CASE Existing(req[q].key) = {} /\ Moves(q, "persisting")
  <2>1. PICK r : r = [req[q] EXCEPT !.at = "persisting"]
    OBVIOUS
  <2>2. /\ r \in RequestStates /\ r.at = "persisting"
        /\ r.key = req[q].key /\ r.answer = req[q].answer
    BY <1>1, <2>1 DEF RequestStates, Steps
  <2>3. Sound(r)
    BY <1>1, <1>2, <2>2 DEF Sound
  <2>4. Becomes(q, r)
    BY <1>2, <2>1 DEF Moves
  <2> QED
    BY <1>1, <2>2, <2>3, <2>4, BusyMoves DEF Lookup, Busy, At
<1>3. ASSUME NEW b \in Existing(req[q].key),
             Becomes(q, [req[q] EXCEPT !.at = "comparing", !.found = b, !.seen = batch[b].draft])
      PROVE  ResultInv'
  <2>1. PICK r : r = [req[q] EXCEPT !.at = "comparing", !.found = b, !.seen = batch[b].draft]
    OBVIOUS
  <2>2. b \in Batches /\ Saved(b) /\ batch[b].draft \in Drafts \cup {None}
    BY DEF Existing, ResultInv, TypeOK, Rows
  <2>3. /\ r \in RequestStates /\ r.at = "comparing" /\ r.found = b
        /\ r.seen = batch[b].draft /\ r.key = req[q].key /\ r.answer = req[q].answer
    BY <1>1, <2>1, <2>2 DEF RequestStates, Steps
  <2>4. Sound(r)
    BY <1>1, <2>2, <2>3 DEF Sound
  <2>5. Becomes(q, r)
    BY <1>3, <2>1
  <2> QED
    BY <1>1, <2>3, <2>4, <2>5, BusyMoves DEF Lookup, Busy, At
<1> QED
  BY <1>2, <1>3 DEF Lookup

(* The comparison: what is the same as a batch nobody changed is what the   *)
(* batch was created from, and what differs from it in a canonical text is  *)
(* not.                                                                     *)
LEMMA CompareSafe ==
  ASSUME ResultInv, NEW q \in Requests, Compare(q)
  PROVE  ResultInv'
<1>1. req[q] \in RequestStates /\ Sound(req[q]) /\ req[q].at = "comparing"
  BY DEF ResultInv, TypeOK, SoundInv, Compare, At
<1>2. PICK a : a = IF Same(req[q]) THEN "replayed" ELSE "conflict"
  OBVIOUS
<1>3. PICK r : r = [req[q] EXCEPT !.at = "idle", !.seen = None, !.answer = a]
  OBVIOUS
<1>4. /\ r \in RequestStates /\ r.at = "idle" /\ r.found = req[q].found
      /\ r.answer = a /\ r.body = req[q].body
  BY <1>1, <1>2, <1>3 DEF RequestStates, Answers
<1>5. req[q].found \in Batches /\ Saved(req[q].found) /\ req[q].body \in Payload
  BY <1>1 DEF Sound, RequestStates
<1>6. origin[req[q].found] \in Payload
  BY <1>5 DEF ResultInv, TypeOK
<1>7. req[q].found \notin changed =>
        /\ req[q].seen = origin[req[q].found].draft
        /\ batch[req[q].found].status = origin[req[q].found].status
        /\ batch[req[q].found].items = origin[req[q].found].items
        /\ batch[req[q].found].tasks = Tasks(origin[req[q].found])
  BY <1>1, <1>5 DEF Sound, ResultInv, StoredInv
<1>8. req[q].found \notin changed /\ Same(req[q]) =>
        Canon(req[q].body) = Canon(origin[req[q].found])
  BY <1>5, <1>6, <1>7 DEF Same, Incoming, Compared, Canon, Payload
<1>9. req[q].found \notin changed /\ ~Same(req[q]) =>
        req[q].body # origin[req[q].found] \/ ~req[q].body.canonical
  BY <1>5, <1>7 DEF Same, Incoming, Compared, Payload
<1>10. Sound(r)
  BY <1>2, <1>4, <1>5, <1>8, <1>9 DEF Sound
<1>11. Becomes(q, r)
  BY <1>2, <1>3 DEF Compare, Answer
<1> QED
  BY <1>1, <1>4, <1>10, <1>11, BusyMoves DEF Compare, Busy, At

(* The unique index refuses a batch that appeared since the look for it: its key *)
(* is crowded.                                                                *)
LEMMA PersistFailsSafe ==
  ASSUME ResultInv, NEW q \in Requests, PersistFails(q)
  PROVE  ResultInv'
<1>1. req[q] \in RequestStates /\ Sound(req[q]) /\ req[q].at = "persisting"
  BY DEF ResultInv, TypeOK, SoundInv, PersistFails, At
<1>2. CASE Existing(req[q].key) # {} /\ Answer(q, "duplicate")
  <2>1. PICK r : r = [req[q] EXCEPT !.at = "idle", !.seen = None, !.answer = "duplicate"]
    OBVIOUS
  <2>2. r \in RequestStates /\ r.at = "idle" /\ r.answer = "duplicate" /\ r.key = req[q].key
    BY <1>1, <2>1 DEF RequestStates, Answers
  <2>3. Sound(r)
    BY <1>1, <1>2, <2>2 DEF Sound
  <2>4. Becomes(q, r)
    BY <1>2, <2>1 DEF Answer
  <2> QED
    BY <1>1, <2>2, <2>3, <2>4, BusyMoves DEF PersistFails, Busy, At
<1>3. CASE Ends(q, "dangling")
  BY <1>3, EndsSafe DEF PersistFails
<1> QED
  BY <1>2, <1>3 DEF PersistFails

(* The transaction.  Another request of its key that is about to persist    *)
(* makes the key a crowded one.                                             *)
LEMMA PersistSafe ==
  ASSUME ResultInv, NEW q \in Requests, NEW b \in Batches, Persist(q, b)
  PROVE  ResultInv'
<1> USE DEF ResultInv
<1>1. req[q] \in RequestStates /\ Sound(req[q]) /\ req[q].at = "persisting"
  BY DEF TypeOK, SoundInv, Persist, At
<1>2. PICK p : p = req[q].body
  OBVIOUS
<1>3. p \in Payload /\ Tasks(p) \in Nat
  BY <1>1, <1>2, TasksType DEF RequestStates
<1>4. PICK x : x = [key |-> req[q].key, draft |-> p.draft, status |-> p.status,
                    tasks |-> Tasks(p), items |-> p.items, saved |-> TRUE]
  OBVIOUS
<1>5. /\ x \in Rows /\ x.key = req[q].key /\ x.draft = p.draft /\ x.status = p.status
      /\ x.items = p.items /\ x.tasks = Tasks(p) /\ x.saved
  BY <1>1, <1>3, <1>4 DEF Rows, Payload, RequestStates
<1>6. /\ batch' = [batch EXCEPT ![b] = x] /\ draft' = Published(p)
      /\ origin' = [origin EXCEPT ![b] = p]
      /\ ~Saved(b) /\ Existing(req[q].key) = {} /\ Refers(p)
      /\ account' = account /\ changed' = changed /\ crowded' = crowded /\ reverted' = reverted
  BY <1>2, <1>4 DEF Persist, history
<1>7. PICK r : r = [Idle EXCEPT !.answer = "created"]
  OBVIOUS
<1>8. r \in RequestStates /\ r.at = "idle" /\ r.answer = "created"
  BY <1>7, OverIsSound DEF Idle
<1>9. /\ req' \in [Requests -> RequestStates] /\ req'[q] = r
      /\ \A o \in Requests : o # q => req'[o] = req[o]
  <2>1. Becomes(q, r)
    BY <1>7 DEF Persist, Ends
  <2> QED
    BY <1>8, <2>1, BecomesFacts DEF TypeOK
<1>10. /\ batch' \in [Batches -> Rows] /\ batch'[b] = x
       /\ \A c \in Batches : c # b => batch'[c] = batch[c]
  BY <1>5, <1>6 DEF TypeOK
<1>11. /\ origin' \in [Batches -> Payload] /\ origin'[b] = p
       /\ \A c \in Batches : c # b => origin'[c] = origin[c]
  BY <1>3, <1>6 DEF TypeOK
<1>12. /\ draft' \in [Drafts -> {"draft", "published", "gone"}]
       /\ \A d \in Drafts : draft'[d] = "gone" <=> draft[d] = "gone"
       /\ \A d \in Drafts : draft'[d] = IF d = p.draft /\ p.status = "success"
                                     THEN "published" ELSE draft[d]
  BY <1>6, PublishResultAssumption DEF Published, TypeOK, Refers, Exists
<1>13. TypeOK'
  <2>1. ItemAccounts(x) \subseteq account /\ (x.draft # None => Exists(x.draft))
    BY <1>5, <1>6 DEF Refers, ItemAccounts, Having
  <2>2. \A c \in Batches : ItemAccounts(batch'[c]) \subseteq account
    BY <1>10, <2>1 DEF TypeOK
  <2>3. \A c \in Batches : batch'[c].draft # None => draft'[batch'[c].draft] # "gone"
    BY <1>10, <1>12, <2>1 DEF TypeOK, Exists, Rows
  <2> QED
    BY <1>6, <1>9, <1>10, <1>11, <1>12, <2>2, <2>3 DEF TypeOK, Exists
<1>14. CrowdInv'
  BY <1>6, <1>8, <1>9 DEF CrowdInv, Busy, At
<1>15. StoredInv'
  BY <1>5, <1>6, <1>10, <1>11 DEF StoredInv, Saved
<1>16. SoundInv'
  <2>1. Sound(r)'
    BY <1>8 DEF Sound
  <2>2. ASSUME NEW o \in Requests, o # q PROVE Sound(req[o])'
    <3>1. Sound(req[o]) /\ req'[o] = req[o]
      BY <1>9, <2>2 DEF SoundInv
    <3>2. req[o].at = "persisting" => Existing(req[o].key)' = {} \/ req[o].key \in crowded'
      BY <1>1, <1>5, <1>6, <1>10, <2>2, <3>1 DEF Sound, Existing, Saved, CrowdInv, Busy, At
    <3>3. \A c \in Batches : Saved(c) => batch'[c] = batch[c] /\ origin'[c] = origin[c]
      BY <1>6, <1>10, <1>11
    <3> QED
      BY <1>6, <3>1, <3>2, <3>3 DEF Sound, Saved
  <2> QED
    BY <1>9, <2>1, <2>2 DEF SoundInv
<1>17. PublishedTogether'
  BY <1>5, <1>6, <1>10, <1>12, PublishResultAssumption
     DEF PublishedTogether, Exists, StoredInv
<1> QED
  BY <1>13, <1>14, <1>15, <1>16, <1>17

(* The rows of batches change in what another service takes from them.      *)
LEMMA OthersMove ==
  ASSUME ResultInv, UNCHANGED <<req, origin, crowded>>, changed \subseteq changed',
         \A b \in Batches :
            /\ batch'[b].saved = batch[b].saved /\ batch'[b].key = batch[b].key
            /\ b \notin changed' => batch'[b] = batch[b]
            /\ batch'[b].draft \in {batch[b].draft, None}
  PROVE  CrowdInv' /\ StoredInv' /\ SoundInv'
<1>1. CrowdInv'
  BY DEF ResultInv, CrowdInv, Busy, At
<1>2. StoredInv'
  <2>1. StoredInv
    BY DEF ResultInv
  <2>2. ASSUME NEW b \in Batches, ~Saved(b)' PROVE batch'[b].draft = None
    BY <2>1, <2>2 DEF StoredInv, Saved
  <2>3. ASSUME NEW b \in Batches, Saved(b)', b \notin changed'
        PROVE  Saved(b) /\ b \notin changed /\ batch'[b] = batch[b]
    BY <2>3 DEF Saved
  <2> QED
    BY <2>1, <2>2, <2>3 DEF StoredInv
<1>3. \A b \in Batches : Saved(b)' <=> Saved(b)
  BY DEF Saved
<1>4. ASSUME NEW k PROVE Existing(k)' = Existing(k)
  <2>1. \A b \in Batches : (batch'[b].key = k) <=> (batch[b].key = k)
    OBVIOUS
  <2> QED
    BY <1>3, <2>1 DEF Existing
<1>5. ASSUME NEW r, Sound(r) PROVE Sound(r)'
  <2>1. r.at = "comparing" /\ r.found \notin changed' => r.seen = batch'[r.found].draft
    BY <1>5 DEF Sound
  <2>2. Existing(r.key)' = Existing(r.key)
    BY <1>4
  <2>3. r.found \in Batches => (Saved(r.found)' <=> Saved(r.found))
    BY <1>3
  <2> QED
    BY <1>5, <2>1, <2>2, <2>3 DEF Sound
<1>6. SoundInv'
  BY <1>5 DEF ResultInv, SoundInv
<1> QED
  BY <1>1, <1>2, <1>6

(* A batch that loses its draft is changed, ...                               *)
LEMMA RemoveDraftSafe ==
  ASSUME ResultInv, NEW d \in Drafts, RemoveDraft(d)
  PROVE  ResultInv'
<1> USE DEF ResultInv
<1>1. \A b \in Batches : batch'[b] = IF batch[b].draft = d
                                   THEN [batch[b] EXCEPT !.draft = None] ELSE batch[b]
  BY DEF RemoveDraft
<1>2. \A b \in Batches : batch[b] \in Rows
  BY DEF TypeOK
<1>3. \A b \in Batches :
        /\ batch'[b] \in Rows
        /\ batch'[b].saved = batch[b].saved /\ batch'[b].key = batch[b].key
        /\ batch'[b].status = batch[b].status /\ batch'[b].items = batch[b].items
        /\ batch'[b].draft = IF batch[b].draft = d THEN None ELSE batch[b].draft
        /\ batch[b].draft # d => batch'[b] = batch[b]
  BY <1>1, <1>2 DEF Rows
<1>4. CrowdInv' /\ StoredInv' /\ SoundInv'
  BY <1>3, OthersMove DEF RemoveDraft
<1>5. TypeOK'
  <2>1. batch' \in [Batches -> Rows]
    BY <1>3 DEF RemoveDraft
  <2>2. \A b \in Batches : ItemAccounts(batch'[b]) = ItemAccounts(batch[b])
    BY <1>3 DEF ItemAccounts, Having
  <2>3. /\ draft' \in [Drafts -> {"draft", "published", "gone"}]
        /\ \A e \in Drafts : draft'[e] = IF e = d THEN "gone" ELSE draft[e]
    BY DEF RemoveDraft, TypeOK
  <2>4. \A b \in Batches : batch'[b].draft # None => draft'[batch'[b].draft] # "gone"
    BY <1>2, <1>3, <2>3 DEF TypeOK, Exists, Rows
  <2> QED
    BY <2>1, <2>2, <2>3, <2>4 DEF RemoveDraft, TypeOK, Exists
<1>6. PublishedTogether'
  BY <1>3, PublishResultAssumption DEF PublishedTogether, Exists, RemoveDraft, TypeOK
<1> QED
  BY <1>4, <1>5, <1>6

(* ... a draft whose status a save takes back is reverted, ...                *)
LEMMA RestoreDraftSafe ==
  ASSUME ResultInv, NEW d \in Drafts, RestoreDraft(d)
  PROVE  ResultInv'
<1> USE DEF ResultInv
<1>1. CrowdInv' /\ StoredInv' /\ SoundInv'
  BY OthersMove DEF RestoreDraft
<1>2. TypeOK'
  BY DEF RestoreDraft, TypeOK, Exists, ItemAccounts, Having
<1>3. PublishedTogether'
  BY DEF PublishedTogether, Exists, RestoreDraft, TypeOK
<1> QED
  BY <1>1, <1>2, <1>3

(* ... and a batch that loses an item is changed.                             *)
LEMMA UnbindSafe ==
  ASSUME ResultInv, NEW a \in Accounts, Unbind(a)
  PROVE  ResultInv'
<1> USE DEF ResultInv
<1>1. \A b \in Batches : batch'[b] = [batch[b] EXCEPT !.items[a] = "none"]
  BY DEF Unbind, Cascaded
<1>2. \A b \in Batches : batch[b] \in Rows
  BY DEF TypeOK
<1>3. \A b \in Batches :
        /\ batch'[b] \in Rows
        /\ batch'[b].saved = batch[b].saved /\ batch'[b].key = batch[b].key
        /\ batch'[b].status = batch[b].status /\ batch'[b].draft = batch[b].draft
        /\ batch'[b].items = [batch[b].items EXCEPT ![a] = "none"]
  <2> SUFFICES ASSUME NEW b \in Batches
               PROVE  /\ batch'[b] \in Rows
                      /\ batch'[b].saved = batch[b].saved /\ batch'[b].key = batch[b].key
                      /\ batch'[b].status = batch[b].status /\ batch'[b].draft = batch[b].draft
                      /\ batch'[b].items = [batch[b].items EXCEPT ![a] = "none"]
    OBVIOUS
  <2>1. PICK row : row = batch[b]
    OBVIOUS
  <2>2. PICK items : items = [row.items EXCEPT ![a] = "none"]
    OBVIOUS
  <2>3. row \in Rows /\ items \in Items
    BY <1>2, <2>1, <2>2 DEF Rows, Items
  <2>4. batch'[b] = [row EXCEPT !.items = items]
    BY <1>1, <2>1, <2>2, <2>3 DEF Rows
  <2> QED
    BY <2>1, <2>2, <2>3, <2>4 DEF Rows
<1>4. \A b \in Batches : a \notin ItemAccounts(batch[b]) => batch'[b] = batch[b]
  <2> SUFFICES ASSUME NEW b \in Batches, a \notin ItemAccounts(batch[b])
               PROVE  batch'[b] = batch[b]
    OBVIOUS
  <2>1. batch[b].items \in Items /\ batch[b].items[a] = "none"
    BY <1>2 DEF Rows, Items, ItemAccounts, Having
  <2>2. [batch[b].items EXCEPT ![a] = "none"] = batch[b].items
    BY <2>1 DEF Items
  <2> QED
    BY <1>1, <1>2, <2>2 DEF Rows
<1>5. CrowdInv' /\ StoredInv' /\ SoundInv'
  BY <1>3, <1>4, OthersMove DEF Unbind
<1>6. TypeOK'
  <2>1. batch' \in [Batches -> Rows]
    BY <1>3 DEF Unbind
  <2>2. \A b \in Batches : ItemAccounts(batch'[b]) \subseteq ItemAccounts(batch[b]) \ {a}
    <3> SUFFICES ASSUME NEW b \in Batches, NEW c \in ItemAccounts(batch'[b])
                 PROVE  c \in ItemAccounts(batch[b]) /\ c # a
      OBVIOUS
    <3>1. c \in Accounts /\ batch'[b].items[c] \in {"success", "failed"}
      BY DEF ItemAccounts, Having
    <3>2. batch[b].items \in [Accounts -> {"none", "success", "failed"}]
      BY <1>2 DEF Rows, Items
    <3>3. batch'[b].items[c] = IF c = a THEN "none" ELSE batch[b].items[c]
      BY <1>3, <3>1, <3>2
    <3> QED
      BY <3>1, <3>3 DEF ItemAccounts, Having
  <2>3. account' = account \ {a} /\ draft' = draft
    BY DEF Unbind
  <2>4. \A b \in Batches : ItemAccounts(batch'[b]) \subseteq account'
    BY <2>2, <2>3 DEF TypeOK
  <2>5. \A b \in Batches : batch'[b].draft # None => draft'[batch'[b].draft] # "gone"
    BY <1>3, <2>3 DEF TypeOK, Exists
  <2> QED
    BY <2>1, <2>3, <2>4, <2>5 DEF Unbind, TypeOK, Exists
<1>7. PublishedTogether'
  <2>1. draft' = draft /\ reverted' = reverted
    BY DEF Unbind, history
  <2>2. \A d \in Drafts :
          (\E b \in Batches : batch'[b].draft = d /\ batch'[b].status = "success")
            <=> (\E b \in Batches : batch[b].draft = d /\ batch[b].status = "success")
    BY <1>3
  <2>3. PublishedTogether
    OBVIOUS
  <2> HIDE DEF ResultInv
  <2> QED
    BY <2>1, <2>2, <2>3 DEF PublishedTogether, Exists
<1> QED
  BY <1>5, <1>6, <1>7

(* Every step keeps the invariant.                                            *)
LEMMA ResultStep == ResultInv /\ [Next]_vars => ResultInv'
<1> SUFFICES ASSUME ResultInv, [Next]_vars
             PROVE  ResultInv'
  OBVIOUS
<1>1. ASSUME NEW q \in Requests, RequestDies(q) PROVE ResultInv'
  BY <1>1, EndsSafe DEF RequestDies
<1>2. CASE UNCHANGED vars
  <2>1. CrowdInv' /\ StoredInv' /\ SoundInv'
    BY <1>2, OthersMove DEF vars, ResultInv, TypeOK
  <2>2. TypeOK'
    BY <1>2 DEF vars, ResultInv, TypeOK, Exists, ItemAccounts, Having
  <2>3. PublishedTogether'
    BY <1>2 DEF vars, ResultInv, PublishedTogether, Exists
  <2> QED
    BY <2>1, <2>2, <2>3 DEF ResultInv
<1> QED
  BY <1>1, <1>2, SubmitSafe, CheckAccountsSafe, LookupSafe, CompareSafe, PersistSafe,
     PersistFailsSafe, RemoveDraftSafe, RestoreDraftSafe, UnbindSafe DEF Next

(* The inductive invariant holds in every reachable state.                  *)
THEOREM ResultInvariance == Spec => []ResultInv
<1> QED
  BY InitResult, ResultStep, PTL DEF Spec

(* Every variable keeps its type, items name accounts that are there, and    *)
(* batches name drafts that are.                                            *)
THEOREM ResultTypeCorrect == Spec => []TypeOK
<1>1. ResultInv => TypeOK
  BY DEF ResultInv
<1> QED
  BY <1>1, ResultInvariance, PTL

(* A replay answers the body its batch was created from.                    *)
THEOREM FaithfulReplay == Spec => []ReplayIsFaithful
<1>1. ResultInv => ReplayIsFaithful
  BY DEF ResultInv, SoundInv, Sound, ReplayIsFaithful
<1> QED
  BY <1>1, ResultInvariance, PTL

(* A conflict has a cause: another body, its text, or a change of the batch. *)
THEOREM CausedConflict == Spec => []ConflictHasCause
<1>1. ResultInv => ConflictHasCause
  BY DEF ResultInv, SoundInv, Sound, ConflictHasCause
<1> QED
  BY <1>1, ResultInvariance, PTL

(* Retries one after another never run into the unique index.               *)
THEOREM RacedDuplicate == Spec => []DuplicateMeansRace
<1>1. ResultInv => DuplicateMeansRace
  BY DEF ResultInv, SoundInv, Sound, DuplicateMeansRace
<1> QED
  BY <1>1, ResultInvariance, PTL

(* A draft is published with a batch that succeeded, and only with one.      *)
THEOREM TogetherPublished == Spec => []PublishedTogether
<1>1. ResultInv => PublishedTogether
  BY DEF ResultInv
<1> QED
  BY <1>1, ResultInvariance, PTL
==============================================================================
