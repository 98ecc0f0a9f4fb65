--------------------------- MODULE PublishResult ---------------------------
(***************************************************************************)
(* Publish results a client reports, and reports again when it saw no      *)
(* answer: submit of PublishResultService, with the batches, their items,  *)
(* the draft they publish and the accounts they name.  The checks before   *)
(* the transaction are one action each; the transaction is one, since the  *)
(* foreign keys lock the rows it refers to.  MySQL also gives the unique    *)
(* index on clientBatchId, the cascade of accounts and SET NULL of drafts.  *)
(* An item is named by its account.                                        *)
(***************************************************************************)
EXTENDS Integers, FiniteSets

CONSTANTS
    Batches,     \* ids of publish_batches
    Keys,        \* clientBatchIds
    Drafts,
    Accounts,
    Bodies,      \* the bodies clients send
    Requests,    \* requests served at a time
    None

Statuses == {"success", "partial_failed", "failed"}

(* What a batch says of each account it may have an item of.                *)
Items == [Accounts -> {"none", "success", "failed"}]
NoItems == [a \in Accounts |-> "none"]

(* A body as the DTO admits it.  Times have no fraction of a second and are  *)
(* in UTC, and the cart items name the link first, or the text is different  *)
(* from what comes back from the database.                                  *)
Payload == [draft : Drafts \cup {None}, status : Statuses, items : Items, canonical : BOOLEAN]

ASSUME PublishResultAssumption ==
    /\ None \notin Batches \cup Keys \cup Drafts \cup Accounts
    /\ Bodies \subseteq Payload
    /\ IsFiniteSet(Accounts)

VARIABLES
    draft,       \* status of each row of publish_drafts, or "gone"
    account,     \* rows of platform_accounts
    batch,       \* publish_batches with their items
    req,         \* what each request is about to do, and its answer
    origin,      \* history: the body a batch was created from
    changed,     \* history: batches that lost their draft or an item
    crowded,     \* history: keys that two requests held at a time
    reverted     \* history: drafts written by a save that overlapped

vars == <<draft, account, batch, req, origin, changed, crowded, reverted>>
history == <<changed, crowded, reverted>>

NoBody == [draft |-> None, status |-> "failed", items |-> NoItems, canonical |-> TRUE]
NoBatch == [key |-> None, draft |-> None, status |-> "failed", tasks |-> 0,
            items |-> NoItems, saved |-> FALSE]
Idle == [at |-> "idle", key |-> None, body |-> NoBody, found |-> None,
         seen |-> None, answer |-> "none"]

Answers == {"none", "created", "replayed", "conflict", "refused", "duplicate", "dangling"}
Steps == {"accounts", "lookup", "comparing", "persisting"}
Rows == [key : Keys \cup {None}, draft : Drafts \cup {None}, status : Statuses, tasks : Nat,
         items : Items, saved : BOOLEAN]
RequestStates ==
    [at : {"idle"} \cup Steps, key : Keys \cup {None}, body : Payload,
     found : Batches \cup {None}, seen : Drafts \cup {None}, answer : Answers]

Saved(b) == batch[b].saved
Exists(d) == draft[d] # "gone"
Having(r, s) == { a \in Accounts : r.items[a] = s }
ItemAccounts(r) == Having(r, "success") \cup Having(r, "failed")

(* Types, and what the foreign keys give.                                   *)
TypeOK ==
    /\ draft \in [Drafts -> {"draft", "published", "gone"}]
    /\ account \subseteq Accounts
    /\ batch \in [Batches -> Rows]
    /\ \A b \in Batches :
          /\ ItemAccounts(batch[b]) \subseteq account
          /\ batch[b].draft # None => Exists(batch[b].draft)
    /\ req \in [Requests -> RequestStates]
    /\ origin \in [Batches -> Payload]
    /\ changed \subseteq Batches /\ crowded \subseteq Keys /\ reverted \subseteq Drafts

Init ==
    /\ draft = [d \in Drafts |-> "draft"]
    /\ account = Accounts
    /\ batch = [b \in Batches |-> NoBatch]
    /\ req = [q \in Requests |-> Idle]
    /\ origin = [b \in Batches |-> NoBody]
    /\ changed = {} /\ crowded = {} /\ reverted = {}

At(q, step) == req[q].at = step
Becomes(q, r) == req' = [req EXCEPT ![q] = r]
Moves(q, step) == Becomes(q, [req[q] EXCEPT !.at = step])
Ends(q, a) == Becomes(q, [Idle EXCEPT !.answer = a])
Answer(q, a) == Becomes(q, [req[q] EXCEPT !.at = "idle", !.seen = None, !.answer = a])

(* validateCounts; the number of tasks is that of the items.                *)
ValidCounts(p) ==
    /\ p.status = "success" => Having(p, "failed") = {}
    /\ p.status = "failed" => Having(p, "success") = {}
    /\ p.status = "partial_failed" => Having(p, "success") # {} /\ Having(p, "failed") # {}

Tasks(p) == Cardinality(ItemAccounts(p))

----------------------------------------------------------------------------
(* submit.                                                                  *)

(* A request with counts that fit looks for its draft first.                *)
Submit(q, k, p) ==
    /\ At(q, "idle")
    /\ ValidCounts(p)
    /\ LET r == [Idle EXCEPT !.key = k, !.body = p]
       IN  Becomes(q, IF p.draft = None \/ Exists(p.draft)
                      THEN [r EXCEPT !.at = "accounts"] ELSE [Idle EXCEPT !.answer = "refused"])
    /\ crowded' = IF k # None /\ \E o \in Requests : ~At(o, "idle") /\ req[o].key = k
                  THEN crowded \cup {k} ELSE crowded
    /\ UNCHANGED <<draft, account, batch, origin, changed, reverted>>

CheckAccounts(q) ==
    /\ At(q, "accounts")
    /\ IF ItemAccounts(req[q].body) \subseteq account
       THEN Moves(q, "lookup") ELSE Ends(q, "refused")
    /\ UNCHANGED <<draft, account, batch, origin, history>>

Existing(k) == IF k = None THEN {} ELSE { b \in Batches : Saved(b) /\ batch[b].key = k }

(* Mutant: the key is not looked up.                                        *)
LookAway(q) ==
    /\ At(q, "lookup") /\ Moves(q, "persisting")
    /\ UNCHANGED <<draft, account, batch, origin, history>>

(* The batch row is read here, its items in the next step.                  *)
Lookup(q) ==
    /\ At(q, "lookup")
    /\ \/ Existing(req[q].key) = {} /\ Moves(q, "persisting")
       \/ \E b \in Existing(req[q].key) :
             Becomes(q, [req[q] EXCEPT !.at = "comparing", !.found = b, !.seen = batch[b].draft])
    /\ UNCHANGED <<draft, account, batch, origin, history>>

(* normalizeSubmitPayload and batchToNormalizedPayload.                     *)
Compared(d, tasks, r, canonical) == <<d, tasks, r.status, r.items, canonical>>

Incoming(p) == Compared(p.draft, Tasks(p), p, p.canonical)

(* Mutant: the items are left out.                                          *)
SameCounts(r) ==
    /\ r.body.draft = r.seen /\ Tasks(r.body) = batch[r.found].tasks
    /\ r.body.status = batch[r.found].status /\ r.body.canonical

Same(r) == Incoming(r.body) = Compared(r.seen, batch[r.found].tasks, batch[r.found], TRUE)

Compare(q) ==
    /\ At(q, "comparing")
    /\ Answer(q, IF Same(req[q]) THEN "replayed" ELSE "conflict")
    /\ UNCHANGED <<draft, account, batch, origin, history>>

(* Mutant: partial success publishes, too.                                  *)
PublishedUnlessFailed(p) ==
    [d \in Drafts |-> IF d = p.draft /\ p.status # "failed" THEN "published" ELSE draft[d]]

Published(p) ==
    [d \in Drafts |-> IF d = p.draft /\ p.status = "success" THEN "published" ELSE draft[d]]

(* The transaction, and what makes it fail: the unique index, or a foreign   *)
(* key.                                                                     *)
Refers(p) == (p.draft # None => Exists(p.draft)) /\ ItemAccounts(p) \subseteq account

Persist(q, b) ==
    LET p == req[q].body IN
    /\ At(q, "persisting") /\ ~Saved(b)
    /\ Existing(req[q].key) = {} /\ Refers(p)
    /\ batch' = [batch EXCEPT ![b] =
          [key |-> req[q].key, draft |-> p.draft, status |-> p.status, tasks |-> Tasks(p),
           items |-> p.items, saved |-> TRUE]]
    /\ draft' = Published(p)
    /\ origin' = [origin EXCEPT ![b] = p]
    /\ Ends(q, "created")
    /\ UNCHANGED <<account, history>>

PersistFails(q) ==
    /\ At(q, "persisting")
    /\ \/ Existing(req[q].key) # {} /\ Answer(q, "duplicate")
       \/ ~Refers(req[q].body) /\ Ends(q, "dangling")
    /\ UNCHANGED <<draft, account, batch, origin, history>>

(* The server stops; the client sees no answer.                             *)
RequestDies(q) ==
    /\ ~At(q, "idle")
    /\ Ends(q, "none")
    /\ UNCHANGED <<draft, account, batch, origin, history>>

----------------------------------------------------------------------------
(* What other services do to the rows.                                      *)

(* PublishDraftService.remove; the batches keep no draft id.                *)
RemoveDraft(d) ==
    /\ Exists(d)
    /\ draft' = [draft EXCEPT ![d] = "gone"]
    /\ batch' = [b \in Batches |-> IF batch[b].draft = d
                    THEN [batch[b] EXCEPT !.draft = None] ELSE batch[b]]
    /\ changed' = changed \cup { b \in Batches : batch[b].draft = d }
    /\ UNCHANGED <<account, req, origin, crowded, reverted>>

(* PublishDraftService.update saves the draft it found earlier, when it was  *)
(* neither published nor removed.                                           *)
RestoreDraft(d) ==
    /\ draft[d] # "draft"
    /\ draft' = [draft EXCEPT ![d] = "draft"]
    /\ reverted' = reverted \cup {d}
    /\ UNCHANGED <<account, batch, req, origin, changed, crowded>>

Cascaded(r, a) == [r EXCEPT !.items[a] = "none"]

(* PlatformService.unbindAccount; the items go with their account.          *)
Unbind(a) ==
    /\ a \in account
    /\ account' = account \ {a}
    /\ batch' = [b \in Batches |-> Cascaded(batch[b], a)]
    /\ changed' = changed \cup { b \in Batches : a \in ItemAccounts(batch[b]) }
    /\ UNCHANGED <<draft, req, origin, crowded, reverted>>

Next ==
    \/ \E q \in Requests :
        \/ \E k \in Keys \cup {None}, p \in Bodies : Submit(q, k, p)
        \/ CheckAccounts(q) \/ Lookup(q) \/ Compare(q)
        \/ \E b \in Batches : Persist(q, b)
        \/ PersistFails(q) \/ RequestDies(q)
    \/ \E d \in Drafts : RemoveDraft(d) \/ RestoreDraft(d)
    \/ \E a \in Accounts : Unbind(a)

Spec == Init /\ [][Next]_vars

----------------------------------------------------------------------------
Canon(p) == [p EXCEPT !.canonical = TRUE]

(* A replay answers the body the batch was created from, in whatever text,   *)
(* and no other one, unless the batch lost its draft or items since.        *)
ReplayIsFaithful ==
    \A q \in Requests : req[q].answer = "replayed" =>
        Canon(req[q].body) = Canon(origin[req[q].found]) \/ req[q].found \in changed

(* A conflict has a cause: another body, a text the database does not give   *)
(* back as it was, or a batch that lost its draft or items.                 *)
ConflictHasCause ==
    \A q \in Requests : req[q].answer = "conflict" =>
        \/ req[q].body # origin[req[q].found]
        \/ ~req[q].body.canonical
        \/ req[q].found \in changed

(* The unique index refuses a batch only if two requests of one key were    *)
(* served at a time: retries one after another never end in an error.       *)
DuplicateMeansRace ==
    \A q \in Requests : req[q].answer = "duplicate" => req[q].key \in crowded

(* The draft of a batch is published together with it, and only if all of    *)
(* the batch succeeded, until a save that overlapped takes it back.         *)
PublishedTogether ==
    \A d \in Drafts \ reverted : Exists(d) =>
        (draft[d] = "published" <=>
            \E b \in Batches : batch[b].draft = d /\ batch[b].status = "success")

(* The inductive invariant.  CrowdInv: a key that two requests hold at a     *)
(* time is crowded.  StoredInv: a batch nobody changed says what it was      *)
(* created from.  Sound: a batch that appeared after the look for it has a   *)
(* crowded key, and one that was found had the draft that was seen.         *)
Busy(q) == ~At(q, "idle")

CrowdInv ==
    \A q, o \in Requests :
        q # o /\ Busy(q) /\ Busy(o) /\ req[q].key = req[o].key /\ req[q].key # None
            => req[q].key \in crowded

StoredInv ==
    \A b \in Batches :
        /\ ~Saved(b) => batch[b].draft = None
        /\ Saved(b) /\ b \notin changed =>
              /\ batch[b].draft = origin[b].draft /\ batch[b].status = origin[b].status
              /\ batch[b].items = origin[b].items /\ batch[b].tasks = Tasks(origin[b])

Sound(r) ==
    /\ r.at # "idle" => r.answer = "none"
    /\ r.at = "persisting" => Existing(r.key) = {} \/ r.key \in crowded
    /\ r.at = "comparing" \/ r.answer \in {"replayed", "conflict"} =>
          r.found \in Batches /\ Saved(r.found)
    /\ r.at = "comparing" /\ r.found \notin changed => r.seen = batch[r.found].draft
    /\ r.answer = "replayed" => Canon(r.body) = Canon(origin[r.found]) \/ r.found \in changed
    /\ r.answer = "conflict" =>
          r.body # origin[r.found] \/ ~r.body.canonical \/ r.found \in changed
    /\ r.answer = "duplicate" => r.key \in crowded

SoundInv == \A q \in Requests : Sound(req[q])

ResultInv == TypeOK /\ CrowdInv /\ StoredInv /\ SoundInv /\ PublishedTogether

(* docs/publish-results-api.md:255, 620 and 623: a body that was stored is   *)
(* answered with the stored batch when it is sent again under its key, at   *)
(* least while nobody changes the batch.                                    *)
RetryIsReplayed ==
    \A q \in Requests : req[q].answer = "conflict" =>
        req[q].body # origin[req[q].found] \/ req[q].found \in changed
=============================================================================
