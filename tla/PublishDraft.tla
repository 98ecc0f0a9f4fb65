---------------------------- MODULE PublishDraft ----------------------------
(***************************************************************************)
(* The draft box of one user: draft rows, asset rows and the files on disk *)
(* they describe (PublishDraftService, PublishDraftStorageService).  Each  *)
(* repository call and each file operation is one action.  A handler keeps *)
(* the draft it found; save() writes every column of it that differs from  *)
(* the row, and inserts it again when the row is gone.  MySQL gives the    *)
(* foreign key of assets and its cascade.  A file is named after its draft *)
(* and is never written twice, so it and the asset that records it share   *)
(* an identity here.  The payload, and the cover ids the client may write   *)
(* into it, are not looked at; PublishInputs has its checks.                *)
(***************************************************************************)
EXTENDS Integers, FiniteSets

CONSTANTS
    Drafts,      \* ids of publish_drafts
    Assets,      \* ids of publish_draft_assets, with the file of each
    Platforms,
    Requests,    \* requests served at a time
    MaxPerUser,  \* PUBLISH_DRAFT_MAX_PER_USER
    None

ASSUME PublishDraftAssumption ==
    /\ None \notin Drafts \cup Assets \cup Platforms
    /\ "video" \notin Platforms
    /\ MaxPerUser \in Nat \ {0}
    /\ IsFiniteSet(Drafts) /\ IsFiniteSet(Requests)

VARIABLES
    draft,       \* publish_drafts: status ("none": no row) and video id
    asset,       \* publish_draft_assets: its draft (None: no row) and kind
    file,        \* the draft in whose directory the file lies (None: no file)
    req,         \* what each request is about to do, and what it holds
    used,        \* ids of drafts and assets ever given out
    overlapped,  \* history: drafts that two requests held at a time
    marred       \* history: drafts on which a request broke off

vars == <<draft, asset, file, req, used, overlapped, marred>>
history == <<overlapped, marred>>
store == <<draft, asset, file>>

Kinds == {"video"} \cup Platforms            \* a cover's kind names its platform
NoDraft == [status |-> "none", video |-> None]
Empty == [NoDraft EXCEPT !.status = "draft"]
NoAsset == [draft |-> None, kind |-> "video"]
Idle == [op |-> "none", at |-> "idle", d |-> None, kind |-> "video",
         held |-> NoDraft, new |-> None, old |-> {}]

Ops == {"create", "update", "remove", "upload", "uncover"}
Steps == {"inserting", "updating", "listing", "removing", "unlinking", "seeking",
          "recording", "pointing", "looking", "retiring", "forgetting"}

DraftRows == [status : {"none", "draft", "published"}, video : Assets \cup {None}]
RequestStates ==
    [op : {"none"} \cup Ops, at : {"idle"} \cup Steps, d : Drafts \cup {None},
     kind : Kinds, held : DraftRows, new : Assets \cup {None}, old : SUBSET Assets]

Exists(d) == draft[d].status # "none"
Recorded(a) == asset[a].draft # None
InBox == { d \in Drafts : draft[d].status = "draft" }
Covers(d, p) == { a \in Assets : asset[a] = [draft |-> d, kind |-> p] }

(* Types, and what the foreign key of assets gives.                         *)
TypeOK ==
    /\ draft \in [Drafts -> DraftRows]
    /\ asset \in [Assets -> [draft : Drafts \cup {None}, kind : Kinds]]
    /\ \A a \in Assets : Recorded(a) => Exists(asset[a].draft)
    /\ file \in [Assets -> Drafts \cup {None}]
    /\ req \in [Requests -> RequestStates]
    /\ used \subseteq Drafts \cup Assets
    /\ overlapped \subseteq Drafts /\ marred \subseteq Drafts

Init ==
    /\ draft = [d \in Drafts |-> NoDraft]
    /\ asset = [a \in Assets |-> NoAsset]
    /\ file = [a \in Assets |-> None]
    /\ req = [q \in Requests |-> Idle]
    /\ used = {}
    /\ overlapped = {} /\ marred = {}

At(q, step) == req[q].at = step
Becomes(q, r) == req' = [req EXCEPT ![q] = r]
Moves(q, step) == Becomes(q, [req[q] EXCEPT !.at = step])
Ends(q) == Becomes(q, Idle)

WriteFile(a, d) == file' = [file EXCEPT ![a] = d]
Unlink(a) == file' = [file EXCEPT ![a] = None]       \* ENOENT is no error

SaveDraft(d, row) == draft' = [draft EXCEPT ![d] = row]

----------------------------------------------------------------------------
(* create.  The quota is counted, the accounts are looked up, then the row  *)
(* is inserted.                                                             *)

UnderQuota == Cardinality(InBox) < MaxPerUser          \* assertDraftQuota

BeginCreate(q, d) ==
    /\ req[q] = Idle /\ d \notin used
    /\ UnderQuota
    /\ Becomes(q, [Idle EXCEPT !.op = "create", !.at = "inserting", !.d = d])
    /\ used' = used \cup {d}
    /\ UNCHANGED <<store, history>>

InsertDraft(q) ==
    /\ At(q, "inserting")
    /\ draft' = [draft EXCEPT ![req[q].d] = Empty]
    /\ Ends(q)
    /\ UNCHANGED <<asset, file, used, history>>

----------------------------------------------------------------------------
(* The other handlers start with findOwnedDraft.                            *)

Busy(d, others) == \E q \in others : req[q].d = d

Find(q, d, r) ==
    /\ req[q] = Idle /\ Exists(d)
    /\ Becomes(q, [r EXCEPT !.d = d, !.held = IF r.op = "remove" THEN NoDraft ELSE draft[d]])
    /\ overlapped' = IF Busy(d, Requests) THEN overlapped \cup {d} ELSE overlapped
    /\ UNCHANGED marred

BeginUpdate(q, d) ==
    /\ Find(q, d, [Idle EXCEPT !.op = "update", !.at = "updating"])
    /\ UNCHANGED <<store, used>>

BeginRemove(q, d) ==
    /\ Find(q, d, [Idle EXCEPT !.op = "remove", !.at = "listing"])
    /\ UNCHANGED <<store, used>>

(* uploadVideo and uploadPlatformCover: the file is written under a new name. *)
BeginUpload(q, d, kind, a) ==
    /\ a \notin used
    /\ Find(q, d, [Idle EXCEPT !.op = "upload", !.kind = kind, !.new = a,
                     !.at = IF kind = "video" THEN "recording" ELSE "seeking"])
    /\ WriteFile(a, d)
    /\ used' = used \cup {a}
    /\ UNCHANGED <<draft, asset>>

BeginUncover(q, d, p) ==
    /\ Find(q, d, [Idle EXCEPT !.op = "uncover", !.at = "seeking", !.kind = p])
    /\ UNCHANGED <<store, used>>

(* update: the payload is the client's; status and video are as found.      *)
Updated(r) == r.held

SaveUpdate(q) ==
    /\ At(q, "updating")
    /\ SaveDraft(req[q].d, Updated(req[q]))
    /\ Ends(q)
    /\ UNCHANGED <<asset, file, used, history>>

----------------------------------------------------------------------------
(* remove: the assets are listed, the row goes and takes their rows with    *)
(* it, then the files go one by one.                                        *)

(* Mutant: only the covers.                                                 *)
ListedCovers(d) == { a \in Assets : asset[a].draft = d /\ asset[a].kind # "video" }

Listed(d) == { a \in Assets : asset[a].draft = d }

AssetsWithout(d) == [a \in Assets |-> IF asset[a].draft = d THEN NoAsset ELSE asset[a]]

ListAssets(q) ==
    /\ At(q, "listing")
    /\ Becomes(q, [req[q] EXCEPT !.at = "removing", !.old = Listed(req[q].d)])
    /\ UNCHANGED <<store, used, history>>

RemoveDraft(q) ==
    /\ At(q, "removing")
    /\ draft' = [draft EXCEPT ![req[q].d] = NoDraft]
    /\ asset' = AssetsWithout(req[q].d)
    /\ Moves(q, "unlinking")
    /\ UNCHANGED <<file, used, history>>

UnlinkListed(q) ==
    /\ At(q, "unlinking")
    /\ IF req[q].old = {}
       THEN Ends(q) /\ UNCHANGED file
       ELSE \E a \in req[q].old :
               /\ Unlink(a)
               /\ Becomes(q, [req[q] EXCEPT !.old = @ \ {a}])
    /\ UNCHANGED <<draft, asset, used, history>>

----------------------------------------------------------------------------
(* Uploads and the removal of a cover.                                      *)

(* The look for the cover to replace or remove; findOne gives any that fits. *)
SeekCover(q) ==
    /\ At(q, "seeking")
    /\ LET next == IF req[q].op = "upload" THEN "recording" ELSE "retiring"
           found == Covers(req[q].d, req[q].kind)
       IN  \/ /\ found = {}
              /\ Moves(q, IF req[q].op = "upload" THEN "recording" ELSE "pointing")
           \/ \E a \in found : Becomes(q, [req[q] EXCEPT !.at = next, !.old = {a}])
    /\ UNCHANGED <<store, used, history>>

(* Mutant: the cover that is replaced stays.                                *)
NeverRetire(r) == "pointing"

AfterRecord(r) ==
    IF r.kind = "video" \/ r.old = {} THEN "pointing" ELSE "retiring"

RecordAsset(q) ==
    /\ At(q, "recording") /\ Exists(req[q].d)
    /\ asset' = [asset EXCEPT ![req[q].new] = [draft |-> req[q].d, kind |-> req[q].kind]]
    /\ Moves(q, AfterRecord(req[q]))
    /\ UNCHANGED <<draft, file, used, history>>

(* deleteAssetRecord: the file, then the row.                               *)
RetireFile(q) ==
    /\ At(q, "retiring")
    /\ \E a \in req[q].old : Unlink(a)
    /\ Moves(q, "forgetting")
    /\ UNCHANGED <<draft, asset, used, history>>

ForgetAsset(q) ==
    /\ At(q, "forgetting")
    /\ asset' = [a \in Assets |-> IF a \in req[q].old THEN NoAsset ELSE asset[a]]
    /\ IF req[q].kind = "video" THEN Ends(q) ELSE Moves(q, "pointing")
    /\ UNCHANGED <<draft, file, used, history>>

(* The held draft is saved, with the id of the new video or, in its payload, *)
(* of the new cover.                                                        *)
Pointed(r) == IF r.kind = "video" THEN [r.held EXCEPT !.video = r.new] ELSE r.held

(* Mutant: the id is read after it was assigned.                            *)
ReplacedNew(r) == r.new

Replaced(r) == r.held.video

PointDraft(q) ==
    /\ At(q, "pointing")
    /\ SaveDraft(req[q].d, Pointed(req[q]))
    /\ IF req[q].kind = "video" /\ Replaced(req[q]) # None
       THEN Becomes(q, [Idle EXCEPT !.op = "upload", !.at = "looking", !.d = req[q].d,
                          !.old = {Replaced(req[q])}])
       ELSE Ends(q)
    /\ UNCHANGED <<asset, file, used, history>>

(* removePlatformCover, when the payload has no override of the platform.   *)
NothingToPoint(q) ==
    /\ At(q, "pointing") /\ req[q].op = "uncover"
    /\ Ends(q)
    /\ UNCHANGED <<store, used, history>>

(* deleteAssetById: the video that was replaced may be gone by now.         *)
LookForOld(q) ==
    /\ At(q, "looking")
    /\ IF \E a \in req[q].old : Recorded(a) THEN Moves(q, "retiring") ELSE Ends(q)
    /\ UNCHANGED <<store, used, history>>

----------------------------------------------------------------------------
(* What can go wrong.                                                       *)

Breaks(q) == Ends(q) /\ marred' = marred \cup {req[q].d}

(* The asset cannot be inserted, since its draft is gone; the file goes too. *)
RecordFails(q) ==
    /\ At(q, "recording") /\ ~Exists(req[q].d)
    /\ Unlink(req[q].new)
    /\ Ends(q)
    /\ UNCHANGED <<draft, asset, used, history>>

(* The cover that is replaced cannot be deleted: the catch block deletes the *)
(* file of the new one, whose row stays.                                    *)
ReplaceFails(q) ==
    /\ req[q].at \in {"retiring", "forgetting"}
    /\ req[q].op = "upload" /\ req[q].kind # "video"
    /\ Unlink(req[q].new)
    /\ Breaks(q)
    /\ UNCHANGED <<draft, asset, used, overlapped>>

(* An error of the disk or the database outside those blocks, or a crash.   *)
RequestDies(q) ==
    /\ req[q] # Idle
    /\ Breaks(q)
    /\ UNCHANGED <<store, used, overlapped>>

(* PublishResultService.persist: a batch that succeeded publishes its draft. *)
Publish(d) ==
    /\ Exists(d)
    /\ draft' = [draft EXCEPT ![d].status = "published"]
    /\ overlapped' = IF Busy(d, Requests) THEN overlapped \cup {d} ELSE overlapped
    /\ UNCHANGED <<asset, file, req, used, marred>>

Serve(q) ==
    \/ InsertDraft(q) \/ SaveUpdate(q) \/ ListAssets(q) \/ RemoveDraft(q) \/ UnlinkListed(q)
    \/ SeekCover(q) \/ RecordAsset(q) \/ RetireFile(q) \/ ForgetAsset(q)
    \/ PointDraft(q) \/ NothingToPoint(q) \/ LookForOld(q)

Arrive(q) ==
    \E d \in Drafts :
        \/ BeginCreate(q, d) \/ BeginUpdate(q, d) \/ BeginRemove(q, d)
        \/ \E k \in Kinds, a \in Assets : BeginUpload(q, d, k, a)
        \/ \E p \in Platforms : BeginUncover(q, d, p)

Next ==
    \/ \E q \in Requests :
          Arrive(q) \/ Serve(q) \/ RecordFails(q) \/ ReplaceFails(q) \/ RequestDies(q)
    \/ \E d \in Drafts : Publish(d)

Spec == Init /\ [][Next]_vars

----------------------------------------------------------------------------
Holds(q, a) == a = req[q].new \/ a \in req[q].old
Spoilt == overlapped \cup marred

(* As long as no two requests were ever served for a draft at a time, its   *)
(* video id names a video of its own whose file is there: not even a crash  *)
(* or a failing disk in the middle of a replacement leaves it dangling.     *)
VideoResolves ==
    \A d \in Drafts \ overlapped :
        draft[d].video # None =>
            /\ asset[draft[d].video] = [draft |-> d, kind |-> "video"]
            /\ file[draft[d].video] = d

(* Without overlap and without a request that broke off, the detail of a    *)
(* draft shows one cover of a platform at most, and its file is there.      *)
CoverResolves ==
    \A d \in Drafts \ Spoilt, p \in Platforms :
        (\A q \in Requests : req[q].d # d) =>
            /\ \A a, b \in Covers(d, p) : a = b
            /\ \A a \in Covers(d, p) : file[a] = d

(* A file that no asset records is about to be recorded or deleted, or lies *)
(* in the directory of a draft on which requests overlapped or broke off.   *)
NoOrphanFile ==
    \A a \in Assets : file[a] # None =>
        \/ asset[a].draft = file[a]
        \/ \E q \in Requests : Holds(q, a) /\ req[q].d = file[a]
        \/ file[a] \in Spoilt


----------------------------------------------------------------------------
(* The inductive invariant behind the theorems of ApiProofs.                *)

Finding(r) ==                 \* it will save, or count on, the row it found
    \/ r.at \in {"updating", "seeking", "recording", "pointing"}
    \/ r.at \in {"retiring", "forgetting"} /\ r.kind # "video"
Filing(r) == r.op = "upload" /\ Finding(r)
Filed(r) == Filing(r) /\ r.at \notin {"seeking", "recording"}

Shape(r) ==
    /\ r.at = "idle" <=> r.op = "none"
    /\ r.at = "idle" => r = Idle
    /\ r.at # "idle" => r.d # None
    /\ r.held.status = "none" <=> ~Finding(r)
    /\ r.held.status = "none" => r.held.video = None
    /\ r.new # None <=> Filing(r)
    /\ r.new # None => r.new # r.held.video
    /\ r.at \in {"inserting", "updating", "listing", "seeking"} => r.old = {}
    /\ r.at \in {"seeking", "pointing", "retiring", "forgetting"} => r.op \in {"upload", "uncover"}
    /\ r.at = "updating" => r.op = "update"
    /\ r.at \in {"recording", "looking"} => r.op = "upload"
    /\ r.at \in {"looking", "retiring", "forgetting"} \/ (r.at = "recording" /\ r.old # {}) =>
          \E a \in Assets : r.old = {a}
    /\ r.at = "seeking" \/ r.op = "uncover" => r.kind # "video"
    /\ r.at = "looking" => r.kind = "video"
    /\ r.kind = "video" /\ r.at \in {"recording", "pointing"} => r.old = {}

ShapeInv ==
    /\ \A q \in Requests : Shape(req[q])
    /\ \A d \in Drafts : ~Exists(d) => draft[d] = NoDraft

(* An id is given out once: an asset, its file, the rows and the requests    *)
(* that name it belong to one draft.                                        *)
OwnedBy(home) ==
    /\ \A a \in Assets :
          /\ home[a] # None => a \in used
          /\ asset[a].draft \in {None, home[a]} /\ file[a] \in {None, home[a]}
    /\ \A d \in Drafts : draft[d].video # None => home[draft[d].video] = d
    /\ \A q \in Requests, a \in Assets :
          Holds(q, a) \/ a = req[q].held.video => home[a] = req[q].d
OwnInv == \E home \in [Assets -> Drafts \cup {None}] : OwnedBy(home)

UsedInv == \A d \in Drafts : Exists(d) \/ Busy(d, Requests) => d \in used

(* Two requests for a draft are known of, and a new draft has one.          *)
LoneInv ==
    \A q \in Requests :
        /\ \A o \in Requests \ {q} :
              req[q].d = req[o].d /\ req[q].d # None => req[q].d \in overlapped
        /\ At(q, "inserting") =>
              ~Exists(req[q].d) /\ \A o \in Requests \ {q} : req[o].d # req[q].d

(* What a request that is alone at its draft d finds as it left it.         *)
RowKept(d, r) ==
    /\ Finding(r) => draft[d] = r.held
    /\ r.at = "removing" => Listed(d) \subseteq r.old
    /\ r.at = "unlinking" => ~Exists(d)
NewKept(d, r) ==
    /\ Filing(r) => file[r.new] = d /\ r.new \notin r.old
    /\ Filing(r) /\ ~Filed(r) => ~Recorded(r.new)
    /\ Filed(r) => asset[r.new] = [draft |-> d, kind |-> r.kind]
OldKept(d, r) ==
    /\ r.at \in {"recording", "looking", "retiring", "forgetting"} =>
          \A a \in r.old : asset[a] = [draft |-> d, kind |-> r.kind]
    /\ r.at \in {"forgetting", "pointing"} => \A a \in r.old : file[a] = None
    /\ r.kind = "video" /\ r.at \in {"looking", "retiring", "forgetting"} =>
          draft[d].video \notin r.old

(* What it leaves to the draft: the video resolves at every step; but for   *)
(* what it is replacing, a platform has one cover, with its file, and every *)
(* file is recorded or in its hands.                                        *)
VideoTidy(d) ==
    draft[d].video # None =>
        /\ asset[draft[d].video] = [draft |-> d, kind |-> "video"]
        /\ file[draft[d].video] = d
Leaving(r, a) == r.at \in {"retiring", "forgetting"} /\ a \in r.old
CoversTidy(d, r) ==
    /\ \A p \in Platforms :
          /\ \A a, b \in Covers(d, p) : a = b \/ Leaving(r, a) \/ Leaving(r, b)
          /\ \A a \in Covers(d, p) : file[a] = d \/ Leaving(r, a)
    /\ r.at = "recording" /\ r.kind # "video" => Covers(d, r.kind) \subseteq r.old
FilesTidy(d, r) ==
    \A a \in Assets : file[a] = d => asset[a].draft = d \/ a = r.new \/ a \in r.old

Tidy(d, r) ==
    /\ RowKept(d, r) /\ NewKept(d, r) /\ OldKept(d, r)
    /\ VideoTidy(d)
    /\ d \notin marred => CoversTidy(d, r) /\ FilesTidy(d, r)

TidyInv ==
    \A d \in Drafts \ overlapped :
        /\ \A q \in Requests : req[q].d = d => Tidy(d, req[q])
        /\ ~Busy(d, Requests) => Tidy(d, Idle)

DraftInv == TypeOK /\ ShapeInv /\ OwnInv /\ UsedInv /\ LoneInv /\ TidyInv
----------------------------------------------------------------------------
(* The quota is counted before the row is inserted, and a save writes the    *)
(* status back that the request found: a removed or published draft may     *)
(* return to the box.                                                       *)

Keeps(q) == At(q, "inserting") \/ req[q].held.status = "draft"

(* What is in the box, and what a request under way may put into it.        *)
Soon == InBox \cup { req[q].d : q \in { o \in Requests : Keeps(o) } }

(* The box holds more than the quota by at most the requests that are       *)
(* served at a time, less the one that the quota counts itself.             *)
QuotaOvershoot == Cardinality(InBox) <= MaxPerUser - 1 + Cardinality(Requests)

(* The bound is inductive for what the box will soon hold: only the start    *)
(* of a create adds to that, and it finds the box under its quota.          *)
QuotaInv == Cardinality(Soon) <= MaxPerUser - 1 + Cardinality(Requests)
=============================================================================
