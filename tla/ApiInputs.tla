------------------------------ MODULE ApiInputs ------------------------------
(* The API as a client with a form meets it: one request to create a media    *)
(* job, to save a publish draft or to upload a file, or one recording for the *)
(* worker to slice, with every form of the bounded sets below, and beside     *)
(* them the content endpoint of ServedFile, where the file may change while   *)
(* it is read.                                                                *)
EXTENDS JobInputs, PublishInputs, StoredName, ServedFile, LiveSlice

CONSTANTS Accounts,   \* account ids that a draft may name
          Bound,      \* those that are the user's own and bound
          Ids,        \* client ids of a draft's items, but for the empty one
          Words       \* keywords that make a stretch of a stream a highlight

ASSUME BoundAreAccounts == Bound \subseteq Accounts
ASSUME WordsAreFinite == IsFiniteSet(Words) /\ Words # {}

VARIABLES endpoint,   \* the endpoint that was asked, or "none"
          form        \* what was sent to it

inputVars == << endpoint, form >>
allVars == << disk, get, touched, endpoint, form >>

(* ------------------------------- the forms ------------------------------- *)

(* A number field is tried on both sides of each bound and of its default.    *)
NearBounds(rule) ==
    {rule.lo - 1, rule.lo, rule.dflt, rule.hi} \cup (IF rule.hi = 2147483647 THEN {} ELSE {rule.hi + 1})
Trailed(n) == [is |-> "tail", n |-> n, frac |-> FALSE]
TypedNumbers(rule) ==
    {NotGiven("absent"), NotGiven("empty"), NotGiven("junk"), Trailed(rule.dflt)}
        \cup {Number(n, frac) : n \in NearBounds(rule), frac \in BOOLEAN}

(* One field is typed, the others are left out.                               *)
OneField(type, f, raw) ==
    [g \in DOMAIN RulesOf(type) |-> IF g = f THEN raw ELSE NotGiven("absent")]
FieldForms(type) ==
    {OneField(type, f, raw) : f \in DOMAIN RulesOf(type),
                              raw \in UNION {TypedNumbers(RulesOf(type)[g]) : g \in DOMAIN RulesOf(type)}}

Uploads(class) ==
    {NoFile, EmptyFile(class, class), File(class, "none"), File("none", class), File("none", "none")}

NoCart == [is |-> "absent", items |-> << >>]
Carts == {NoCart} \cup {[is |-> kind, items |-> << >>] : kind \in {"blank", "notJson", "notArray"}}
         \cup {[is |-> "array", items |-> << a, b >>] : a, b \in {"titled", "untitled"}}

JobForm(type, fields, main, second) ==
    [type |-> type, fields |-> fields, main |-> main, second |-> second,
     text |-> "fits", choice |-> "absent", vector |-> "absent", cart |-> NoCart]

MainClass(type) ==
    CASE type = "tts" -> "audio" [] type = "flashhead" -> "image" [] OTHER -> "video"
GoodMain(type) == File(MainClass(type), "none")
GoodSecond == File("audio", "none")

(* The forms that vary one thing at a time, and for the speech jobs also the  *)
(* method with the emotion upload and the vector.                             *)
Untyped(type) == OneField(type, "", NotGiven("absent"))
NumberForm(type, fields) == JobForm(type, fields, GoodMain(type), GoodSecond)
PartForm(type, main, second) == JobForm(type, Untyped(type), main, second)
TextForm(type, text, choice) ==
    [PartForm(type, GoodMain(type), GoodSecond) EXCEPT !.text = text, !.choice = choice]
SpeechForm(method, second, vector) ==
    [JobForm("tts", OneField("tts", "emoControlMethod", Number(method, FALSE)), GoodMain("tts"), second)
        EXCEPT !.vector = vector]
SliceForm(lo, hi, cart) ==
    [JobForm("live_slice", [minDuration |-> Number(lo, FALSE), maxDuration |-> Number(hi, FALSE),
                            maxClips |-> NotGiven("absent")], GoodMain("live_slice"), NoFile)
        EXCEPT !.cart = cart]

NumberForms == UNION {{NumberForm(type, fields) : fields \in FieldForms(type)} : type \in Types}
PartForms ==
    {PartForm(type, main, second) :
        type \in Types, main \in UNION {Uploads(c) : c \in {"video", "audio", "image"}}, second \in Uploads("audio")}
TextForms ==
    {TextForm(type, text, choice) :
        type \in Types, text \in {"none", "blank", "fits", "long"}, choice \in {"absent", "listed", "other"}}
SpeechForms ==
    {SpeechForm(method, second, vector) :
        method \in 0 .. 3, second \in Uploads("audio"),
        vector \in {"absent", "blank", "notJson", "notEight", "outside", "eight"}}
SliceForms == {SliceForm(lo, hi, cart) : lo \in {5, 60, 120}, hi \in {10, 60, 180}, cart \in Carts}

JobForms == NumberForms \cup PartForms \cup TextForms \cup SpeechForms \cup SliceForms

ClientId(text, padded) == [text |-> text, padded |-> padded]
ClientIds == [text : {""} \cup Ids, padded : BOOLEAN]

TextClasses == {"none", "blank", "fits", "long"}
DateClasses == {"blank", "junk", "past", "future"}
CartClasses == {"none", "empty", "full"}
PathClasses == {"none", "blank", "fits", "control"}

Override(platform, given, customized, title, cart) ==
    [platform |-> platform, given |-> given, customized |-> customized, title |-> title, cart |-> cart]
AloneOverride(platform, given, customized, title) ==
    << Override(platform, given, customized, title, "none") >>
BothOverrides(title, cart) ==
    << Override("douyin", FALSE, FALSE, "fits", "none"), Override("kuaishou", TRUE, TRUE, title, cart) >>
Overrides ==
    {<< >>}
    \cup {AloneOverride(p, given, customized, title) :
              p \in PlatformIds \cup {"other"}, given \in BOOLEAN,
              customized \in BOOLEAN, title \in {"none", "fits", "long"}}
    \cup {BothOverrides(title, cart) : title \in {"none", "fits", "long"}, cart \in {"none", "full"}}

AccountLists == {<< >>} \cup {<< a, b >> : a, b \in Accounts}

Item(clientId, accounts) ==
    [clientId |-> clientId, title |-> "fits", listsFit |-> TRUE, showSchedule |-> FALSE,
     scheduleAt |-> "blank", overrides |-> << >>, accounts |-> accounts, path |-> "fits"]
Titled(id) == Item(ClientId(id, FALSE), << >>)
Payload(items, accounts) ==
    [title |-> "fits", listsFit |-> TRUE, over |-> FALSE, showSchedule |-> FALSE,
     scheduleAt |-> "blank", overrides |-> << >>, accounts |-> accounts, items |-> items]

(* The own part of a payload, or the part of an item, with one thing changed. *)
Worded(part, title, fit) == [part EXCEPT !.title = title, !.listsFit = fit]
Scheduled(part, show, at) == [part EXCEPT !.showSchedule = show, !.scheduleAt = at]
Adapted(part, overrides) == [part EXCEPT !.overrides = overrides]
Varied(part) ==
    {Worded(part, title, fit) : title \in TextClasses, fit \in BOOLEAN}
    \cup {Scheduled(part, show, at) : show \in BOOLEAN, at \in DateClasses}
    \cup {Adapted(part, overrides) : overrides \in Overrides}
Crowded(payload) == [payload EXCEPT !.over = TRUE]

OneItem(item) == Payload(<< item >>, << >>)
OnePath(id, path) == OneItem([Titled(id) EXCEPT !.path = path])
TwoItems(a, b) == Payload(<< Item(a, << >>), Item(b, << >>) >>, << >>)
OwnAndTheirs(id, own, theirs) == Payload(<< Item(ClientId(id, TRUE), theirs) >>, own)

Payloads ==
    Varied(Payload(<< >>, << >>))
    \cup {OneItem(item) : item \in UNION {Varied(Titled(id)) : id \in Ids}}
    \cup {OnePath(id, path) : id \in Ids, path \in PathClasses}
    \cup {TwoItems(a, b) : a \in ClientIds, b \in ClientIds}
    \cup {OwnAndTheirs(id, own, theirs) : id \in Ids, own \in AccountLists, theirs \in AccountLists}
    \cup {Crowded(Payload(<< >>, << >>))}

(* Three segments one after another, with or without a pause before them; the *)
(* model proposes nothing, or one stretch that need not lie in the video.     *)
Segment(start, length, keywords) ==
    [start |-> start, end |-> start + length, keywords |-> keywords, spoken |-> length > 1]
AWord == CHOOSE word \in Words : TRUE
Second(pause, a) == pause + a + pause
TwoSegments(pause, a, b, k1, k2) ==
    << Segment(pause, a, k1), Segment(Second(pause, a), b, k2) >>
ThreeSegments(pause, a, b, c, k1, k2) ==
    << Segment(pause, a, k1), Segment(Second(pause, a), b, k2), Segment(Second(pause, a) + b, c, Words) >>
Transcripts ==
    {TwoSegments(pause, a, b, k1, k2) :
        pause \in {0, 3}, a, b \in {1, 4, 7}, k1, k2 \in {{}, {AWord}}}
    \cup {ThreeSegments(pause, a, b, c, k1, k2) :
              pause \in {0, 3}, a, b, c \in {1, 4, 7}, k1, k2 \in {{}, {AWord}}}
OneProposal(from, length) == << [start |-> from, end |-> from + length, score |-> 5] >>
Proposals ==
    {<< >>} \cup {OneProposal(from, length) : from \in {0, 3, 8, 40}, length \in {4, 5, 12, 13}}
Scenes == {{}, {0}, {0, 5}, {0, 9, 13}}
Recording(segs, scenes, rest) ==
    LET source == segs[Len(segs)].end + rest
    IN  [segments |-> segs, model |-> "none", proposal |-> << >>, source |-> source,
         boundaries |-> IF scenes = {} THEN {} ELSE {b \in scenes : b <= source} \cup {source},
         lo |-> 5, hi |-> 10, maxClips |-> 2]
Proposed(length, scenes, rest, proposal) ==
    [Recording(<< Segment(0, length, {}), Segment(length, 7, Words) >>, scenes, rest)
        EXCEPT !.model = "answers", !.proposal = proposal]
Recordings ==
    {Recording(segs, scenes, rest) : segs \in Transcripts, scenes \in Scenes, rest \in {0, 4}}
    \cup {Proposed(length, scenes, rest, proposal) :
              length \in {1, 7}, scenes \in Scenes, rest \in {0, 4}, proposal \in Proposals}

(* ------------------------------- the requests ---------------------------- *)

InputInit ==
    /\ GetInit
    /\ endpoint = "none"
    /\ form = << >>

Send(name, sent) ==
    /\ endpoint = "none" /\ get = NoGet
    /\ endpoint' = name
    /\ form' = sent
    /\ UNCHANGED getVars

CreateJob == \E sent \in JobForms : Send("job", sent)
SendDraft == \E sent \in Payloads : Send("draft", sent)
Slice == \E sent \in Recordings : Send("slice", sent)
Upload == \E store \in Stores, mime \in Mimes, ext \in Exts :
              Send("upload", [store |-> store, mime |-> mime, ext |-> ext])

Content ==
    /\ endpoint = "none"
    /\ GetNext
    /\ UNCHANGED inputVars

InputNext == CreateJob \/ SendDraft \/ Slice \/ Upload \/ Content

InputSpec == InputInit /\ [][InputNext]_allVars

(* ------------------------------- properties ------------------------------ *)

(* A job that the API accepts is one that its runner takes: nothing the       *)
(* worker demands is left unchecked, but a speech text of blanks only and a   *)
(* watermark fontSize that is no whole number.                                *)
JobIsRunnable ==
    endpoint = "job" /\ Accepted(form) =>
        \/ WorkerTakes(form)
        \/ form.type = "tts" /\ form.text = "blank"
        \/ form.type = "watermark" /\ ~PythonInt(Filled(form).fontSize)

(* deleteInputArtifact finds every file that the creation saved, of every     *)
(* type, the emotion upload that the method does not use included.            *)
InputsAreDeleted ==
    endpoint = "job" /\ Accepted(form) => DeletedFiles(JobKeys(form)) = SavedFiles(form)

(* A typed number that the schema invites: nothing, or one in its range.      *)
Invited(type, f, raw) ==
    \/ raw.is \in {"absent", "empty"}
    \/ /\ raw.is = "number"
       /\ ~raw.frac
       /\ SchemaOf(type)[f].lo <= raw.n /\ raw.n <= SchemaOf(type)[f].hi

(* The number that the schema promises for it.                                *)
Promised(type, f, raw) == IF raw.is = "number" THEN raw.n ELSE SchemaOf(type)[f].dflt

(* What GET .../params tells a client of a field is what the job does: a      *)
(* value in the advertised range reaches the worker as it is, one left out as *)
(* the advertised default, and nothing out of the range gets there.           *)
SchemaIsHonest ==
    endpoint = "job" =>
        \A f \in DOMAIN SchemaOf(form.type) :
            LET span == SchemaOf(form.type)[f]  value == Filled(form)[f]
            IN  /\ Invited(form.type, f, form.fields[f]) =>
                       /\ Valid(RulesOf(form.type)[f], value)
                       /\ value.n = Promised(form.type, f, form.fields[f])
                /\ Accepted(form) => span.lo <= value.n /\ value.n <= span.hi

(* A draft that was saved is stored as the service would store it again: the  *)
(* detail gives a payload that an update accepts and leaves as it is.  Two    *)
(* client ids that only blanks tell apart are accepted once and not again.    *)
SameButForBlanks(items) ==
    \E i, j \in DOMAIN items : i # j /\ Trimmed(items[i].clientId) = Trimmed(items[j].clientId)
SavedSavesAgain ==
    endpoint = "draft" /\ SaveAnswer(form, Bound) = "saved" =>
        LET stored == NormalPayload(form)
        IN  /\ NormalPayload(stored) = stored
            /\ SaveAnswer(stored, Bound) = "saved" \/ SameButForBlanks(form.items)

(* A clip of a highlight within the video lies in the video, is as long as was *)
(* asked for unless the video ends first, and has cues that lie in the clip,  *)
(* one after another, wherever a scene boundary moved its ends.  A highlight  *)
(* that is not in the video is the language model's: nothing checks it.       *)
InVideo(h, rec) == 0 <= h.start /\ h.end <= rec.source
CuesFit(cues, clip) ==
    \A k \in DOMAIN cues :
        /\ cues[k].from < cues[k].to /\ cues[k].to <= clip.end - clip.start
        /\ k > 1 => cues[k - 1].to <= cues[k].from
ClipPlays ==
    endpoint = "slice" =>
        LET hs == Highlights(form)
        IN  \A k \in DOMAIN hs :
                LET clip == ClipOf(hs[k], form)  length == clip.end - clip.start
                IN  InVideo(hs[k], form) =>
                      /\ 0 <= clip.start /\ clip.start < clip.end /\ clip.end <= form.source
                      /\ length <= form.hi /\ (length >= form.lo \/ clip.end = form.source)
                      /\ CuesFit(Cues(clip, form.segments), clip)

(* A file is served as what it was filed as, unless its name and its type     *)
(* disagree, its type has no extension and its name has none, or the store's  *)
(* own table lacks the extension (.avi of drafts and jobs, .bmp of drafts).   *)
Agrees(mime, ext) == ext = "none" \/ MimeClass(mime) \in {"none", ExtClass(ext)}
Nameless(mime, ext) == StoredExt(mime, ext) = ".bin" /\ ext = "none"
Unlisted(store, mime, ext) == store # "material" /\ StoredExt(mime, ext) \in {".avi", ".bmp"}
PlaysAsFiled ==
    endpoint = "upload" /\ Taken(form.store, form.mime, form.ext) /\ Agrees(form.mime, form.ext) =>
        \/ GuessMimeType(form.store, StoredExt(form.mime, form.ext)) = DetectMaterialType(form.mime, form.ext)
        \/ Nameless(form.mime, form.ext)
        \/ Unlisted(form.store, form.mime, form.ext)

(* --------------------- what was sent, in general -------------------------- *)

(* Any form of a job, whatever is typed in its number fields and sent beside  *)
(* them: a part that has bytes was sent.                                      *)
JobFormShape(sent) ==
    /\ sent.type \in Types
    /\ sent.fields \in [DOMAIN RulesOf(sent.type) -> Raw]
    /\ sent.second.bytes => sent.second.sent

UploadForms == [store : Stores, mime : Mimes, ext : Exts]

(* Any payload of a draft, of any length.                                     *)
OverrideForms ==
    [platform : PlatformIds \cup {"other"}, given : BOOLEAN, customized : BOOLEAN,
     title : TextClasses, cart : CartClasses]
ItemForms ==
    [clientId : ClientIds, title : TextClasses, listsFit : BOOLEAN,
     showSchedule : BOOLEAN, scheduleAt : DateClasses, overrides : Seq(OverrideForms),
     accounts : Seq(Accounts), path : PathClasses]
PayloadForms ==
    [title : TextClasses, listsFit : BOOLEAN, over : BOOLEAN, showSchedule : BOOLEAN,
     scheduleAt : DateClasses, overrides : Seq(OverrideForms), accounts : Seq(Accounts),
     items : Seq(ItemForms)]

(* Any recording: the segments of ASR are one after another, the boundaries   *)
(* are moments of the video, and the lengths asked for pass the API's bounds. *)
(* Nothing is said of what the model proposes, but that it is in numbers.     *)
SegmentForms ==
    {seg \in [start : Nat, end : Nat, keywords : SUBSET Words, spoken : BOOLEAN] :
        seg.start < seg.end}
ProposalForms == [start : Int, end : Int, score : Int]
RecordingForms ==
    {rec \in [segments : Seq(SegmentForms), model : {"none", "answers"}, proposal : Seq(ProposalForms),
              source : Nat, boundaries : SUBSET Nat, lo : Nat, hi : Nat, maxClips : Nat] :
        /\ Tolerance < rec.lo /\ rec.lo <= rec.hi
        /\ rec.boundaries \subseteq 0 .. rec.source
        /\ \A i, j \in 1 .. Len(rec.segments) :
               i < j => rec.segments[i].end <= rec.segments[j].start}

InputsInv ==
    /\ endpoint = "job" => JobFormShape(form)
    /\ endpoint = "upload" => form \in UploadForms
    /\ endpoint = "draft" => form \in PayloadForms
    /\ endpoint = "slice" => form \in RecordingForms
==============================================================================
