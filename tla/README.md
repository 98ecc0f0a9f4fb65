# ViralEngine API: TLA+ specifications

The repository holds a NestJS API (`src/src`), a Python media worker
(`src/media-worker`), and their documentation (`src/docs`). This directory holds
TLA+ models of the parts whose correctness depends on what happens *between* two
awaits: several requests, several processes, Redis, MySQL and a file system that
no transaction spans; and of the computations whose bounds two programs have to
agree on. Paths below are relative to the repository root.

## 1. Inventory

MySQL holds all rows (through TypeORM), Redis holds queues, locks, caches and
short-lived codes, and a shared directory holds files. The API and the workers
talk through Redis lists (API to worker) and HTTP callbacks (worker to API).

| Part | State | Operations | What is hard | What makes it correct |
|---|---|---|---|---|
| Media jobs, API side (`media-ai/services`) | `media_jobs` rows, `<user>/media-jobs/<job>` directories, Redis lists | upload + enqueue, callbacks `processing` / `progress` / `complete`, `DELETE`, hourly sweep | four places, no transaction; handlers overlap; partial failure; API crash; the worker checks the same fields in another language | a payload is in one place and a job pushed once, up to the client's own retries, files outlive their readers, an outcome and its error agree, storage is reclaimed, an accepted job is one the worker takes |
| Media worker (`queue_consumer.py`, `workers/processor.py`, `services/callback.py`) | the job in hand | BRPOP, mark, run, report, complete or fail | payload is gone once popped, also when the reply of BRPOP is lost; 30 s callback patience; shutdown cancels | every queued job is settled, up to named losses |
| GPU slot (`services/gpu_coordinator.py`) | Redis lock with TTL, list of signals, card memory | acquire, check memory, evict, back off, wait, release | lost replies, commands carried out twice, TTL expiry, cancelled threads, wake-ups taken by others, models on the card that no slot accounts for | one computation at a time, memory suffices, nobody waits for ever |
| LatentSync server (`servers/latentsync_server.py`) | resident model | `/infer`, `/unload`, `/reload`, `/health` | unload under inference | model is not freed while used |
| Media runners (`workers/*.py`) | files of one job | ASR, scene cuts, highlights, clips, subtitles, watermark, TTS, talking head | bounds of clips, filtering, grouping | clips inside the video, of bounded length, with cues that fit |
| File service (`media-ai-assets.controller.ts`, `*-storage.service.ts`) | none; files change under it | signed URL, HTTP Range | off-by-one in ranges, stat before stream, three tables of types | the bytes named are the bytes sent; a file is served as what it was filed as |
| Sessions, captcha, SMS (`src/src/auth`) | token version, codes and cooldowns in Redis | register, login, reset password, send code | counter updated and read in two steps; code consumed twice | the newest login is the only session, a code works once |
| Platform accounts (`platform.service.ts`) | bind sessions, accounts, tokens | start bind, callback, poll, cancel, unbind, refresh | browser callback races poll, expiry and cancel; stale entities saved | an account is bound by a live session, at most once |
| Publish drafts (`publish-draft.service.ts`) | drafts, assets, files | create (quota), update, upload, delete | rows held over uploads, file replaced under a request | no row names a missing file, no file is lost track of, a saved payload can be saved again |
| Publish results (`publish-result.service.ts`) | batches, items, draft status | submit, list, detail | retry after a lost answer, comparison with stored data | one batch per client batch id, a replay answers what was stored |
| Material library (`material-library/services`) | materials, groups, tags, links, directories | upload, update, tag, delete | as drafts; links replaced in two statements | files and tags agree with rows |
| Live rooms (`live-room/services`) | rooms, scripts, two Redis caches | admin create / update / remove, user list / enter | fill races invalidation; a lost DEL | a cache entry is fresh, or becomes so |
| Name acquisition (`name-acquisition.service.ts`) | records | batch upsert with deduplication | duplicates inside and across batches | one record per key |
| App release, LLM proxy, health, configuration | none | read, proxy | none | none worth a model |

## 2. Modules

| Module | Content |
|---|---|
| `JobLifecycle` | what a user is promised about a media job: forward-moving status, a result before "completed", retention, deletion |
| `MediaJob` | the API's upload, callbacks, removal and sweep, the Redis lists, the worker's loop, and their faults |
| `MediaJobProps` | the properties of `MediaJob`, the refinement mapping to `JobLifecycle`, the inductive invariant |
| `GpuSlot` | the GPU lock of the workers |
| `LiveRoomCache` | live rooms behind two look-aside caches |
| `OAuthBind` | bind sessions, accounts and tokens of one user on one platform |
| `PublishDraft` | draft rows, asset rows and their files |
| `PublishResult` | reported batches, retried submits, the drafts they publish |
| `MaterialLibrary` | materials, groups, tags, links and directories |
| `SignIn` | captchas, SMS codes, password and token version of one phone number |
| `ServedFile` | a stored file behind a signed link, HTTP ranges, the stream |
| `JobInputs`, `PublishInputs`, `StoredName`, `LiveSlice` | operators only: job forms, draft payloads, names and types of uploads, highlights and clips |
| `Filtering` | what a filter leaves of a list, first-order so that proofs can use it; for `PublishInputs` and `LiveSlice` |
| `ApiInputs` | composes `ServedFile` and the four operator modules: a client with a form |
| `MC*` | the small instances for TLC |
| `*Proofs` | TLAPS proofs about the module of that name; `ApiProofs` about `ApiInputs` (with `ServedFile` in it) and `PublishDraft` |

`ApiInputs` EXTENDS the five modules below it and stutters on `ServedFile`'s
variables while a form is sent. `MediaJobProps` instantiates `JobLifecycle` under
its refinement mapping. The other modules share no state in the code but what is
named below: `PublishResult` has the status of a draft and the stale save of
`PublishDraftService.update` (`RestoreDraft`) as an action of its environment, and
`PublishDraft` has the publication (`Publish`).

### MediaJob and the code

| State | In the code |
|---|---|
| `row[j]` | the row of `media_jobs`: status, whether `inputKey` and `outputKey` are set, progress, whether `errorMessage` is set, and the age of `completedAt` ("recent" or older than the retention, "old") |
| `files[j]` | which of the input, second input, output directory and output exist in the directory of the job |
| `creating[j]` | how far the upload request got |
| `queue[k]` | the Redis list of payloads; the head is popped next |
| `unanswered` | jobs whose LPUSH was carried out and whose reply is lost |
| `repeated`, `lost` | history: payloads that a repeated LPUSH put on a list; payloads popped for nobody, or held by a worker that died |
| `call[m][c]` | the handler of callback `c` for payload `m`: its phase, and what `completeJob` loaded before its first UPDATE |
| `wpc`, `wjob`, `await` | step of a worker's loop, its payload, the callback it awaits |
| `removal[j]` | a `DELETE` in progress |
| `purgeSet`, `purging` | jobs the sweep still has to do, job whose directory it removed and whose keys it has not cleared |
| `deleteRequested`, `faults` | history: jobs whose deletion ever began; faults so far, by kind |

Every `await` that reads or writes one of these places ends an action. An upload
is `InsertRow`, `SaveInput`, `SaveAux`, `SaveKeys`, `Enqueue`; `updateProgress` is
`LoadForProgress`, `WriteProgress`; `completeJob` is `LoadForComplete`,
`UpdateCompleted`, `DeleteInputArtifact`, `ClearInputKey`. `update()` of TypeORM
does nothing to a missing row (`UpdateRow`), `save()` of a held entity inserts it
again (`SaveKeys`). Faults are actions of their own, each bounded by
`FaultBudget`: an upload interrupted at any point (`CreateFails`), a callback
refused (`DropCall`), a worker that gives up on a callback whose handler goes on
(`GiveUp`), a failing unlink or rm (`UnlinkFails`, `RemoveDirectoryFails`,
`PurgeFails`, each possibly half done), and the death of the API (`ApiCrash`) or
of a worker (`WorkerCrash`, also its orderly stop, which cancels the loop with an
exception that `except Exception` does not see).

The two Redis clients retry, each in its way. ioredis, created with its defaults
(`redis.module.ts:14-19`), sends a command again whose reply was lost with the
connection (`autoResendUnfulfilledCommands`): `Enqueue` may leave the LPUSH
unanswered, and `Resend` then pushes a second payload of the job, a member of
`Repeats` that `CopyOf` takes to the job. So a payload has an identity: a job stands
for its first one, two workers may have two payloads of one job, and each of them
sends its own callbacks. On the worker's side a BRPOP may be carried out and its reply
lost: redis-py raises (`queue_consumer.py:55-60` goes on with the loop) or sends the
BRPOP again, and `PopLost` takes the payload off the list for nobody.

`Age` is the passage of the 12 h retention. A job that a request or a worker is
busy with does not age: no request lives for hours.

### GpuSlot and the code

`pc[j]` is the step of `gpu_slot` the thread of job `j` is at; `lock` names the
token stored at the lock's key; `signals` is the length of the list that wakes
waiters; `using` holds the jobs whose computation is on the card; `resident`
says whether the LatentSync server holds its model, `kept` which models the workers
hold in their own processes. `stopped`, `overran`, `blind`, `redeleted` and `repeats`
are history: jobs whose worker was shut down, whose lock expired under them, which were
admitted although `nvidia-smi` failed, whose DEL was carried out twice, and how many
commands were. Each Redis command is
one action (`SetNx`, `BackOff`, `Wake`, `Wait`, `Get`, `Delete`, `Notify`), and
`RedisFails` makes any of them raise, before or after the server carried it out.
`requirements.txt` admits redis-py 6 (`redis>=5.2.0`), which sends a command again when
the connection broke before its answer came: `Repeat` carries it out once more
than the thread knows. A SET NX that is repeated finds the job's own lock and makes it wait
for its own lock to expire; a DEL that is repeated may remove somebody else's.
`Stop` is the cancellation of an awaited thread: the `finally` of the context
manager releases the lock, the thread does not stop.

Two models use the card beside those computations. IndexTTS2 is loaded into the
worker's process by the first TTS job (`indextts2.py:15`, `50-83`, and `86-97` also
when the inference runs in a process of its own) and stays until the process ends:
`Keepers` are the TTS jobs, `InProcess` those of them that compute there too, so that
the model is part of what they need. A transcription on CUDA (`asr_funasr.py:10-30`,
`docker-compose.gpu.yml`) and a synthesis with `INDEXTTS2_DEVICE` unset take no slot:
`LoadBeside` puts a model of `Unslotted` on the card at any time. `Restart` and `Crash`
end the process. `Reserved` is what was loaded after a look at the memory, `Beside`
what was not, and `Used`, which `nvidia-smi` sees, is both. One worker is taken to
serve a list, as the compose file starts them: two payloads of one job carry the same
token, and come to the slot one after the other.

### LiveRoomCache and the code

| State | In the code |
|---|---|
| `db[r]` | the row of a live room together with its scripts, as one content |
| `born` | rooms whose row was ever inserted (ids are UUIDs) |
| `cache[k]` | the two Redis keys of a room: the list of its invitation code and the page of its id |
| `reader[u]` | a user's request between the miss of GET, the `find` and the SETEX, and what it found |
| `admin[a]` | an administrator's request: found the room, committed, about to DEL |
| `lost`, `overlapped` | history: keys whose DEL was lost, keys whose DEL came before the SETEX of a request that had loaded earlier |

A transaction of MySQL is one action (`Create`, `CommitUpdate`, `RemoveRoom`), so is
a Redis command (`GetMiss`, `Fill`, `Invalidate`). `CommitUpdate` does not ask
whether the room still exists: `save()` inserts it again. A hit changes nothing
and is no action. `InvalidateFails` leaves the row written and the keys deleted or
not; `ApiCrash` drops every request.

### OAuthBind and the code

| State | In the code |
|---|---|
| `session[s]` | `oauth_bind_sessions`: status and `account_id`; "none" before the INSERT |
| `late` | sessions whose `expires_at` has passed |
| `account[i]` | `platform_accounts`: the openId (`None` when there is no row) and the status, with `error` and `expired` as one |
| `token` | ids with a row in `platform_tokens` |
| `req[q]` | a handler: where it is, and the session, openId, account and status it holds |
| `used`, `granted`, `lapsed`, `mishaps` | ids inserted so far; history for the properties |

The browser's callback and the client's own completion are the same steps:
`BeginBind`, `Exchange` (both calls of the provider), `FindExisting`, `SaveAccount`,
`SaveToken`, `SaveSession`. They differ in what they make of a late session
(`FindLate`) and in that the callback fails a session of any status when the
provider reports an error (`CallbackError`). The unique index on (user, platform,
openId), the foreign key of tokens and its cascade are guards and effects of the
steps that meet them. The actions of accounts are `UnbindToken`, `UnbindAccount`,
`RenewToken` and `SaveEdit` (`updateAccountStatus`, `updateAccountNickname`, and the
end of `refreshAccountToken`).

### PublishDraft and the code

| State | In the code |
|---|---|
| `draft[d]` | `publish_drafts`: status and the id of the video asset; "none" without a row |
| `asset[a]` | `publish_draft_assets`: the draft and the kind, "video" or the platform of a cover |
| `file[a]` | the draft in whose directory the file of asset `a` lies. A name is new for each upload, so a file and its asset share an identity |
| `req[q]` | a handler: its step, its draft, the row it found, the new asset and the ones it is about to delete |
| `used` | ids given out |
| `overlapped`, `marred` | history: drafts that two requests held at a time; drafts on which a request broke off |

`create` is the quota's count (`BeginCreate`) and the INSERT (`InsertDraft`), two
actions: the quota may be passed by as many requests as overlap, and the model admits
it; `QuotaOvershoot` bounds by how much. `remove` is `ListAssets`, `RemoveDraft` (the
cascade of the foreign key included), `UnlinkListed`. An upload writes its file in
`BeginUpload`, looks for the cover it replaces (`SeekCover`), saves the asset
(`RecordAsset`), deletes the cover it replaced (`RetireFile`, `ForgetAsset`), and
points the draft at a video (`PointDraft`), whose predecessor is looked up
(`LookForOld`) and deleted last. `save()` writes the row the handler found, columns
that did not change excepted, and inserts it again when it is gone. `RecordFails` and
`ReplaceFails` are the two `catch` blocks, `RequestDies` a crash or an error anywhere
else.

### PublishResult and the code

`batch[b]` is a row of `publish_batches` with its items by account; `draft` and
`account` are the rows it refers to. `submit` checks draft and counts (`Submit`),
accounts (`CheckAccounts`), looks for the batch of its key (`Lookup`), compares
(`Compare`) or writes batch, items and the draft's status in one transaction
(`Persist`), which the unique index may refuse (`PersistFails`). A body is
*canonical* when MySQL gives its times and its cart back as the text that was sent.
`RemoveDraft`, `RestoreDraft` and `Unbind` are what other services do to the rows:
`ON DELETE SET NULL` of the draft, cascade of the accounts. `origin`, `changed`,
`crowded` and `reverted` are history: the body a batch was created from, batches
that lost their draft or an item, keys two requests held at a time, drafts whose
status an overlapping save took back.

### MaterialLibrary and the code

`material`, `groupOf`, `links`, `shelf` are the rows of materials, their group,
the links of tags, and the rows of groups and tags; `dir` the directories on the
disk. `upload` writes the file (`BeginUpload`), the row (`InsertMaterial`), and the
links (`UnlinkTags`, `LinkTags`, as `replaceTagLinks` deletes and inserts them);
its `catch` is `UploadFails`. `update` and the change of tags hold the entity they
found (`SaveMaterial`, `CheckTags`); `remove` follows `RemovalOrder`: links, row,
directory. Groups and tags are one set of rows with the same handlers
(`CreateShelf`, `BeginRename`, `SaveName`, `RemoveShelf`), the removal of either with
what its foreign key does. History: ids removed (`gone`), the tags last put on a
material (`asked`), overlapping requests, requests that broke off, uploads that
failed after their row was saved (`halfway`).

### SignIn and the code

`user` has the password and the token version, `tokens` the tokens given out, with
the version each carries and, as history, the one its own UPDATE made (`own`), the
password it was got with, and whether that password changed between its check and
the sign-in (`late`). `store` and `cooldown` are the keys in Redis. `Present` is GET and
comparison of a code, `DeleteCode` its DEL; `incrementTokenVersion` is `RaiseVersion`
(UPDATE) and `SignToken` (SELECT, sign). `JwtStrategy.validate` is the set `Accepted`.
A reset is `UpdatePassword`, then `RaiseVersion`. `Expire` and `CoolDown` are the
times to live. Codes are not drawn twice, so a code that is used again was stored
once and read twice.

### ServedFile and the code

`get` is one request of a content endpoint: the link is verified (`Ask`), the file
measured and the headers computed (`Measure`), the stream opened and read
(`Stream`). `Change` is the worker that writes the output again, or a removal.
`StartOf`, `EndOf` and `Piece` are `openStreamWithRange`; the drafts' endpoint reads
no Range header and sends no Content-Length.

### The operators of ApiInputs

| Module | Operators and code |
|---|---|
| `JobInputs` | `RulesOf`: the class fields and their bounds; `Parsed`, `Strict`: how a text becomes a number (`parseInt` with a fallback, `Number()`); `Accepted`: what the endpoint lets pass; `SavedFiles`, `JobKeys`, `DeletedFiles`: the files of a creation and those the verdict deletes; `WorkerTakes`: what the runners demand; `SchemaOf`: what `GET .../params` tells a client |
| `PublishInputs` | `PayloadValid`, `ValidatePayload`, `SaveAnswer`: the checks in their order; `NormalPayload`: what is stored |
| `StoredName` | `DetectMaterialType`, `StoredExt`, `GuessMimeType`: from the type of an upload to its name on the disk and back |
| `LiveSlice` | `RuleBased`, `Wanted`, `ByScore`, `Highlights`: `analyze_highlights`; `Snapped`, `ClipOf`: the ends of a clip; `Heard`, `CueOf`, `Cues`: its subtitle |

A text is a class ("none", "blank", "fits", "long"); a mime type and an extension
stand for all that the same tables list; a time is a whole second.

## 3. Runs

| Run | Instance | What it shows |
|---|---|---|
| `media_job_faults` | one job with two inputs whose LPUSH may be sent twice, two workers; a lost BRPOP reply, a late handler, a failing unlink or rm | `SingleDelivery`: each payload is in one place, and only a repeated LPUSH gives a job two; `NoJobForgotten`: until the verdict is in its row, a list, a worker or the report of its failure has an enqueued job, unless one of four named losses befell it; `InputAvailable`, `CompletedHasOutput`, `CallbacksNeverResurrect` |
| `media_job_lifecycle` | two jobs on two lists, one with two inputs, one worker; refused callbacks, interrupted uploads, worker crashes | `MediaJob` implements `JobLifecycle` when no handler outlives its client; then a completed job also shows 100 (`CompletedIsFull`) |
| `media_job_live` | one job whose LPUSH may be sent twice, one worker, every fault but late handlers and worker crashes | a sweep that breaks off anywhere leaves no file that the next would not find (`SweptClean`); an enqueued job settles unless its payload or the report of its failure got lost (`EnqueuedJobsSettle`), and its files are reclaimed unless it was pushed twice (`StorageReclaimed`) |
| `gpu_slot` | a LatentSync (14 GB) and a TTS job (6) on 16 GB with a 10 GB resident model; IndexTTS2 (5 GB) stays in its worker's process, a transcription (3 GB) takes no slot; either may outlast its lock or be stopped, one Redis command is carried out twice | `ExclusiveUse`, `MemoryFits`, `DeletesOwnLock`, and `EveryoneServed`: whoever asks leaves the slot, unless a model in a worker's process leaves too little memory for a job at the slot |
| `live_room_cache` | one room, two contents, two users, two administrators | a cache is wrong only with a DEL to come or after one of two named accidents (`FreshUnlessExposed`), and does not stay wrong (`EventuallyFresh`) |
| `oauth_bind` | two sessions, one openId, two ids, two requests | `SuccessIsBacked`, `BoundOnce`, and the three accidents after which an account may lack its token (`AccountHasToken`) |
| `publish_draft` | two drafts with a quota of one, two assets, one platform, two requests | `VideoResolves`: a crash or a failing disk never leaves a video id dangling, only overlapping requests do; `CoverResolves`, `NoOrphanFile` |
| `publish_result` | one key, one draft, two accounts, five bodies, two batches, two requests | `ReplayIsFaithful`, `DuplicateMeansRace`, `PublishedTogether` |
| `publish_result_retry` | as `publish_result` | **violated**: an identical retry is answered with the stored batch (`RetryIsReplayed`) |
| `material_library` | one material, one group, two tags, two requests | `MaterialHasFile`, `NoOrphanDirectory`, `TagsAsAsked`, `RemovedStaysRemoved`, each up to a named accident |
| `sign_in` | two captchas, two codes, two passwords, two requests | `SingleSession`, `OldPasswordOut`, `GoodForOne`, each up to a named race |
| `api_inputs` | forms, payloads (two client ids, two accounts), uploads and recordings (two keywords) near every bound; files of 0, 1, 3, 4 bytes | `JobIsRunnable`, `InputsAreDeleted`, `SchemaIsHonest`, `SavedSavesAgain`, `ClipPlays`, `PlaysAsFiled`, `PieceServed`, `BodyAsPromised` |

The properties name their exceptions. That is what most of them say: *which* accident
(an overlap, a crash at one point, a lost DEL) is needed before a row and a file, a
code and its use, a cache and its row disagree, and that no other one is enough.

**Bounds.** `FaultBudget` allows one fault of a kind: two faults of *different*
kinds in one behaviour are what breaks these protocols. The kinds are spread over the
three runs of `MediaJob`: those that lose or delay something with two workers and two
payloads (`media_job_faults`), those that refuse or kill with two jobs
(`media_job_lifecycle`), and all that leave liveness alone with one worker
(`media_job_live`). The theorems have no budget: each safety property holds for any
number of faults of all kinds together. Two workers are enough for two payloads to be
worked on at a time, and one further payload is the least that gives a job two;
a third worker adds nothing, since workers share only the lists. Progress reports are
reduced to the stages 5 and 100 (`Stages`). Two jobs of the GPU are the least with one
computing and one waiting; each in turn holds the slot, waits, and is squeezed by what
the other left on the card. For more of them the safety of the slot is proved. The
length of the list of signals is not bounded by a constant, it is bounded by the number
of releases and of repeated commands (`MaxRepeats`). One room suffices because codes
and ids are never shared between rooms.
Two sessions and one openId are the least for two binds of one account; ids are as
many as sessions, so each may insert.

In `publish_draft`, `publish_result`, `material_library` and `sign_in` two requests
are served at a time: each hazard listed is a pair of handlers, and the histories of
overlap are about pairs. Ids are given out once (`used`, `gone`, `drawn`), which
bounds the behaviours: two drafts are the least that pass a quota of one, two assets
the least for a replacement, one material is enough because materials share only
groups and tags, two captchas and two codes give two logins and two uses of a code.
The token version is not capped: the tickets bound it. Deaths of requests and
failing calls are not budgeted, they may happen in every step.

`api_inputs` has one request of a form in a behaviour, since the checks read nothing
another request writes, and one request for a file. Numbers stand on both sides of
each bound and of the default, whole and with a fraction, as junk, as a number with a
tail, empty and absent; one field at a time, but for `minDuration` with
`maxDuration` and for the emotion's method with its upload and vector, which are
checked together. A payload has two items and two overrides at most, which is what
duplicates need. Recordings have two or three segments of 1, 4 or 7 s with pauses of
0 or 3 s, for clips of 5 to 10 s with the tolerance of 2 s that the code has: short,
fitting and too long windows, and boundaries on either side of an end, all occur.
File sizes 0, 1, 3, 4 with offsets 0 to 5 put each side of a range inside the file,
on its last byte and behind it.

No queue, counter or history is cut off by a state constraint. Symmetry is used in
safety runs only, over ids that no definition tells apart. Deadlock is not checked:
once the ids of an instance are used up and every request is served, the systems
rest.

**Fairness.** `MediaJob`: weak fairness of every handler, of a worker's loop, of the
passage of time and of the hourly sweep, which the event loops, the timer of
`onModuleInit` and the clock give; none for users, faults or crashes. A crashed API
is up again at once, as under the restart policy of the compose file. `GpuSlot`:
weak fairness of each thread's own steps, of the end of computations and of the
lock's expiry, and strong fairness of a successful eviction: the LatentSync server
may refuse unloads, but not every one of them. `LiveRoomCache`: weak fairness of a
user's request once it missed, and of key expiry, nothing for administrators.
The other modules have no liveness property: a request may die in every step, and
nothing in the code takes up what it left.

**Mutants.** Each property of a passing run is broken by one change of the code that
it is meant to notice; the changed definitions are marked `Mutant` in the modules and
paired with the property in PROJECT.json.

## 4. Proofs

All proofs are for any value of the constants, under the named assumptions that are
declared beside them. They only say that null values are distinct from the real ones,
that the ids of different tables are, that routes, polling orders, requirements and
budgets have their types, that `GPU_LATENTSYNC_REQUIRED_MB` and
`GPU_INDEXTTS2_REQUIRED_MB` cover the models that such jobs run, and that a TTS job is
no LatentSync job (`GpuSlotAssumption`); `Jobs`, `Workers`, `Rooms`, `Materials` and
so on may be infinite, except what is counted: the drafts and requests of
`PublishDraft`, whose quota counts drafts, the accounts of `PublishResult`, and the
keywords of the slicer (`WordsAreFinite`: they are a list in the source). Each proof
module shows that its invariant holds initially and is kept by every action, one lemma
for an action, and derives the properties from it. `TypeOK` (`ServedTypeOK`) of each
of the nine modules is part of it, so types are proved and not a property of a run.

`MediaJobProofs`. `IInv` (in `MediaJobProps`). `SingleDelivery` alone is not
inductive, since an LPUSH of a payload that is already somewhere would break it: it
needs to know that only payloads that were pushed are in a list or at a worker
(`QueueInv`, `HoldInv`), that an LPUSH is repeated only after it was sent, and that
nothing was called for a payload before it was pushed (`CopyInv`). What `IInv` says of
files and of the sweep it says of the jobs that have one payload (`Once`): the verdict
on one payload deletes the inputs that the worker of the other may be about to read.
`InputAvailable` needs to know who may still delete inputs: nobody, as long as the
final callbacks are unsent (`ServedInv`, `InputInv`), and the sweep touches only jobs
that are `Retired` (`RetiredInv`). `CompletedHasOutput` needs the output of a job
whose worker is past writing it, before the row says so (`OutputInv`). `WorkerInv`
ties a worker's step to the callback it awaits. The lemmas that name an action prove
that it keeps `IInv`; the `...Facts` lemmas say once what the helpers on rows,
callbacks and files do. Theorems: `TypeCorrect`, `DeliveredOnce`, `ErrorConsistent`,
`InputsKept`, `OutputsKept`, `SweepSpares`, `NoResurrection` (an action property), and
two with an invariant of their own beside `IInv`.

`NoneForgotten` (`NoJobForgotten`): until the verdict of an enqueued job is in its row,
a list, a worker or the report of its failure has a payload of the job. The ways in
which the code does lose a payload are named: the report of the failure got lost, the
worker crashed, the reply of the BRPOP got lost, a mark was handled after the failure
and the row says processing again. That a job was pushed twice is no excuse. `HandInv`
is what it takes: a queued payload was never called for (`QuietInv`); a worker that is
past the report of a failure has sent it, and a mark in flight has its worker before or
in the failure (`ReportedInv`); a mark in flight after that report is a late one
(`LateMarkInv`); a row says pending only while no payload of the job brought a verdict
(`PendingInv`), and processing only as long as some payload was marked and has not, or
was marked too late (`ProcessingInv`); and whoever let go of a payload reported it or
lost it (`LetGoInv`). `SweptAway` (`SweptClean`): a settled job that the sweep does not
look for any more has no file left. `SweepInv` has the order of the two steps of the
sweep (the rm before the UPDATE of the keys), and that a job without keys is retired,
which it stays, so that nobody writes into its directory again; it is about jobs that
were pushed once, since a second payload is run after the sweep.

Two more theorems are about behaviours with fewer faults, which the runs
`media_job_live` and `media_job_lifecycle` have too. `CompletedFull` assumes
`Patient`: no callback handler outlives the 30 s its worker waits; it is about the
jobs of one payload. `PatientInv` then says that a callback is in flight only while a
worker that holds the job awaits it (`FlightInv`), so no progress report is left when
the verdict is written; with a late handler the statement is false, as section 5 says.
`RefinesLifecycle` assumes `OnlyRefusals` (callbacks are refused, uploads break off,
BRPOP replies get lost, workers crash; no late handler, no failing disk, no API crash,
no LPUSH sent twice) and shows that `MediaJob` implements `JobLifecycle`. It needs
`FinalInv`: a verdict is sent once and after the mark, and a row says "completed" or
"failed" only if that callback was decided. The mapping goes action by action, and
every other action stutters:

| `MediaJob` | `JobLifecycle` |
|---|---|
| `InsertRow`, `SaveKeys` of a row that is gone | `Submit` |
| `MarkProcessing` | `Start` |
| `WriteOutput`, `RunFails` after part of the output | `Produce` |
| `UpdateCompleted` of `Done`, of `Fail` | `Complete`, `GiveUpOn` |
| `RemoveJobDirectory`, `PurgeDirectory` | `Expire` |
| `FindForRemoval` | `Discard` |
| `RemoveRow` | `Forget` |

`GpuSlotProofs`. `SlotInv`: until some job outlasts its lock or a DEL is carried out
twice (`Sure`), whoever is past a successful SET NX and before its DEL has its token
in Redis. From it follow `Exclusion`, `OwnLockOnly` and `EvictionIsIdle`. `MemoryInv`:
a job that was let in (`pc` is "granted") still has the memory it saw free, because
the lock keeps everybody else from what is `Reserved`. From it follows
`MemorySuffices`: the card is never exceeded by more than what was loaded beside the
slot. The ways out are named: a shutdown, a lock that expired under its job, a DEL
carried out twice, an `nvidia-smi` that did not answer. What is reserved is a sum over
the jobs that use it; with exclusive use it has at most one term, which is all the
proof needs to know of the sum (`UsedFacts`).

`LiveRoomCacheProofs`. `FreshInv`: what a request has *loaded* is excused as what is
in the cache is (`LoadedInv`), otherwise a fill could make a cache wrong without an
accident; no missing page is on its way to the cache (`PageInv`); and a room never
inserted has no page, no request and no DEL (`UnbornInv`), which is why `create` need
not delete the page. Theorem: `StaleIsExcused`.

`OAuthBindProofs`. `BindInv`: what a request holds fits its next step (`Sound`; a
request that is about to save an account it *found* holds one that has lapsed,
because bound ones are refused), an account that is not bound has lapsed
(`StatusInv`), and an account that never lapsed has one claimant, a session or the
request that is about to make it one (`OneClaim`). `BoundOnce` alone is not
inductive: two requests past `SaveAccount` with one id would break it.
`RequestMoves` treats all steps that write nothing but the request. Theorems:
`TokensPresent`, `SuccessBacked`, `BoundByOne`, `BindTypeCorrect`.

`PublishResultProofs`. `ResultInv`: a key two requests hold is crowded (`CrowdInv`),
a batch nobody changed says what it was created from (`StoredInv`), and a batch that
appeared after a request looked for it has a crowded key, while one it found had the
draft it saw (`Sound`). Without the last, `ReplayIsFaithful` could not survive
`Compare`. Theorems: `FaithfulReplay`, `CausedConflict`, `RacedDuplicate`,
`TogetherPublished`.

`MaterialLibraryProofs`. `MaterialInv`: a material a request is to write is there or
was held by two (`SoundInv`), an upload is alone with its id until its row is there
(`HeldInv`), and the tags last asked for are on the shelf, but in the midst of a
removal (`TagsInv`). Theorems: `ShownHasFile`, `DirectoryHasRow`, `RightTags`,
`GoneStaysGone` (an action property).

`SignInProofs`. `SignInv`: no two tokens or requests got the same version from their
own UPDATE (`OwnInv`), which is what `SingleSession` needs; a request about to sign a
token of the version in force was given the password in force, up to the named
races (`Sound`, `InForce`); what is stored in Redis was drawn, is stored once, and is
read a second time only by overlapping requests (`StoreInv`). Theorems: `OneSession`,
`NoOldPassword`, `GoodOnce`, `CodeBeforeAccount`.

`ApiProofs`, drafts. `DraftInv` (in `PublishDraft`). `VideoResolves` alone says nothing
about what a request is about to write: it is inductive only with what the requests
hold. Ids are given out once, so every asset has a *home*, the one draft that its
row, its file and every request and row naming it belong to (`OwnInv`); two requests
at one draft are known of, and a draft being created has one request (`LoneInv`); and
a request that is alone at its draft finds everything as it left it: the row it read,
the file it wrote, the asset it is about to delete (`RowKept`, `NewKept`, `OldKept`),
while what it leaves behind at any step is a draft whose video resolves, whose covers
have files and whose files have assets, but for what is in its hands (`Tidy`). A step
turns one request and touches one draft; `TypeFrame` to `TidyFrame` show once that such
a step keeps everything about the other drafts, and each action's lemma is left with
its own draft. Theorems: `DraftInvariance`, `DraftTypeCorrect`, `VideoThere`,
`CoverThere`, `NoFileLost`.

`ApiProofs`, quota. `QuotaBounded`: the draft box holds at most the quota and one draft
for every other request served at a time (`QuotaOvershoot`). The number of drafts in
the box is not inductive, since an INSERT checks nothing, and a save may bring a draft
back that was removed or published meanwhile. What the box holds *or will soon hold*
is (`Soon`, `QuotaInv`): a request may put in the draft it is about to insert, or the
one it found as a draft, which was counted before. Only `BeginCreate` adds to that, and
it has just counted the box below its quota, while the requests under way add one
draft each (`CreateCounts`; all other steps shrink `Soon` or leave it).

`ApiProofs`, content. `ServedInv`: the headers are those of the size that was
measured, and until the file is touched it has that size (`MeasuredInv`). The lemmas
on `EndOf` and `Piece` are arithmetic over any size and any offset. A step of
`ApiInputs` is a step of `ServedFile` or leaves it alone (`ContentIsServed`). Theorems:
`PieceRight`, `LengthKept`.

`ApiProofs`, inputs. The lemmas are about every form of the right shape, not only
those that a run sends: any whole or fractional number, junk or nothing in any field,
any upload (`JobFormShape`). The forms of `ApiInputs` have that shape (`InputsInv`), so
the theorems follow for its behaviours. `AcceptedField`: what passes the checks lies
in the bounds of its field, whatever conversion it went through. `SchemaBounds`: the
advertised bounds are the checked ones, field by field. `RunnersTakeJobs`,
`DeletesAllInputs`, `SchemaKept` and `UploadsPlay` are the properties of the run.

`ApiProofs`, lists. What `Filtered`, a flattening or a ranking makes of a list of any
length needs induction. The library's induction theorems take an operator, so the
proofs use the well-foundedness of the natural numbers as a fact about *sets*: a set of
naturals that is not empty has a least member (`LeastNumber`, from `WFMin`), hence one
that has 0 and with each number the next has all (`UpTo`), hence a table with a given
first entry and a given step exists (`Recursion`). From it `FilteredFacts`: what
`Filtered` leaves are the entries at the positions, in their order and each once.
`EachRankTaken` does the same for `ByScore`: under a total order of n things, counting
those before gives each rank from 1 to n to one of them, since an injection of a finite
set into itself meets all of it.

`ApiProofs`, payloads. `DraftStays` is about any payload whatever (`PayloadForms`), with
any number of items, overrides and accounts: `NormalPayload` is idempotent
(`NormalTwice`), and a payload that was accepted is accepted as it was stored, unless
two client ids differ in blanks only. The pieces are `DistinctTwice` (a list without
repetition is left alone), `OverridesTwice` (what `normalizePlatformOverrides` keeps it
keeps again, as the cart it adds gives no override up), and `PassesWhen` (the answer of
`validatePayload`, the first that is not "ok", is "ok" when all are). `SavedAgain` is
the property of the run.

`ApiProofs`, clips. `AnyClipPlays` is about any recording whatever (`RecordingForms`):
any number of segments one after another, as the speech recogniser gives them, any
keywords, any answer of the language model, any scene boundaries in the video, any
lengths. A highlight is never shorter than the least length (`HighlightsFit`: of
windows `FlushedFit` and `RuleBasedFit`, of proposals `WantedFit`, and the ranking
invents none, `ByScoreFit`), so it is longer than the tolerance, and its clip lies in
the video with the length that was asked for (`ClipInVideo`); the cues are those of
the segments heard, in their order (`CuesFitClip`). `ClipsPlay` is the property of the
run.

`SweepSpares`, `ErrorConsistent`, `EvictionIsIdle`, `CausedConflict`,
`CodeBeforeAccount` and `QuotaBounded` are proved of invariants that no run checks. (The
bound of `QuotaBounded` is two for two requests with a quota of one, which the two
drafts of `publish_draft` cannot pass.)

Every safety property of a passing run is proved. Only model-checked is the liveness,
`EnqueuedJobsSettle`, `StorageReclaimed`, `EveryoneServed` and `EventuallyFresh`:
fairness and ENABLED are out of the prover's reach. That the forms which `ApiInputs`
sends have the shapes the proofs are about is proved too (`JobFormsShaped`,
`PayloadsShaped`, `RecordingsShaped`), so what is proved of every shape holds of them.

## 5. Disagreements

With a run: `publish_result_retry`. `submit` compares the texts of times and carts
with what MySQL makes of them, and a body that was accepted is refused as a
conflict when it is sent again (PROJECT.json quotes the line).

Seen in the models, with no run kept for them:

- A status does not only move forward: a `processing` callback whose handler is late
  reopens a failed job (`media-ai.service.ts:491`, `docs/subtitle-recognition-api.md:253`).
- A `processing` job need not have a worker, nor a `pending` one a payload: BRPOP takes
  the payload off the list, and a worker that dies or a reply that does not arrive
  loses it (`queue_consumer.py:44`, `docs/task-center-api.md:148`).
- A job may be run twice, by two workers at a time: ioredis repeats an LPUSH whose
  reply was lost (`redis.module.ts:14`). The verdict of one run deletes the inputs of
  the other.
- A LatentSync job may back off for ever next to a worker that once synthesised speech
  in its own process: nothing evicts IndexTTS2 (`indextts2.py:15`), as
  `media-worker/.env.example:54` warns.
- DELETE of a job a worker is busy with leaves files: the worker writes its output
  after the rm (`media-ai.service.ts:534`, `docs/live-slice-api.md:418`).
- More than one GPU task may run: a worker that is stopped releases the lock while
  its thread computes on (`gpu_coordinator.py:216`, `media-worker/.env.example:17`).
- Users may get old texts after a save: a SETEX of what was read before the save comes
  after its DEL (`live-room.service.ts:51`, `docs/live-room-api.md:53`).
- A cancelled bind may succeed: the completion saves the session it held
  (`platform.service.ts:323`, `docs/platform-accounts-api.md:173`). The poll that finds a
  session late overwrites a success the same way (`platform.service.ts:183`).
- A late progress report lowers the 100 of a completed job: `updateProgress`
  (`media-ai.service.ts:487`) writes after an await, without a condition.
- An upload interrupted before LPUSH leaves a `pending` row that nothing enqueues;
  `docs/task-center-api.md:147` says pending is queued.
- A failed report does not clear an `errorMessage` when the job becomes
  `processing` again; `docs/task-center-api.md:106` says it is set only when failed.
- The resident LatentSync model is evicted by a job of its own kind when the memory
  it leaves does not meet that job's requirement; `docs/latentsync-api.md:149` says
  that it stays. Every release pushes a signal, also when nobody waits
  (`gpu_coordinator.py:201`), and a requirement above the card's memory takes and
  returns the lock for ever (`:139`).
- `update` of a live room that is removed meanwhile inserts it again.
- A second bind of an openId answers 400: `completeBindWithCode` catches the
  ConflictException; `docs/platform-accounts-api.md:69` documents 409.
- Job forms: a watermark without a file is a TypeError and answers 500, not 400;
  booleans of LatentSync and FlashHead are `true` and `false` in lower case only; a
  speech text of blanks and a watermark fontSize with a fraction are accepted and
  fail in the worker (the exceptions of `JobIsRunnable`).
- Draft payloads: a customised override without a title answers 500; the bounds of
  `PublishDraftPlatformOverrideDto` are never enforced, since its field is only
  `@IsObject`; two client ids that only blanks tell apart are accepted once and
  refused when the stored draft is saved again.
- `.avi` and `.bmp` are taken by all stores and missing from the type tables of
  some (the exceptions of `PlaysAsFiled`).
- `material_groups` has no unique index, though the handler of ER_DUP_ENTRY expects
  one; both quotas are counted first and inserted after. An upload that fails at its
  tags deletes its directory and keeps its row.
- The status "published" is overwritten by an update that overlapped the submit.
- Highlights of the language model are not checked against the length of the video;
  the fallback for `end_sec <= start_sec` is never taken, since a highlight lasts 5 s
  at least and each end moves by 2 s at most.
- A registration uses its code up before the referral code is checked; two requests
  to send may both find no cooldown.

## 6. Not modelled

Signatures, encryption, password hashing and tokens (cryptography); HTTP clients of
the LLM, of SMS and of publishing platforms; ffmpeg and the inference engines, of
which only their effect on files, progress and the card is modelled; formatting and
wiring; migrations, whose indexes appear as guards. The inside of the LatentSync
server (an inference beside `/unload` and `/reload`) is one flag of `GpuSlot`. The
texts of subtitles, the chunks of ASR and the layout of watermarks are formatting.
Name acquisition is one upsert for 500 records, decided by a unique index. MySQL's
isolation is taken as serializable for one transaction and not assumed between two
statements. Network profiles and accounts added by hand are left out of `OAuthBind`:
no session or token belongs to them. Names and the quota are left out of
`MaterialLibrary`, and so is an upload without tags whose COMMIT is carried out and
not answered, which its `catch` takes for a failure. The e-mailed and displayed parts
of a user are left out of `SignIn`, which also has no tokens without a version, as
older releases signed them, and reads `existsByPhone` with the captcha's or the code's
GET. Two users never share a row, so each model has one user.

## 7. Plan

1. The slot inside the job: `GpuSlot` and `MediaJob` composed for a worker that is
   shut down with a job on the card, and the server side of LatentSync.
2. The refinement of `JobLifecycle` with late handlers, against a lifecycle in which a
   status may fall back to "processing" once: what is still promised then.
3. The quota of materials, which is counted and passed as that of drafts is
   (`QuotaOvershoot`): `MaterialLibrary` leaves it out.
4. An order of segments that overlap, which `RecordingForms` excludes, and what the
   cues of a clip are then.
