# ContentGlows, specified

ContentGlows is a content and video production service: a FastAPI backend
(`lab/`), a Flutter application (`app/`), a Remotion render worker (`worker/`)
and a site (`site/`). This directory holds TLA+ models of the parts whose
correctness depends on the order in which several actors act, the TLC runs that
check them, and TLAPS proofs of their main invariants. Every definition is
translated from the source lines `PROJECT.json` maps it to.

## 1. Inventory

How the parts interact: the Flutter client calls the backend's routers over
HTTP and retries; the routers call services and stores in the same process. Two
styles of persistence meet. `video_source_intake_store`, `video_timeline_store`,
`job_store` and the other async stores send one autocommitted statement per
`await` to a shared libSQL database, so any two statements of two requests may
interleave, in one process or in several. `StatusService` is synchronous and
runs either on the event loop (atomic there) or in a thread. A scheduler loop
inside each backend process ticks over the same rows. Object storage, the
publishing provider and the render worker are remote and fail independently.

| Component | State | Operations | What is hard |
|---|---|---|---|
| Media upload (`video_source_media_service.py`) | upload session row, source row, bucket versions, asset usages | create session, upload / complete, cancel, remove source | races for one row, compensation over three systems that each may fail |
| Media reconciliation (`video_source_media_reconciliation.py`) | lease, attempts, cleanup plan | run_batch: expire, contain, clean, defer | leases that lapse under a live holder, stale reads, crash between steps |
| Object storage (`s3_object_storage.py`) | provider sessions, versions | provision, put, complete, abort, delete | process-local session state, lost replies |
| Source folder (`video_source_intake_store.py`, `_service.py`) | folder revision, status, ready revision, handoff rows | add, retry, remove, mark ready, generate | optimistic revision checked apart from the writes it guards |
| Render worker (`worker/server/index.ts`) | in-memory job map, stored files | submit, poll, cancel, render, daily cleanup | a job written back from a copy taken before an await, a restart that forgets everything |
| Timelines and renders (`video_timelines.py`, `video_timeline_store.py`, `reel_renders.py`) | drafts, versions, render jobs, approvals; reel rows in the job store | save, version, preview, approve, final, publish, poll, cancel | comparisons apart from the writes they guard, rows updated from old copies, lost replies |
| Content lifecycle (`status/service.py`, `schemas.py`) | content status, date, metadata | transition, schedule | several writers of one record: users, publishing, the scheduler, drip plans |
| Publishing (`routers/publish.py`) | publication metadata of a record; the provider's posts | publish, answer of the provider, retry | a guard that reserves nothing, lost and late answers, request ids that must be used again |
| Scheduler (`scheduler/scheduler_service.py`) | schedule jobs, tick counters | due jobs, auto-transition, reconciliation | next dates written after an await |
| Drip plans (`drip_service.py`) | plan, records, files and their front matter, schedule job | import, schedule, activate, pause, resume, cancel, delete, tick | a stop inside a tick, files restored after they are out, jobs that outlive a pause |
| Project intelligence (`project_intelligence_service.py`, `_store.py`) | jobs, sources, documents, evidence, recommendations | ingest, remove, rebuild | rebuilds from listings that others change meanwhile, duplicates, half-done ingestions |
| Generation jobs (`job_store.py`, `branded_video_generation_service.py`) | job rows | enqueue, update | idempotent enqueue, update as read and write |
| Project assets (`status/service.py`, `asset_understanding.py`) | assets, usages, understanding jobs | link, tombstone, clean up, restore | cleanup racing a new use |
| Offline queue (`app/lib/providers`) | queued mutations on the device | enqueue, replay, remap ids | replay order, duplicate replay |

The remaining parts (user data and keys, AI runtime, image
generation, brand profiles, placements, sign-in handoff, analytics, agents,
Android capture, site) are listed in `PROJECT.json` with the reason each is left
aside: they hold one row per user or request, wrap an external API, or have no
state.

What makes the main components correct:

- *upload*: one completion owns a session; what is ready is backed by an asset
  and an object; what a failed compensation leaves is exactly what is written
  down; session and source end in agreement; everything settles.
- *reconciliation*: one instance repairs a session at a time; a repair never
  undoes what a request decided; every session leaves the active statuses.
- *folder*: a ready revision names a set of sources that were all usable; a
  generation request is created once per revision and key.
- *render worker*: a job ends once; one that was cancelled in time is not
  delivered.
- *timelines and reels*: what is shown as completed has a video; a final rests on
  a preview of the same version (content) that was rendered and, for timelines,
  approved; nothing stays under way for ever. (That no accepted edit of a draft is
  lost would belong here; the code does not make it so, section 5.)
- *publishing*: a timeout, a broken or late call or a stop never costs the record
  its hold of a live post, nor makes it say published of a post that is not out;
  an unknown outcome is settled.
- *drip plans*: an active plan has exactly one live job; what a tick has published
  is not held back again; what is due is released.
- *project intelligence*: a text is evidence once; once the requests are answered,
  no recommendation names a removed source.

## 2. Modules

| Module | Models |
|---|---|
| `MediaUpload` | one upload session and its source, with the requests and reconcilers that touch them |
| `UploadOutcome` | what the requests promise about one session, seen from outside |
| `MCMediaUpload` | TLC instance: symmetry of interchangeable actors |
| `MediaUpload_proofs` | theorems of `MediaUpload` |
| `SourceFolder` | one folder: its edits, its readiness, the handoff of a generation request to the job store |
| `GenerationPromise` | what the folder promises to whoever asks for a video |
| `MCSourceFolder` | TLC instance: symmetry of interchangeable actors, sources and keys |
| `SourceFolder_proofs` | theorems of `SourceFolder`: types, serial edits, refinement of `GenerationPromise`, agreement of answers, when a ready folder is usable |
| `RenderWorker` | the worker's job map and its renders; instantiated by the next two |
| `RenderPromise` | what the worker promises of each job |
| `VideoTimeline`, `MCVideoTimeline` | one timeline with its versions and render jobs, composed with the worker |
| `ReelRenders`, `MCReelRenders` | the reels of one user in the job store, composed with the worker |
| `ContentLifecycle` | the statuses of a content record and the matrix of its moves |
| `Publishing`, `MCPublishing` | one record, its publication and everybody else who writes it, over the lifecycle |
| `DripPlan`, `MCDripPlan` | one plan with its records, files and jobs, and the scheduler, over the lifecycle |
| `ProjectIntelligence`, `MCProjectIntelligence` | the memory of one project |
| `RenderWorker_proofs`, `VideoTimeline_proofs`, `ReelRenders_proofs` | theorems of the worker and of the two systems composed with it, which use those of the worker |
| `Publishing_proofs`, `DripPlan_proofs`, `ProjectIntelligence_proofs` | theorems of those modules |

### MediaUpload

State. `status, plan, planAssets, attempts, lease` are columns of
`video_source_upload_sessions`; `sourceStatus, sourceAsset` of `video_sources`;
`oldStatus, oldUsage` belong to the source an upload replaces. `objects` are the
versions in the bucket, `usages` the asset links of the folder, `provider` and
`version` the provider's side of the session. `held`, `own`, `snap`, `sawAsset`
are what requests and reconcilers keep in local variables across awaits. Time is
four flags: the session expired, the processing mark is stale, the lease lapsed,
the backoff still runs.

Steps. A database statement, or a storage call together with nothing else, is
one action: `create_upload_session` is `CreateFindReplay, CreateAddSource,
CreateProvision, CreateRecord, CreateDiscard`; `upload_proxy` and
`complete_multipart` share `LoadSession ... SettleSource`, where `_finalize_locator`
starts at `Claim` and its two exception handlers at `RollbackAssets`;
`abort_upload` is the `Abort*` actions, `remove_source` the `Remove*` ones, and
`run_batch` runs from `ListCandidates` to `Report`. Each external call may fail;
a failing one takes the path of the handler the code gives it. A storage call that
raises may have stored its version all the same: the reply was lost, or the
verification failed and the best-effort delete of the store with it. Nobody then
has the locator, and the version is `"unreturned"` (`MayLeave`): no compensation
deletes it and no plan names it (section 5). `Crash` stops an
actor between any two steps. `unlink_video_source_usages` clears all usages of
the source, so `RollbackAssets`, `RemoveDetach` and `CleanupAssets` set `usages`
to the empty set.

Abstractions. One session and its one source are modelled: sessions share no
row. The folder's revision is an outcome: the bump after an insert or a removal
may fail (`CreateAddSource` to "done", `RemoveWrite` to "done"). Bytes,
checksums, formats, error codes and the time zone of timestamps are left out.
`attempts` saturates at `MaxAttempts`, which is where the code only compares it.
The asset rows behind the usages are left to the project assets component.

`UploadOutcome` keeps `outcome` and `published` only. It is implemented by the
requests (`ImplementsOutcome`), not by the reconciler (section 5).

### SourceFolder

State. `revision, status, readyRevision, enqueue, requestId` are columns of the
one row of `video_source_folders`; `source` is `video_sources`, a row per
idempotency key of an addition; `handoff` is `video_source_generation_handoffs`,
a row per call that inserts one, and `jobs` the ids in the job store. `request`
and `call` are what requests keep in local variables: the revision the client
sent, whether the folder was confirmed when `_assert_revision` read it, the row
to insert, the sources that were listed, the handoff that was found. `answer` is
what generate returned. `log` and `confirmed` are history: the edits whose bump
was accepted, and the sources mark_ready had listed when it confirmed a
revision.

Steps. Again one statement is one action. `add_source` is `AssertRevision,
AddFindReplay, AddLimits, AddFindDuplicate, AddInsert, EditBump`;
`remove_source` and `begin_retry` are `AssertRevision, EditCheck, EditWrite,
EditBump`, and `retry_source` ends with `RetryFinish`. The order matters: every
edit writes its source before `_increment_revision` compares the revision, and a
refused bump undoes nothing. `mark_ready` is `CallAssert, MarkList, Mark`;
`create_generation_handoff` runs it in the middle when the folder is not
confirmed (`ConfirmAssert`), then `Lookup ... Reread`; `generate` goes on with
`Dispatch` and either `Complete*` or `Fail*`. The insertion that meets the unique
index starts the call over, as the recursion in the code does.

The upload of a file goes on after its request has answered. `Upload*` are the
writes of `MediaUpload` that reach the folder: claim, publication, supersession,
failure. Which of them happen when is the business of `MediaUpload`; here any
order that `upload` allows may happen, so a safety property that holds here
holds of that composition too.

Abstractions. A text is its normalized hash; a link is what its inspection found
(ready, unavailable, failed), each time anew. The hourly rate limit may refuse
at any time. `MaxActive` stands for 100. Clients send the current revision, or,
with `Resends`, any earlier one: the application's retries repeat the body they
first sent. Folder creation, previews, metadata and the wording of errors are
left out. A failing statement and a restart look the same from outside: `Crash`.

`GenerationPromise` has a revision, readiness, the set of confirmed revisions and
the accepted requests. The folder maps `ready` to `status = "ready"` and accepts
a request when its job is stored.

### RenderWorker, RenderPromise

State. `job` is the `jobs` map, `render` the await at which each `executeRender`
is suspended, `file` the stored artifact, `asked` history: whether DELETE was
accepted before or while the file was stored. Handlers run on one thread, so a
step is what happens between two awaits: `SelectComposition, RenderMedia,
StoreArtifact` are the three awaits of `executeRender`, each ending well or in
its catch clause (`EndUnrendered`). `CreateRender` and `CancelRender` are steps
of the clients, which conjoin them with their own. The worker has no queue and
no limit of its own: how many renders run is limited by the backend. Rendering,
progress, tokens and streaming are left out.

`RenderPromise` gives each job a phase: running, doomed, delivered, dropped. A
restart forgets them all.

### VideoTimeline

State. `exists, revision, current` are columns of `video_timelines`, `versions`
is `video_timeline_versions`, `rows` `video_timeline_render_jobs` with the job id
as the index, `published` the finals handed to `publish_content`. `pc` and `req`
are the place and the local variables of each request. `edits` is history: how
many edits the store accepted.

Steps. One autocommitted statement, or one call of the worker, is one action.
`create_version` is `LoadBase, FindReplay, NextNumber, InsertVersion,
PointVersion, MarkStale`, then `RecordUsages`; `save_draft` is `LoadDraft,
SaveDraft`; the branded generation runs both and goes on from the row it reloads
(`Rebase`). Previews and finals are `RequireVersion, FindJob, EnforceCapacity,
CreateJob, PostRender` and `SettleJob` or `FailJob`; a swipe publication goes
through `CheckPreview` and `ApprovePreview` first and ends at `PublishFinal`; a
poll is `BeginPoll, GetStatus` and `WriteStatus` with the worker's answer.

Abstractions. A draft document is its revision, so two drafts are told apart by
when they were saved. The capacity may also be filled by others. Document
validation, asset eligibility and signed playback are refusals without effect.

### ReelRenders

State. `rows` are the job rows of type `reel_render`; `data` is the part of
their JSON column that `JobStore.update` merges. `req` is what a request asked
and read.

Steps. `update` reads, merges and writes back: `UpdateRead` and `UpdateWrite`,
between which every other request may do the same. Creation is `BeginCreate,
InsertJob, PostRender`; export reads its preview (`BeginExport`), asks the worker
about one under way, looks at the row again (`RereadPreview`), looks for a final
(`ListFinals`) and inserts. A poll takes 404 and a missing file as a failure
(`GetStatus`), a cancellation writes the worker's answer (`DeleteRender`).

### ContentLifecycle, Publishing

`ContentLifecycle` is the matrix `VALID_TRANSITIONS`. Of the transition itself it
has the guard: the service is synchronous, so a transition with its audit row is
one step wherever it is called.

`Advance` is what `_persist_publish_result` makes of a record's status, whatever
it has become by the time of the answer; `Publishing` and `DripPlan` both use it.

State of `Publishing`. `status, meta` are the record: its status and
`metadata.publish`. `posts` are the provider's posts by the request id that
made them, `late` the calls still on their way after the caller gave up. `pub`
and `done` are the requests under way, with what they read and the answer they
have. Two variables are history and decide nothing. `disowned` are the ids whose
post the record may lose: made while another handler had the record in hand,
given up on an answer of 400 or more, or answered without a word of the post.
`unread` are the last of these.

Steps. What runs between two awaits of `publish_content`: `Check`, `Prepare` (the
id is written, or the open one used again), the provider's answer, then `Accept`,
`Fail`, `Timeout` or `NetworkError`. There are three answers. `Serve` says what
became of the post; one id makes one post, and a known id is answered with it.
`ServeUnread` is below 400 and says nothing of a state (no JSON, no post): the
caller takes the state from what it asked for, scheduled or published, and the
post may be missing. `Reject` is 400 or more, to a first attempt or to a retry of
an open id, of a call that was served, is still on its way or never arrives; the
code writes failed and gives the id up in each case. The provider is external,
modelled from what `publish.py` expects of it. Users move and complete the
record, the scheduler moves a scheduled one that is due, the server stops. The
date itself is not modelled, since `schedule_content` writes it even when the move
is refused: a scheduled record may be due at any time.

Abstractions. Records share nothing, one stands for all. The preflight and the
account lookup are `Refuse`. The body, the media and the placements of a post
are left out. `Moves` are the statuses users move the record to, `PostStates` the
states of the provider's posts.

### DripPlan

State. `item` are the plan's records, `elsewhere` those that say published without
a tick having published them (history), `file` the front matter of their files as
far as the plan writes it (held back or not, opted in or not), `snapshot` what
the import kept of it, `plan` the row of `drip_plans`, `jobs` the schedule jobs
in order of creation, `scheduler` what `_tick` holds across its awaits. The clock
counts hours.

Steps. `DripService` is synchronous, so each operation is one step; what is not
atomic is a stop in a tick (`TickStops`, between a file and the two transitions
of its record) and the scheduler, which reads the due jobs, runs one and writes
its next date with awaits in between (`ReadDue, RunJob, FinishJob`). A plan's
records belong to users as well: `Move` is any move of the matrix to one of
`Moves` (`transition_content`, the approvals), `PublishContent` what a publication
makes of a record whose owner it does not look at, `Reschedule` writes the date
even when the move is refused. `EditFile` is an edit of the front matter. The
scheduler's own transition of due records skips those of a plan, as in the code.
`generate_schedule` takes any dates and any order of the items, since cadence and
clustering only choose among them; it stops at the first item that cannot move.
An activation is one step too, although its job and its plan are committed
apart. `TickStops` needs an active plan, which is who has ticks. `Mishaps` bounds
moves, publications, edits and stops together. The metadata of a record is taken
to be the plan's: a client that overwrites `drip_plan_id` or the snapshot is not
modelled. A publication is one step here; its steps are those of `Publishing`.

### ProjectIntelligence

State. `sources, docs, recs` are the rows of one project; a document carries its
evidence (chunks and facts) and its duplicate row. `plan` is what a rebuild has
gathered from its three listings, `actor` where each request is. Two variables
are history: `overlapped`, two jobs were active at once; `crossed`, a rebuild
began while another was under way, or a removal was broken off.

Steps. Every store call is awaited and is one action; `Ingest` and `Remove` list
them in order. `Error` lets any call raise, with the handlers' consequences, and
`Conflict` is the unique key of a recommendation.

Abstractions. A file is an origin with a text; similarity of two texts is any
choice (`FindNear`); `Audience` are the texts whose facts say who the audience is.
Three of the six recommendations are modelled: `missing_audience_signal` and
`weak_source_diversity` name the two and the three newest sources listed,
`duplicate_evidence_detected` the four newest duplicates. Types of sources are
left out, so with three sources there may be enough of them or not. Two others
(`seo_backlog_without_ideas`, `stale_source_data`) rest on listed sources in the
same way. The last, `high_confidence_idea_candidate`, is never made: it wants a
fact of confidence 0.7 and the extractor gives 0.55 or 0.62 (section 5). The idea
pool, a search and an insertion in one synchronous stretch, is left out, as are
provider readiness, signals and the generation context.

## 3. Runs

Every run says which actors exist. In the upload and the folder a request is one
actor that runs once; elsewhere a client makes one request after another.

| Run | Instance | Shows |
|---|---|---|
| `media_requests` | 2 creators, 2 uploaders, 1 aborter, replacing, 1 crash | rows agree at the end; compensation accounted for; replacement takes over only when backed; refinement of `UploadOutcome` |
| `media_remove` | 1 creator, 2 uploaders, 1 remover, 1 reconciler, 1 crash, multipart, no promptness | types, exclusive claim, ready is backed |
| `media_settles` | 1 creator, uploader, reconciler, 1 crash, lost replies, multipart, fair | every session leaves the active statuses; its source too, when nobody is cut short |
| `folder_edits` | 2 editors, 1 confirmer, texts and files that replace files, 2 sources, resent revisions, 1 crash | types; accepted edits are serial |
| `folder_one_editor` | 1 editor, 2 generators with one key, links, 2 sources, no crash, fair | answers agree; a ready folder is usable; refinement of `GenerationPromise`; handoffs and retries settle |
| `timeline_renders` | 1 editor, 1 renderer, 1 poller, 2 jobs, 2 versions, 2 keys, any number of lost replies and crashes | types; completed has a video; finals and publications rest on approved, rendered previews |
| `timeline_saves` | 2 editors | the disagreement of section 5 |
| `reel_renders` | 1 creator, 1 watcher, 2 jobs, 1 restart of the worker, 1 crash, fair | types; completed has a video; exports rest on a rendered preview; refinement of `RenderPromise`; reels settle |
| `publish_requests` | 1 publisher, 1 completer, 2 request ids, moves to approved and scheduled, any answer, stops, fair | types; live posts are accounted for; published is out; open outcomes are settled |
| `drip_plans` | 2 files, 2 hours, 2 jobs, 2 mishaps, opt-in required, users' moves and publications, fair | types; one live job; what a tick published is out; due is released |
| `intelligence` | 2 ingesters, 1 remover, 2 files with one text, 1 mishap | types; evidence once; what is recommended names no removed source |
| `intelligence_removed` | 1 ingester, 1 remover, 2 files | the disagreement of section 5 |

`CHECK_DEADLOCK FALSE` where all clients may have finished or reached their
bound: at `MaxRevision` no edit begins, without room for a row no render does,
and a deleted plan or an answered set of requests is left alone.

Bounds. Two of a kind is where each race begins: two creations of one key, two
completions of one session, a lease holder and its successor. One crash already
cuts any protocol at any step; with the ceiling at 2 a deferral happens both
below and at it. `media_settles` has no aborter, to keep a liveness check small:
a cancellation closes the session at once and its source in its next statement,
and `media_requests` has one. For the folder, two editors are what it takes to
lose a bump, two generators to share a key, two sources for an edit to meet
another one's row, and two revisions to be stale by one. For renders, two job
rows are a preview and its final, or a job and its successor, and two versions an
old and a new one, each with its own key (3.3 million states). For publishing,
two request ids are an attempt and a retry that should not have made one (382
thousand states); users then move the record to approved and scheduled, the two
statuses a publication starts from. For a plan, two files are one that is due and
one that is not, two hours now and later, two jobs an activation after a pause;
two mishaps are a move with a stop, or a publication with an edit (1.2 million).
For the project memory, two files of one text are a document and its duplicate,
and one mishap already leaves any ingestion half done (2.6 million).
The theorems of section 4 remove these bounds for the safety properties they
name.

Fairness. `FairSpec` is weak fairness of each actor that has begun, of each
reconciler and of time. A request the server received is run to its end by the
event loop, but nothing forces a client to send it: the first step of a request
is not fair. The scheduler calls `run_batch` every ten ticks for as long as a
process runs. Under `Prompt` a live owner finishes within the 1800 s stale mark
and a live reconciler within its 120 s lease; without it two reconcilers can
take the lease from one another for ever, and the code has nothing against it.
Storage errors may repeat for ever: the attempt ceiling, not luck, ends the
deferrals. In the folder, each request that has begun is weakly fair and nothing
else is: clients need not send, uploads need not end. A request that is cut short
is resumed by nobody, so `folder_one_editor` has no crash: its liveness
properties are about requests that live. No run has two editors and a generator
at once: their instance is beyond TLC's reach, and `AnswersHold`, `SerialEdits`
and `PromiseKept` are proved for any of them, crashes included.

For reels, a request that has begun and a render that runs go on (weak); whoever
waits for a reel asks again, and the worker is not unreachable for ever (strong:
polls come and go). The application polls as long as a reel is under way.
`ReelSettles` is about rows that name their worker job; one that lost the name,
or never had it, is never asked about (section 5). For publishing, a client whose
outcome is open asks again, is not refused by its lookups for ever, and some
answer arrives (strong, since timeouts and stops come in between). Nothing else
settles an open outcome: no job of the backend asks the provider. For drip plans
the scheduler loop and the clock go on (weak); nothing is assumed of users, of
manual ticks or of the mishaps, which `Mishaps` bounds.

## 4. Proofs

`MediaUpload_proofs` proves, for all sets of actors, all bounds and both modes:

- `TypeCorrect`: `Spec => []TypeOK`.
- `ExclusiveClaim`: `Spec => []ExclusiveCompletion`. Exclusiveness alone is not
  inductive: nothing in it says that a session an owner has left cannot be
  claimed again. `ClaimInv` adds that an owner exists only when the status is
  past created (`OwnedClaimed`), that the row is created once (`OneRecord`, which
  rests on the unique source of a key, `SourceFirst`), and that no reconciler can
  hold a session that does not exist yet (`QuietBefore`), since finishing by
  token would otherwise write any status.
- `ReadyStaysBacked`: without lost replies, `Spec => []ReadyBacked`. `BackedInv`
  says of everyone who can take something away that its upload cannot be
  published any more: a plan or a reconciler's copy of one is non-empty only when
  the upload was dropped (`PlanDropped`), a remover detaches only after it saw a
  published asset of a source that is now removed (`DetachRemoved`), and an asset
  id is visible only once no owner is left to publish or to compensate
  (`AssetPublished`); and that an owner still holds what it built (`HoldsUpload`).
- `RequestsImplementOutcome`: without reconcilers, removals and lost replies,
  `Spec => ImplementsOutcome`. `OutcomeInv` ties each program counter to the
  status its step relies on.

Under the same three hypotheses, which are those of the run `media_requests`, the
properties of that run that speak of all requests together:

- `OriginalGivesWay`: `Spec => []ReplacementTakesOver`. An original that was
  superseded or detached has a ready replacement (`OldFollows`), since `ready` is
  never taken back (`ReadyStays`), and `ReadyBacked` does the rest.
- `CompensationAccountedHolds`: `Spec => []CompensationAccounted`, of every
  version whose locator the storage returned. An unreturned one is outside of it
  and of what the code can do: nothing names it (section 5). `HeldParts`
  says where each other canonical object and each usage is (`ObjectsHeld`,
  `AssetsHeld`): with a request that still holds it, with the published source, or
  in the plan; that only an owner that settles writes the plan (`PlanLast`), with
  the status that goes with it (`SettledAs`).
- `SourceFollowsSessionHolds`: `Spec => []SourceFollowsSession`. Session and
  source are two statements, so `FollowedParts` names, for each status, the
  request that has yet to write the source (`OpenFollowed`, `ClosedFollowed`,
  `SourceWaits`); when all have ended nobody has.

For the folder, for all sets of actors, sources, texts and keys and all bounds:

- `TypeCorrect`: `Spec => []TypeOK`, with what an editor
  and a generator know of their request at each step (`Asked`, `Found`).
- `SerialEdits`: `Spec => []EditsAreSerial`; nothing but a bump touches the
  revision (`BumpsOnly`), and a bump compares it.
- `PromiseKept`: `Spec => KeepsPromise`, and
  `AnswersHold`: `Spec => []AnswersAgree`, with edits, uploads and crashes. The
  refinement needs that a dispatched row is for a confirmed revision and the
  only one of its revision and key. Neither is visible where the job is stored,
  so `HandoffInv` carries them there: no request names a revision to come
  (`Bounded`), a generator past mark_ready has a confirmed revision
  (`ReadyConfirmed`), rows are confirmed and unique (`RowsConfirmed`,
  `RowsUnique`), a generator knows its own row (`OwnRows`), and an id is told
  only once its job exists (`AnswerInv`).
- `OneEditorReady`: with one editor at a time, no
  file uploads and `MaxCrashes = 0`, `Spec => []ReadyIsUsable`. The invariant
  (`ReadyInv`) says that whenever the folder is ready, or a request is about to
  declare it so for the current revision, it is usable or the editor is about to
  bump. Each hypothesis is needed: a second editor's refused edit, an
  upload that revives a removed source, or an edit cut short between its write
  and its bump breaks it (section 5).

For the render worker and the reels, for any jobs, clients, contents and bounds:

- `WorkerKeepsPromise` (`RenderWorker_proofs`): `WorkerSpec => KeepsPromise`. The
  phase of a job is read off `job` and `asked`; `WorkerInv` adds that a render is
  suspended exactly while its job is in progress (`RunsWhileInProgress`) and that
  a cancellation that came early is still remembered by the map when the render
  ends, which is why it cannot be delivered.
- `TypeCorrect`, `CompletedHasVideoHolds`, `ExportWasRenderedHolds`
  (`ReelRenders_proofs`). `ReelInv` is inductive for all of them at once: a
  request that is about to write completed, or to insert a final, knows that the
  file exists (`AllKnow`), files are never unmade, rows keep what they were
  inserted with, an insertion has room (`RoomKept`) and a parent
  (`ParentsExist`), and only creators insert (`OnlyCreatorsInsert`).
- `ReelsKeepPromise`: `Spec => KeepsPromise`, from `ReelsUseWorker`: every step
  of the reels is a step of the worker or leaves it alone.

For timelines (`VideoTimeline_proofs`), for any requests, jobs, versions and keys:

- `TypeCorrect`, `CompletedWasRenderedHolds`, `FinalWasApprovedHolds`, from one
  inductive `TimelineInv`. Its data part (`DataInv`) splits `FinalWasApproved`
  into what approvals, finals and publications each rest on; its other part says
  what a request in flight may rely on (`Knows`): the version it is about exists,
  a final it is about to insert rests on an approved preview, an approval it is
  about to write is of a rendered one, a job it is about to show as completed has
  its file. None of this can be undone by others, since rows and versions are only
  added, approvals replaced and not withdrawn (`RowsKept`, `VersionsKept`), and
  a file once stored may expire but is never as if it had not been rendered
  (`WorkerKeepsFiles`).
- `TimelineUsesWorker`: `Spec => WorkerSpec`, and with it
  `TimelineKeepsPromise`: `Spec => KeepsPromise`. A request only asks for jobs it
  has inserted, and an insertion has room (`RoomKept`).

For publishing, for any clients, moves and numbers of requests:

- `TypeCorrect`: with `TypeInv`, which says that every id somebody remembers was
  given out and every post somebody names was made.
- `PublishedIsOutHolds`: `Spec => []PublishedIsOut`, provided users do not move
  the record to published by hand (`"published" \notin Moves`). The answers that
  the code takes for a publication although they do not say so are named in the
  property (`unread`); `ReplySound` says of the others that the post of an answer
  in hand is what the answer says, which the provider does not take back.
- `PostAccountedForHolds`: `Spec => []PostAccountedFor`, without a hypothesis:
  overlapping handlers, refused retries and unread answers all happen, and the ids
  they cost are in `disowned`. The property alone is not inductive, since a
  handler may still write what it read: `AccountInv` says that the record, and
  whatever any handler has read and may write back, keeps hold of the same ids
  (`Kept`), of posts still to come as well as of those there are, and does not call
  failed a post that is not (`Honest`).

For drip plans, for any finite set of files and any bounds:

- `TypeCorrect`; `PublishedIsOutHolds`: `Spec => []PublishedIsOut`, inductive
  with the types, since a restoration skips what is published and a stop in a
  tick opens the file before it marks the record. Its exception is in the
  statement: a record that a user or a publication has made published
  (`elsewhere`) may have a file that is held back (section 5).
- `OneLiveJobHolds`: `Spec => []OneLiveJob`, from `JobsFollowPlan`: a plan that is
  neither active nor deleted has no enabled job, so that the next activation
  makes the only one, and a paused plan has a job to resume.

For project intelligence, for any requests, files and texts and any `Mishaps`:

- `TypeCorrect`, `EvidenceOnceHolds`, from one inductive `IntelligenceInv`.
  `EvidenceOnce` speaks of what is in the rows; what makes it hold is in the
  ingestion's hands between its awaits: while no two jobs were active at once, an
  ingestion that has searched for documents of its text and found none
  (`Fresh`) is the only one to insert (`OneAtATime`), because a removal only adds
  to what is removed and a document is removed only after its source
  (`DocsOfSources`).
- `SourceIsGoneHolds`: `Spec => []SourceIsGone`. Between two statements a
  recommendation may well name a removed source; `GoneInv` says that then a
  removal is still under way that will take it back (`TakenBack`): one that has
  its listing of the sources before it, or one that has listed them rightly and is
  about to clear. It rests on one rebuild at a time, which the code does not
  ensure, hence `crossed`.
- Among the lemmas: the oldest of a non-empty set of rows is one of them
  (`OldestIsOne`, from well-foundedness of the naturals), so the walk of a rebuild
  over its plan always names a planned key (`NextKeyPlanned`).

Each invariant was model-checked before it was proved. Assumptions are those the
modules name: the kinds of actors are disjoint, `None` is none of them, bounds
are naturals, sets of files, of creators, of a timeline's requests and of its job
ids are finite. The theorems that need more say so as hypotheses of their own
(`~LostReplies`, `Reconcilers = {}`, `"published" \notin Moves`, ...), and each is
a choice of the constants that a run instantiates.

Model-checked only: liveness (`SessionSettles`, `SourceSettles`,
`HandoffSettles`, `RetrySettles`, `ReelSettles`, `OutcomeSettles`,
`DueIsReleased`), since fairness and ENABLED are out of the prover's reach. Every
invariant and every refinement of the passing runs has a theorem. The two
properties of the runs that end in a counterexample are `EveryEditCounts` and
`RemovedIsGone`: neither is what the code does, and neither has a theorem.

## 5. Disagreements with the documents

Each is a run that TLC ends with a counterexample; `PROJECT.json` quotes the
sentence and the code.

- `timeline_saves`: two saves of one base both pass the comparison of the
  revision and both write; the later one overwrites the earlier, whose author
  was told it was saved.
- `intelligence_removed`: the recommendation about duplicates is rebuilt from
  documents of removed sources.

Other behaviours the models reach, which no run forbids. Those marked with a
document contradict it as well; `SPEC-multimodal` is
`SPEC-multimodal-video-source-intake-2026-07-12.md`.

*Upload.*
- Finishing and deferring a reconciliation (`video_source_intake_store.py:564`)
  look at the lease token and not at the status: a session a request closed
  meanwhile is rewritten, from aborted to expired or from completed to failed.
  `SPEC-multimodal`:482: "An upload session moves from `created` to exactly one
  terminal or owned-processing path."
- A call of the storage that raises may have stored its version: the reply of the
  put was lost (`s3_object_storage.py:219`), or the verification failed (`:249`) and
  `_safe_delete_key`, which ignores errors (`:851`), failed too. The caller has no
  locator, so `_compensate` neither deletes nor records the version, and no
  reconciler finds it. The comment at `:857` says "Reconciliation owns follow-up
  when best-effort compensation cannot complete."
- A completion that stored its bytes and lost the claim to a cancellation
  (`video_source_media_service.py:715`) neither deletes nor records them.
  `SPEC-multimodal`:111: "le backend supprime la version/object en quarantaine ou
  enregistre `orphan_cleanup_needed`".
- A reconciler that lost its lease still writes the source
  (`video_source_media_reconciliation.py:95`).
- If publishing the source raises after it was applied, compensation removes what
  a ready source points to (hence the assumption of `ReadyStaysBacked`).
- A removal whose revision bump is refused has already marked the source removed,
  and its usage stays linked (`video_source_intake_store.py:677`).
- A creation that stops between source and session leaves a key whose retries all
  fail; an owner that dies between completed and ready leaves its source
  processing.

*Folder.*
- An edit whose revision is already lost writes its source before it is refused;
  a confirmation in between declares an unusable folder ready
  (`video_source_intake_store.py:677`, against `SPEC-multimodal`:114).
- The request lists the sources again after the confirmation and may name others
  (`:732`). `SPEC-multimodal`:97: "la demande cible exactement `ready_revision`".
- An upload writes its removed source back to processing and ready (`:616`).
  `SPEC-multimodal`:99: "la source n'est plus eligible pour un futur draft".
- The retry of an accepted addition is refused as stale, since the revision is
  asserted before the key is looked up (`:303`). `SPEC-multimodal`:411 asks for
  the first result.
- An edit that read the folder before its first confirmation takes it from ready
  to collecting; a call that fails last marks a request failed that another call
  with its key had accepted; a late completion writes its id into the folder of
  the next revision; a request may name a file together with its replacement;
  duplicates and the limit are looked up before the insertion, and the row of a
  refused bump stays; a retry whose bump is refused leaves its source processing,
  from where no retry is allowed.

*Timelines and reels.*
- A render of the old version that is inserted after `MarkStale` is never marked
  stale (`video_timeline_store.py:299`), and is answered as if it were current.
- The capacity is counted before the row is inserted (`video_timelines.py:665`):
  two requests have two jobs under way although one is allowed.
- A stop after `create_render_job`, or a restart of the worker, leaves a timeline
  job queued for ever: 404 changes nothing, and the row counts against the user's
  capacity. Reels take 404 as a failure.
- A stop between the insertion of a version and the update that points to it
  leaves a version that its key's replay answers and the timeline never shows.
- A cancellation of a reel that read the row before the dispatch wrote
  `worker_job_id` erases it (`job_store.py:69`); the row is never asked about
  again.
- A cancellation accepted while the file is stored is answered "Cancellation
  requested", and the job completes (`index.ts:287`).

*Publishing.*
- Two publications started together each make a post
  (`publish.py:633`); `late-integration-finalization.md`:216 asks for publish
  operations that are "idempotentes ou rejetees".
- `complete_content` writes back metadata it read before an await
  (`status.py:659`): a request id stored meanwhile is erased, and the next
  publication makes a second post.
- Any answer of 400 or more to the retry of an open id, a limit of calls or an
  expired key included, writes failed and gives the id up (`publish.py:793`), though
  the first call may have made its post; the next publication makes a second one.
  `SPEC-social-placement-format-registry-2026-05-13.md`:173: "Retries for the same
  logical publish reuse it".
- An answer below 400 that has no post in it is taken for a publication
  (`publish.py:731`): the record says published, perhaps of nothing.
  `late-integration-finalization.md`:122-127 lists the unexpected answer among the
  errors and asks not to hide a failure behind a published status.
- The retry of a failed publication leaves the lifecycle at failed; the scheduler
  moves a due record to publishing without posting it, after which publications
  of it are refused; a scheduled post is never asked about again; a partial one
  is offered for retry and refused.

*Drip plans.*
- A pause restores the front matter of files that are not opted in
  (`drip_service.py:1026`). `DRIP_IMPLEMENTATION.md`:111: "Set `dripManaged: true`
  in frontmatter for files Drip is allowed to mutate."
- After a resumption the files a pause opened are not held back again; a schedule
  generated for a cancelled plan holds files back that nothing opens; a plan
  activated before it is scheduled completes at its first tick and cannot be
  activated again; the job of a deleted plan fails every hour.
- Nothing ties a plan's record to its file when somebody else moves it: a user's
  moves through publishing to published (`status.py:229`), or a publication
  (`publish.py:543`, which does not look at `source_robot`), leave a published
  record whose file stays held back, and no tick opens it.
- A stop between the two transitions of a record leaves it publishing, and the
  plan completes without it.

*Project intelligence.*
- No fact the extractor makes reaches the confidence that
  `high_confidence_idea_candidate` asks for
  (`project_intelligence_processor.py:281`, `:407`): it is never recommended.
- Two rebuilds at once, an ingestion's and a removal's: the later write of the older
  listing stands, and names the removed source until the next rebuild.
- Two ingestions both find no active job, and a text is counted twice.
- An ingestion that raises between the source and its evidence leaves a source
  whose text is never evidence until it is removed and uploaded again; one whose
  failure cannot be recorded leaves its job running, and every later ingestion is
  refused.
- A removal during an ingestion leaves a live document of a removed source;
  removing the source of a canonical document leaves duplicates without evidence.

No state at all, so not in the models: `retry_source` raises two exceptions its
module does not import, so an unknown source or a file ends in a server error
instead of a refusal. Read but not modelled: `restore_project_asset` sets active
whatever the status before the tombstone (`status/service.py:1540`), and the
media of a post may be tombstoned between the preflight and the provider's fetch.

## 6. Not modelled, and the plan

Done: uploads and reconciliation, source folder, render worker, timelines, reels,
lifecycle and publishing, drip plans, project intelligence (without the idea pool
and three of its recommendations, section 2).

1. Proofs beyond the runs' instances: `CompensationAccounted` and
   `SourceFollowsSession` beside a reconciler, for which their statements must
   first say what a session in cleanup still owes.
2. Project assets: tombstones, cleanup and understanding jobs, with the usages the
   upload already has.
3. The folder composed with `MediaUpload`, one session per file, instead of the
   free `Upload*` writes; the consumer of the handoff's jobs once the repository
   has one.
4. The application's offline queue; image generation jobs; the AI entitlements.

A new component shares the set of runs with these: a question joins a run that
already has the actors for it, so that the set stays quick to run.

Most of the repository's remaining lines are outside the reach of a model of this
kind: prompts and pipelines of the agents, response schemas, row-per-user CRUD,
provider wrappers, widgets and pages hold no state that two actors share.
`PROJECT.json` gives the reason for each component.
