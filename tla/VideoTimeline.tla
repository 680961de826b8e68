---------------------------- MODULE VideoTimeline ----------------------------
(***************************************************************************)
(* One video timeline: its draft, its immutable versions, the approval of  *)
(* previews and the render jobs dispatched to the worker                   *)
(* (routers/video_timelines.py, VideoTimelineStore).                       *)
(*                                                                         *)
(* Editors save drafts, create versions and run the branded generation;    *)
(* renderers ask for previews and finals, approve and publish; pollers ask *)
(* how a job is. Every statement is autocommitted and awaited, so each is  *)
(* a step; Crash cuts a request short between two of them. Rows are        *)
(* numbered in the order in which they were inserted.                      *)
(***************************************************************************)
EXTENDS RenderWorker, Sequences, FiniteSets

CONSTANTS
    Editors, Renderers, Pollers,   \* clients, each one request after another
    Keys,          \* client_request_id as the clients send it; None is sending none
    MaxVersions, MaxRevision,      \* bounds: nothing is begun beyond them
    None

Requests == Editors \cup Renderers \cup Pollers

ASSUME TimelineAssumption ==
    /\ Editors \cap Renderers = {} /\ (Editors \cup Renderers) \cap Pollers = {}
    /\ None \notin Requests
    /\ IsFiniteSet(Requests) /\ IsFiniteSet(Jobs) /\ Jobs = 1 .. Cardinality(Jobs)
    /\ {MaxVersions, MaxRevision} \subseteq Nat

VARIABLES
    pc,          \* where each request is
    req,         \* what each request asks and what it has read
    exists,      \* the active row of video_timelines is there
    revision,    \* ... draft_revision
    current,     \* ... current_version_id; 0 is NULL
    versions,    \* video_timeline_versions, by version_number
    rows,        \* video_timeline_render_jobs, by job id
    published,   \* jobs whose video was handed to publish_content
    edits        \* history: how many edits of the draft were accepted

timelineVars == <<exists, revision, current, edits>>
dataVars == <<timelineVars, versions, rows, published>>
vars == <<pc, req, dataVars, workerVars>>

Active == {"queued", "in_progress"}   \* ACTIVE_RENDER_STATUSES

(* op: the endpoint. base, seen: draft revision and version as the client, *)
(* or the last get_timeline, saw them. ok: both matched when create_version *)
(* read the row. target: the version the request is about. parent: the     *)
(* preview a final rests on. found: the number or the job to write.        *)
NoRequest == [op |-> "none", base |-> 0, seen |-> 0, ok |-> FALSE, key |-> None,
              target |-> 0, parent |-> 0, found |-> 0]

Ops == {"open", "save", "version", "branded", "preview", "final", "publish", "approve", "poll"}
PCs == {"idle"}
       \cup {"find_timeline", "new_timeline", "load", "save", "reload", "load_base", "replay",
             "number", "insert", "point", "stale", "use"}
       \cup {"version", "check", "approve", "find", "capacity", "create", "post", "settle", "fail",
             "publish"}
       \cup {"get", "in_progress"} \cup Terminal   \* a poller keeps the worker's reply in its pc

JobIds == Jobs \cup {0}

TypeOK ==
    /\ WorkerTypeOK
    /\ pc \in [Requests -> PCs]
    /\ req \in [Requests -> [op : Ops \cup {"none"}, base : Nat, seen : Nat, ok : BOOLEAN,
                             key : Keys \cup {None}, target : Nat, parent : JobIds,
                             found : JobIds]]
    /\ exists \in BOOLEAN /\ revision \in Nat /\ current \in 0 .. Len(versions)
    /\ \A n \in DOMAIN versions : versions[n] \in [approved : JobIds, key : Keys \cup {None}]
    /\ DOMAIN rows \subseteq Jobs
    /\ \A j \in DOMAIN rows : rows[j] \in
         [mode : {"preview", "final"}, version : DOMAIN versions, parent : JobIds,
          status : Active \cup Terminal, stale : BOOLEAN]
    /\ published \subseteq Jobs
    /\ edits \in Nat

Init ==
    /\ WorkerInit
    /\ pc = [r \in Requests |-> "idle"]
    /\ req = [r \in Requests |-> NoRequest]
    /\ exists = FALSE /\ revision = 0 /\ current = 0
    /\ versions = <<>> /\ rows = <<>> /\ published = {}
    /\ edits = 0

At(r, p)   == pc[r] = p
Goto(r, p) == pc' = [pc EXCEPT ![r] = p] /\ UNCHANGED req
GotoWith(r, p, v) == pc' = [pc EXCEPT ![r] = p] /\ req' = [req EXCEPT ![r] = v]

(* The request has answered, with a result or an error. *)
Return(r) == GotoWith(r, "idle", NoRequest)

(* A step that only reads the shared rows. *)
Reads == UNCHANGED <<dataVars, workerVars>>

InStatus(j, S) == j \in DOMAIN rows /\ rows[j].status \in S
SetStatus(j, s) == rows' = [rows EXCEPT ![j].status = s]

-------------------------------------------------------------------------------
(***************************************************************************)
(* Editing                                                                 *)
(***************************************************************************)

(* Bound: every request that goes on to insert a row finds room for it. *)
RoomForJob == Len(rows) + Cardinality({r \in Requests : pc[r] = "create"}) < Cardinality(Jobs)

(* An editor asks with the timeline as its client sees it now. *)
BeginEdit(r) ==
    /\ At(r, "idle") /\ revision < MaxRevision
    /\ \E op \in {"open", "save", "version", "branded"}, k \in Keys :
         /\ op \in {"version", "branded"} => Len(versions) < MaxVersions
         /\ op \in {"save", "version"} => exists
         /\ GotoWith(r, IF op = "save" THEN "load" ELSE IF op = "version" THEN "load_base"
                        ELSE "find_timeline",
                     [NoRequest EXCEPT !.op = op, !.base = revision, !.seen = current,
                        !.key = IF op \in {"version", "branded"} THEN k ELSE None])
    /\ Reads

(* What the last get_timeline answered becomes the base of the next write. *)
Rebase(r, p) == GotoWith(r, p, [req[r] EXCEPT !.base = revision, !.seen = current])

(* create_or_get_active: the lookup and the insertion are two statements,  *)
(* and the unique index refuses a second active row. An existing timeline  *)
(* gets the assembled draft through save_draft.                            *)
FindTimeline(r) ==
    /\ At(r, "find_timeline")
    /\ \/ exists /\ req[r].op = "open" /\ Return(r)
       \/ exists /\ req[r].op = "branded" /\ Rebase(r, "load")
       \/ ~exists /\ Goto(r, "new_timeline")
    /\ Reads

InsertTimeline(r) ==
    /\ At(r, "new_timeline")
    /\ exists' = TRUE
    /\ IF exists \/ req[r].op = "open" THEN Return(r) ELSE Goto(r, "reload")
    /\ UNCHANGED <<revision, current, edits, versions, rows, published, workerVars>>

(* _assert_edit_base on the row just read. *)
BaseHolds(r) == req[r].base = revision /\ req[r].seen = current

LoadDraft(r) ==
    /\ At(r, "load")
    /\ IF BaseHolds(r) THEN Goto(r, "save") ELSE Return(r)
    /\ Reads

(* The UPDATE of save_draft and of create_version names no revision. *)
WriteDraft(r) == revision' = req[r].base + 1 /\ edits' = edits + 1

SaveDraft(r) ==
    /\ At(r, "save")
    /\ WriteDraft(r)
    /\ IF req[r].op = "branded" THEN Goto(r, "reload") ELSE Return(r)
    /\ UNCHANGED <<exists, current, versions, rows, published, workerVars>>

ReloadTimeline(r) == At(r, "reload") /\ Rebase(r, "load_base") /\ Reads

(* create_version reads the timeline, then looks for the client's key, and *)
(* asserts the base only when there is no version to replay.               *)
LoadBase(r) ==
    /\ At(r, "load_base")
    /\ GotoWith(r, "replay", [req[r] EXCEPT !.ok = BaseHolds(r)])
    /\ Reads

FindReplay(r) ==
    /\ At(r, "replay")
    /\ LET same == {n \in DOMAIN versions : req[r].key # None /\ versions[n].key = req[r].key} IN
         \/ \E n \in same : GotoWith(r, "use", [req[r] EXCEPT !.target = n])
         \/ same = {} /\ req[r].ok /\ Goto(r, "number")
         \/ same = {} /\ ~req[r].ok /\ Return(r)
    /\ Reads

NextNumber(r) ==
    /\ At(r, "number")
    /\ GotoWith(r, "insert", [req[r] EXCEPT !.target = Len(versions) + 1])
    /\ Reads

(* The unique index refuses a number that another request has taken. *)
InsertVersion(r) ==
    /\ At(r, "insert")
    /\ \/ /\ req[r].target = Len(versions) + 1
          /\ versions' = Append(versions, [approved |-> 0, key |-> req[r].key])
          /\ Goto(r, "point")
       \/ /\ req[r].target <= Len(versions)
          /\ Return(r)
          /\ UNCHANGED versions
    /\ UNCHANGED <<timelineVars, rows, published, workerVars>>

(* Mutant: staleness is written as a status. *)
MarkStaleStatus(r) ==
    /\ At(r, "stale")
    /\ rows' = [j \in DOMAIN rows |->
         [rows[j] EXCEPT !.status = IF rows[j].version # req[r].target THEN "stale" ELSE @]]
    /\ Goto(r, "use")
    /\ UNCHANGED <<timelineVars, versions, published, workerVars>>

PointVersion(r) ==
    /\ At(r, "point")
    /\ WriteDraft(r)
    /\ current' = req[r].target
    /\ Goto(r, "stale")
    /\ UNCHANGED <<exists, versions, rows, published, workerVars>>

MarkStale(r) ==
    /\ At(r, "stale")
    /\ rows' = [j \in DOMAIN rows |->
         [rows[j] EXCEPT !.stale = @ \/ rows[j].version # req[r].target]]
    /\ Goto(r, "use")
    /\ UNCHANGED <<timelineVars, versions, published, workerVars>>

(* _record_timeline_asset_usages may refuse an asset; the version stays.   *)
(* The branded generation goes on to ask for a preview of the version,     *)
(* whether it is current or not.                                           *)
RecordUsages(r) ==
    /\ At(r, "use")
    /\ Return(r) \/ (req[r].op = "branded" /\ Goto(r, "find"))
    /\ Reads

-------------------------------------------------------------------------------
(***************************************************************************)
(* Rendering                                                               *)
(***************************************************************************)

Mode(r) == IF req[r].op \in {"final", "publish"} THEN "final" ELSE "preview"

(* The client names a version and, for a final, the preview it rests on; a *)
(* version that is not current is refused here and leaves no trace.        *)
BeginRender(r) ==
    /\ At(r, "idle")
    /\ \E op \in {"preview", "final", "publish"}, p \in {0} \cup DOMAIN rows :
         /\ current # 0
         /\ op = "preview" <=> p = 0 /\ op # "publish"
         /\ GotoWith(r, IF op = "preview" THEN "find" ELSE "version",
                     [NoRequest EXCEPT !.op = op, !.target = current, !.parent = p])
    /\ Reads

(* render-final compares the approved preview with the one it was given;   *)
(* swipe-publish takes it, or approves the given one first and reads the   *)
(* version again.                                                          *)
RequireVersion(r) ==
    /\ At(r, "version")
    /\ LET approved == versions[req[r].target].approved IN
         \/ /\ req[r].op = "final"
            /\ IF approved = req[r].parent THEN Goto(r, "find") ELSE Return(r)
         \/ /\ req[r].op = "publish" /\ approved # 0
            /\ GotoWith(r, "find", [req[r] EXCEPT !.parent = approved])
         \/ /\ req[r].op = "publish" /\ approved = 0
            /\ IF req[r].parent # 0 THEN Goto(r, "check") ELSE Return(r)
    /\ Reads

(* Mutant: a completed preview of any version will do. *)
ApprovableAnyVersion(v, j) ==
    rows[j].mode = "preview" /\ rows[j].status = "completed" /\ ~rows[j].stale

(* approve_preview: which job it accepts. *)
Approvable(v, j) ==
    rows[j].version = v /\ rows[j].mode = "preview" /\ rows[j].status = "completed" /\ ~rows[j].stale

(* A refused approval leaves no trace. *)
BeginApprove(r) ==
    /\ At(r, "idle")
    /\ \E v \in DOMAIN versions, j \in DOMAIN rows :
         /\ Approvable(v, j)
         /\ GotoWith(r, "approve", [NoRequest EXCEPT !.op = "approve", !.target = v, !.parent = j])
    /\ Reads

CheckPreview(r) ==
    /\ At(r, "check")
    /\ IF Approvable(req[r].target, req[r].parent) THEN Goto(r, "approve") ELSE Return(r)
    /\ Reads

ApprovePreview(r) ==
    /\ At(r, "approve")
    /\ versions' = [versions EXCEPT ![req[r].target].approved = req[r].parent]
    /\ IF req[r].op = "publish" THEN Goto(r, "version") ELSE Return(r)
    /\ UNCHANGED <<timelineVars, rows, published, workerVars>>

(* find_render_job answers the newest job that is under way or completed   *)
(* and not stale.                                                          *)
Reusable(r) == {j \in DOMAIN rows :
    /\ rows[j].version = req[r].target /\ rows[j].mode = Mode(r)
    /\ rows[j].status \in Active \cup {"completed"} /\ ~rows[j].stale
    /\ Mode(r) = "final" => rows[j].parent = req[r].parent}

FindJob(r) ==
    /\ At(r, "find")
    /\ \/ Reusable(r) = {} /\ Goto(r, "capacity")
       \/ \E j \in Reusable(r) :
            /\ \A i \in Reusable(r) : i <= j
            /\ IF req[r].op = "publish" /\ rows[j].status = "completed"
               THEN GotoWith(r, "publish", [req[r] EXCEPT !.found = j])
               ELSE Return(r)
    /\ Reads

(* One job under way per user; jobs of other users and of the user's other *)
(* timelines may fill the capacity at any time.                            *)
EnforceCapacity(r) ==
    /\ At(r, "capacity")
    /\ \/ Return(r)
       \/ /\ RoomForJob /\ \A j \in DOMAIN rows : InStatus(j, Active) => rows[j].stale
          /\ Goto(r, "create")
    /\ Reads

CreateJob(r) ==
    /\ At(r, "create")
    /\ rows' = Append(rows, [mode |-> Mode(r), version |-> req[r].target,
         parent |-> IF Mode(r) = "final" THEN req[r].parent ELSE 0,
         status |-> "queued", stale |-> FALSE])
    /\ GotoWith(r, "post", [req[r] EXCEPT !.found = Len(rows) + 1])
    /\ UNCHANGED <<timelineVars, versions, published, workerVars>>

(* POST /renders: accepted, refused or unreachable; a reply may be lost.   *)
PostRender(r) ==
    /\ At(r, "post")
    /\ \/ CreateRender(req[r].found) /\ Goto(r, "settle")
       \/ CreateRender(req[r].found) /\ Goto(r, "fail")
       \/ Goto(r, "fail") /\ UNCHANGED workerVars
    /\ UNCHANGED dataVars

(* The reply to POST always says queued. *)
SettleJob(r) ==
    /\ At(r, "settle")
    /\ SetStatus(req[r].found, "queued")
    /\ Return(r)
    /\ UNCHANGED <<timelineVars, versions, published, workerVars>>

FailJob(r) ==
    /\ At(r, "fail")
    /\ SetStatus(req[r].found, "failed")
    /\ Return(r)
    /\ UNCHANGED <<timelineVars, versions, published, workerVars>>

(* The completed final goes to publish_content, see Publishing; without a  *)
(* playback url it does not.                                               *)
PublishFinal(r) ==
    /\ At(r, "publish")
    /\ published' \in {published, published \cup {req[r].found}}
    /\ Return(r)
    /\ UNCHANGED <<timelineVars, versions, rows, workerVars>>

-------------------------------------------------------------------------------
(***************************************************************************)
(* Polling                                                                 *)
(***************************************************************************)

(* Only a row under way is asked about. *)
BeginPoll(r, j) ==
    /\ At(r, "idle")
    /\ InStatus(j, Active)
    /\ GotoWith(r, "get", [NoRequest EXCEPT !.op = "poll", !.found = j])
    /\ Reads

(* GET /renders/j: the reply is the worker's status. *)
GetStatus(r) ==
    /\ At(r, "get")
    /\ StatusOf(req[r].found) # "absent"
    /\ Goto(r, StatusOf(req[r].found))
    /\ Reads

(* Mutant: whatever has ended is shown as completed. *)
WriteStatusEnded(r) ==
    /\ pc[r] \in {"in_progress"} \cup Terminal
    /\ SetStatus(req[r].found, IF pc[r] \in Terminal THEN "completed" ELSE pc[r])
    /\ Return(r)
    /\ UNCHANGED <<timelineVars, versions, published, workerVars>>

(* Unreachable, or 404 after a restart: the row is left as it is. *)
GetUnavailable(r) == At(r, "get") /\ Return(r) /\ Reads

WriteStatus(r) ==
    /\ pc[r] \in {"in_progress"} \cup Terminal
    /\ SetStatus(req[r].found, pc[r])
    /\ Return(r)
    /\ UNCHANGED <<timelineVars, versions, published, workerVars>>

-------------------------------------------------------------------------------
Crash(r) ==
    /\ pc[r] # "idle"
    /\ Return(r)
    /\ UNCHANGED <<dataVars, workerVars>>

EditStep(r) ==
    \/ FindTimeline(r) \/ InsertTimeline(r) \/ LoadDraft(r) \/ SaveDraft(r) \/ ReloadTimeline(r)
    \/ LoadBase(r) \/ FindReplay(r) \/ NextNumber(r) \/ InsertVersion(r) \/ PointVersion(r)
    \/ MarkStale(r) \/ RecordUsages(r)

RenderStep(r) ==
    \/ RequireVersion(r) \/ CheckPreview(r) \/ ApprovePreview(r) \/ FindJob(r)
    \/ EnforceCapacity(r) \/ CreateJob(r) \/ PostRender(r) \/ SettleJob(r) \/ FailJob(r)
    \/ PublishFinal(r)

PollStep(r) == GetStatus(r) \/ GetUnavailable(r) \/ WriteStatus(r)

RequestStep(r) == EditStep(r) \/ RenderStep(r) \/ PollStep(r)

Next ==
    \/ \E r \in Editors : BeginEdit(r)
    \/ \E r \in Renderers : BeginRender(r) \/ BeginApprove(r)
    \/ \E r \in Pollers, j \in DOMAIN rows : BeginPoll(r, j)
    \/ \E r \in Requests : RequestStep(r) \/ Crash(r)
    \/ WorkerStep /\ UNCHANGED <<pc, req, dataVars>>

Spec == Init /\ [][Next]_vars

-------------------------------------------------------------------------------
(***************************************************************************)
(* Properties                                                              *)
(***************************************************************************)

(* A job shown as completed has a video: late replies to POST and GET may  *)
(* take a status back, but never invent a completion (_dispatch_render_job, *)
(* get_video_timeline_render_job).                                         *)
CompletedWasRendered ==
    \A j \in DOMAIN rows : rows[j].status = "completed" => file[j] # "none"

(* A final render, and what is published, rests on a preview of the same   *)
(* version that was rendered and approved, whatever approvals, polls and   *)
(* new versions ran meanwhile (render-final, swipe-publish).               *)
RestsOnPreview(v, p) ==
    p \in DOMAIN rows /\ rows[p].mode = "preview" /\ rows[p].version = v /\ file[p] # "none"

FinalWasApproved ==
    /\ \A v \in DOMAIN versions : versions[v].approved # 0 => RestsOnPreview(v, versions[v].approved)
    /\ \A j \in DOMAIN rows : rows[j].mode = "final" =>
         /\ versions[rows[j].version].approved # 0
         /\ RestsOnPreview(rows[j].version, rows[j].parent)
    /\ \A j \in published : rows[j].mode = "final" /\ file[j] # "none"

(* The draft revision counts the accepted edits: none has overwritten      *)
(* another (save_draft and create_version compare, then write).            *)
EveryEditCounts == revision = edits
===============================================================================
