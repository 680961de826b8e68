----------------------------- MODULE ReelRenders -----------------------------
(***************************************************************************)
(* The reel renders of one user (routers/reel_renders.py): previews, their *)
(* export as finals, polling and cancellation, over the rows of the job    *)
(* store (services/job_store.py) and the render worker.                    *)
(*                                                                         *)
(* JobStore.update reads the row, merges its fields into the JSON column   *)
(* data and writes the row back: two steps, between which another request  *)
(* may do the same. Rows are numbered in the order of their insertion.     *)
(***************************************************************************)
EXTENDS RenderWorker, Sequences, FiniteSets

CONSTANTS
    Creators,     \* clients that create and export, one request after another
    Watchers,     \* clients that poll and cancel, one request after another
    Contents,     \* content records of the user
    MaxCrashes,   \* bound: how many requests may be cut short
    None

Clients == Creators \cup Watchers

ASSUME ReelsAssumption ==
    /\ Creators \cap Watchers = {} /\ None \notin Clients \cup Contents
    /\ IsFiniteSet(Creators) /\ IsFiniteSet(Jobs) /\ Jobs = 1 .. Cardinality(Jobs)
    /\ MaxCrashes \in Nat

VARIABLES
    pc,        \* where each request is
    req,       \* what each request asks and what it has read
    rows,      \* the jobs of type reel_render, by job id
    crashes

vars == <<pc, req, rows, crashes, workerVars>>

Active == {"queued", "in_progress"}   \* ACTIVE_STATUSES

(* data: the part of the JSON column that updates change.                  *)
NoData == [workerId |-> FALSE, path |-> FALSE]

(* job: the row a request reads or writes. write: the status it is about   *)
(* to write; data: the column as its update has read it.                   *)
NoRequest == [op |-> "none", content |-> None, parent |-> 0, job |-> 0, write |-> "none",
              data |-> NoData]

PCs == {"idle", "list", "insert", "post", "get", "cancel", "read", "write", "reread"}

TypeOK ==
    /\ WorkerTypeOK
    /\ pc \in [Clients -> PCs]
    /\ req \in [Clients -> [op : {"none", "create", "export", "poll", "cancel"},
                            content : Contents \cup {None}, parent : Jobs \cup {0},
                            job : Jobs \cup {0}, write : {"none"} \cup Active \cup Terminal,
                            data : [workerId : BOOLEAN, path : BOOLEAN]]]
    /\ DOMAIN rows \subseteq Jobs
    /\ \A j \in DOMAIN rows : rows[j] \in
         [mode : {"preview", "final"}, content : Contents, parent : Jobs \cup {0},
          status : Active \cup Terminal, data : [workerId : BOOLEAN, path : BOOLEAN]]
    /\ crashes \in 0 .. MaxCrashes

Init ==
    /\ WorkerInit
    /\ pc = [c \in Clients |-> "idle"]
    /\ req = [c \in Clients |-> NoRequest]
    /\ rows = <<>>
    /\ crashes = 0

At(c, p) == pc[c] = p
Goto(c, p) == pc' = [pc EXCEPT ![c] = p] /\ UNCHANGED req
GotoWith(c, p, v) == pc' = [pc EXCEPT ![c] = p] /\ req' = [req EXCEPT ![c] = v]

(* The request has answered, with a result or an error. *)
Return(c) == GotoWith(c, "idle", NoRequest)

(* Go on to JobStore.update with this status. *)
Update(c, s) == GotoWith(c, "read", [req[c] EXCEPT !.write = s])

Reads == UNCHANGED <<rows, crashes, workerVars>>

InStatus(j, S) == j \in DOMAIN rows /\ rows[j].status \in S

(* _enforce_capacity for the user; other users may fill it at any time. *)
HasCapacity == \A j \in DOMAIN rows : rows[j].status \notin Active

-------------------------------------------------------------------------------
(***************************************************************************)
(* Creating and exporting                                                  *)
(***************************************************************************)

(* Bound: every request under way may still insert a row. *)
RoomForJob == Len(rows) + Cardinality({c \in Creators : pc[c] # "idle"}) < Cardinality(Jobs)

(* POST /reel-renders lists the jobs once, to answer an active preview of  *)
(* the content, which leaves no trace, and to count.                       *)
BeginCreate(c, x) ==
    /\ At(c, "idle") /\ RoomForJob
    /\ HasCapacity
    /\ GotoWith(c, "insert", [NoRequest EXCEPT !.op = "create", !.content = x])
    /\ Reads

(* Mutant: the preview is synchronized but its outcome is not looked at. *)
RereadPreviewAny(c) == At(c, "reread") /\ Goto(c, "list") /\ Reads

(* POST .../export reads the preview, and asks the worker about one that   *)
(* is under way and has a worker id (_sync_job_from_worker).               *)
BeginExport(c, p) ==
    /\ At(c, "idle") /\ RoomForJob
    /\ rows[p].mode = "preview"
    /\ LET asks == [NoRequest EXCEPT !.op = "export", !.content = rows[p].content,
                                     !.parent = p, !.job = p] IN
         \/ rows[p].status = "completed" /\ GotoWith(c, "list", asks)
         \/ InStatus(p, Active) /\ rows[p].data.workerId /\ GotoWith(c, "get", asks)
    /\ Reads

RereadPreview(c) ==
    /\ At(c, "reread")
    /\ IF rows[req[c].parent].status = "completed" THEN Goto(c, "list") ELSE Return(c)
    /\ Reads

(* A final of this preview that is under way or completed is answered. *)
ListFinals(c) ==
    /\ At(c, "list")
    /\ \/ Return(c)
       \/ /\ \A j \in DOMAIN rows : rows[j].mode = "final" /\ rows[j].parent = req[c].parent
                                    => ~InStatus(j, Active \cup {"completed"})
          /\ HasCapacity
          /\ Goto(c, "insert")
    /\ Reads

(* upsert under a fresh id. *)
InsertJob(c) ==
    /\ At(c, "insert")
    /\ rows' = Append(rows, [mode |-> IF req[c].op = "create" THEN "preview" ELSE "final",
         content |-> req[c].content, parent |-> req[c].parent, status |-> "queued",
         data |-> NoData])
    /\ GotoWith(c, "post", [req[c] EXCEPT !.job = Len(rows) + 1])
    /\ UNCHANGED <<crashes, workerVars>>

(* POST /renders: accepted, refused or unreachable, or the reply is lost.  *)
PostRender(c) ==
    /\ At(c, "post")
    /\ \/ CreateRender(req[c].job) /\ Update(c, "queued")
       \/ CreateRender(req[c].job) /\ Update(c, "failed")
       \/ Update(c, "failed") /\ UNCHANGED workerVars
    /\ UNCHANGED <<rows, crashes>>

-------------------------------------------------------------------------------
(***************************************************************************)
(* Polling and cancelling                                                  *)
(***************************************************************************)

BeginPoll(c, j) ==
    /\ At(c, "idle")
    /\ InStatus(j, Active) /\ rows[j].data.workerId
    /\ GotoWith(c, "get", [NoRequest EXCEPT !.op = "poll", !.job = j])
    /\ Reads

(* Mutant: 404 leaves the row as it is, as it does for timelines. *)
GetStatusKeeps(c) ==
    /\ At(c, "get")
    /\ LET j == req[c].job IN
         IF StatusOf(j) = "absent" THEN Return(c)
         ELSE Update(c, IF StatusOf(j) = "completed" /\ file[j] # "kept" THEN "failed"
                        ELSE StatusOf(j))
    /\ Reads

(* GET /renders/j: 404 is a failure of the job; a completed job must still *)
(* have its artifact.                                                      *)
GetStatus(c) ==
    /\ At(c, "get")
    /\ LET j == req[c].job IN
         Update(c, CASE StatusOf(j) = "absent" -> "failed"
                     [] StatusOf(j) = "completed" /\ file[j] # "kept" -> "failed"
                     [] OTHER -> StatusOf(j))
    /\ Reads

GetUnavailable(c) == At(c, "get") /\ Return(c) /\ Reads

BeginCancel(c, j) ==
    /\ At(c, "idle")
    /\ InStatus(j, Active)
    /\ GotoWith(c, "cancel", [NoRequest EXCEPT !.op = "cancel", !.job = j])
    /\ Reads

(* Mutant: a status of its own for a cancellation under way. *)
DeleteRenderCancelling(c) ==
    /\ At(c, "cancel")
    /\ \/ CancelRender(req[c].job) /\ (Update(c, "cancelling") \/ Return(c))
       \/ Return(c) /\ UNCHANGED workerVars
    /\ UNCHANGED <<rows, crashes>>

(* DELETE /renders/j answers with the job, which is still in progress; 404 *)
(* and 400 end the request, as does a reply that is lost.                  *)
DeleteRender(c) ==
    /\ At(c, "cancel")
    /\ \/ CancelRender(req[c].job) /\ (Update(c, "in_progress") \/ Return(c))
       \/ Return(c) /\ UNCHANGED workerVars
    /\ UNCHANGED <<rows, crashes>>

-------------------------------------------------------------------------------
(***************************************************************************)
(* JobStore.update                                                         *)
(***************************************************************************)

UpdateRead(c) ==
    /\ At(c, "read")
    /\ GotoWith(c, "write", [req[c] EXCEPT !.data = rows[req[c].job].data])
    /\ Reads

(* Mutant: the fields of a completion are left out of the merge. *)
MergedDispatchOnly(c) == [workerId |-> req[c].data.workerId \/ req[c].write = "queued",
                          path     |-> req[c].data.path]

(* The dispatch adds worker_job_id, a completion adds artifact_path. *)
Merged(c) == [workerId |-> req[c].data.workerId \/ req[c].write = "queued",
              path     |-> req[c].data.path \/ req[c].write = "completed"]

UpdateWrite(c) ==
    /\ At(c, "write")
    /\ rows' = [rows EXCEPT ![req[c].job].status = req[c].write, ![req[c].job].data = Merged(c)]
    /\ IF req[c].op = "export" /\ req[c].job = req[c].parent THEN Goto(c, "reread") ELSE Return(c)
    /\ UNCHANGED <<crashes, workerVars>>

-------------------------------------------------------------------------------
Crash(c) ==
    /\ pc[c] # "idle" /\ crashes < MaxCrashes
    /\ crashes' = crashes + 1
    /\ Return(c)
    /\ UNCHANGED <<rows, workerVars>>

RequestStep(c) ==
    \/ RereadPreview(c) \/ ListFinals(c) \/ InsertJob(c) \/ PostRender(c)
    \/ GetStatus(c) \/ GetUnavailable(c) \/ DeleteRender(c)
    \/ UpdateRead(c) \/ UpdateWrite(c)

Next ==
    \/ \E c \in Creators, x \in Contents : BeginCreate(c, x)
    \/ \E c \in Creators, j \in DOMAIN rows : BeginExport(c, j)
    \/ \E c \in Watchers, j \in DOMAIN rows : BeginPoll(c, j) \/ BeginCancel(c, j)
    \/ \E c \in Clients : RequestStep(c) \/ Crash(c)
    \/ /\ WorkerStep \/ \E j \in Jobs : CleanupExpired(j)
       /\ UNCHANGED <<pc, req, rows, crashes>>

Spec == Init /\ [][Next]_vars

(* A request that has begun is run to its end; renders end; whoever waits  *)
(* for a job asks again, and the worker is not unreachable for ever.       *)
Fairness ==
    /\ \A c \in Clients : WF_vars(RequestStep(c))
    /\ \A c \in Watchers : SF_vars(GetStatus(c))
    /\ \A j \in Jobs :
         /\ WF_vars(ExecuteRender(j) /\ UNCHANGED <<pc, req, rows, crashes>>)
         /\ SF_vars(\E c \in Watchers : BeginPoll(c, j))

FairSpec == Spec /\ Fairness

-------------------------------------------------------------------------------
(***************************************************************************)
(* Properties                                                              *)
(***************************************************************************)

(* A job shown as completed was rendered and the row says where its video  *)
(* is, although the merge of another update may be older                   *)
(* (_sync_job_from_worker, JobStore.update).                               *)
CompletedHasVideo ==
    \A j \in DOMAIN rows : rows[j].status = "completed" => rows[j].data.path /\ file[j] # "none"

(* A final is exported from a preview that was rendered, whatever late     *)
(* updates have made of the preview's row since (export_reel_render_job).  *)
ExportWasRendered ==
    \A j \in DOMAIN rows : rows[j].mode = "final" =>
        /\ rows[j].parent # 0 /\ rows[rows[j].parent].mode = "preview"
        /\ rows[rows[j].parent].content = rows[j].content
        /\ file[rows[j].parent] # "none"

(* No row stays under way for ever while it names its worker job: a worker *)
(* that restarted or cancelled is found out by the next poll, and a late   *)
(* update that takes a status back is corrected (_sync_job_from_worker).   *)
ReelSettles ==
    \A j \in Jobs : []<>~(InStatus(j, Active) /\ rows[j].data.workerId)
===============================================================================
