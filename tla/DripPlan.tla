------------------------------- MODULE DripPlan -------------------------------
(***************************************************************************)
(* A progressive release plan (services/drip_service.py): the content      *)
(* records it imports, the front matter of their files, its schedule job,  *)
(* and the scheduler that runs the job (scheduler_service.py).             *)
(*                                                                         *)
(* DripService is synchronous: an operation is one step of the server,     *)
(* except that the server may stop in the middle of a tick, between the    *)
(* file it writes and the two transitions it commits. The scheduler waits, *)
(* and others run, between reading the due jobs, running one, and writing  *)
(* its next date.                                                          *)
(***************************************************************************)
EXTENDS ContentLifecycle, Naturals, Sequences, FiniteSets

CONSTANTS
    Files,        \* the files of the directory, one record each once imported
    OptIn,        \* ssg_config.require_opt_in
    OptedIn,      \* the files that are opted in when the plan is made
    Stops,        \* the plan may be paused and cancelled
    Moves,        \* the statuses users move a record to
    Results,      \* the states of the posts that publications make of a record
    MaxTime,      \* bound: hours the clock counts
    MaxJobs,      \* bound: schedule jobs
    Mishaps       \* bound: moves and publications of the records, edits of the
                  \* files, and stops of the server in the middle of a tick

ASSUME DripAssumption ==
    /\ IsFiniteSet(Files)
    /\ OptIn \in BOOLEAN /\ Stops \in BOOLEAN
    /\ OptedIn \subseteq Files /\ Moves \subseteq Statuses
    /\ Results \subseteq {"scheduled", "publishing", "published", "partial", "failed",
                          "reconciliation_pending"}
    /\ Mishaps \in Nat /\ MaxTime \in Nat \ {0} /\ MaxJobs \in Nat \ {0}

VARIABLES
    now,
    item,      \* the record of each file: its status and scheduled_for (0: none)
    elsewhere, \* history: the published records that no tick has published
    file,      \* each file: is it held back (draft, noindex), is it opted in
    snapshot,  \* metadata.frontmatter_snapshot: what the import found
    plan,      \* the row of drip_plans
    jobs,      \* the schedule jobs of the plan, in order of creation
    scheduler, \* what the scheduler holds: the due jobs, the job it runs
    left       \* how many of the Mishaps are left

vars == <<now, item, elsewhere, file, snapshot, plan, jobs, scheduler, left>>

Times == 0 .. MaxTime

ItemStatuses == {"absent"} \cup Statuses

Absent == [status |-> "absent", due |-> 0]

TypeOK ==
    /\ now \in 1 .. MaxTime
    /\ item \in [Files -> [status : ItemStatuses, due : Times]]
    /\ elsewhere \in SUBSET Files
    /\ file \in [Files -> [held : BOOLEAN, optIn : BOOLEAN]]
    /\ snapshot \in [Files -> BOOLEAN]
    /\ plan \in [status : {"draft", "active", "paused", "completed", "cancelled", "deleted"},
                 next : Times, job : 0 .. Len(jobs)]
    /\ jobs \in Seq([enabled : BOOLEAN, next : Times]) /\ Len(jobs) <= MaxJobs
    /\ scheduler \in [due : SUBSET (1 .. Len(jobs)), job : 0 .. Len(jobs)]
    /\ left \in 0 .. Mishaps

Init ==
    /\ now = 1
    /\ item = [f \in Files |-> Absent] /\ elsewhere = {}
    /\ file = [f \in Files |-> [held |-> FALSE, optIn |-> f \in OptedIn]]
    /\ snapshot = [f \in Files |-> FALSE]
    /\ plan = [status |-> "draft", next |-> 0, job |-> 0]
    /\ jobs = <<>> /\ scheduler = [due |-> {}, job |-> 0] /\ left = Mishaps

Items == {f \in Files : item[f].status # "absent"}

Scheduled == {f \in Items : item[f].status = "scheduled"}

Earliest(T) == CHOOSE t \in T : \A u \in T : t <= u

Later(t) == IF t < MaxTime THEN t + 1 ELSE MaxTime

MayWrite(f) == OptIn => file[f].optIn

(* ----------------------------------------------------- import and schedule *)

(* MUTANT: imported records get the status of the plan they are in.        *)
ImportDraft(F) ==
    /\ plan.status # "deleted" /\ F # {} /\ F \cap Items = {}
    /\ item' = [f \in Files |-> IF f \in F THEN [status |-> plan.status, due |-> 0] ELSE item[f]]
    /\ snapshot' = [f \in Files |-> IF f \in F THEN file[f].held ELSE snapshot[f]]
    /\ UNCHANGED <<now, elsewhere, file, plan, jobs, scheduler, left>>

(* import_from_directory: files without a record in the plan, whatever the *)
(* plan's status; the snapshot is of the file as it is.                    *)
Import(F) ==
    /\ plan.status # "deleted" /\ F # {} /\ F \cap Items = {}
    /\ item' = [f \in Files |-> IF f \in F THEN [status |-> "approved", due |-> 0] ELSE item[f]]
    /\ snapshot' = [f \in Files |-> IF f \in F THEN file[f].held ELSE snapshot[f]]
    /\ UNCHANGED <<now, elsewhere, file, plan, jobs, scheduler, left>>

(* generate_schedule, with the dates d of the cadence and the items in the *)
(* order o of their positions. It moves each item to scheduled and holds   *)
(* back its file; the first item that is not approved raises, after its    *)
(* own date was written, and leaves the plan's next date as it was.        *)
GenerateSchedule(o, d) ==
    /\ plan.status # "deleted"
    /\ LET accepted == {n \in DOMAIN o :
               \A m \in 1 .. n : CanMove(item[o[m]].status, "scheduled")}
           moved == {o[n] : n \in accepted}
           dated == {o[n] : n \in {m \in DOMAIN o : 1 .. (m - 1) \subseteq accepted}}
       IN  /\ item' = [f \in Files |->
                         [status |-> IF f \in moved THEN "scheduled" ELSE item[f].status,
                          due |-> IF f \in dated THEN d[f] ELSE item[f].due]]
           /\ file' = [f \in Files |-> IF f \in moved /\ MayWrite(f)
                                       THEN [file[f] EXCEPT !.held = TRUE] ELSE file[f]]
           /\ plan' = IF accepted = DOMAIN o THEN [plan EXCEPT !.next = d[o[1]]] ELSE plan
    /\ UNCHANGED <<now, elsewhere, snapshot, jobs, scheduler, left>>

Orders == {o \in UNION {[1 .. n -> Items] : n \in 1 .. Cardinality(Files)} :
              /\ \A f \in Items : \E n \in DOMAIN o : o[n] = f
              /\ \A m, n \in DOMAIN o : o[m] = o[n] => m = n}

(* ------------------------------------------------------------ plan lifecycle *)

NextOrNow == IF plan.next = 0 THEN now ELSE plan.next

(* activate_plan: a new job at every activation                            *)
Activate ==
    /\ plan.status \in {"draft", "paused"} /\ Len(jobs) < MaxJobs
    /\ jobs' = Append(jobs, [enabled |-> TRUE, next |-> NextOrNow])
    /\ plan' = [plan EXCEPT !.status = "active", !.job = Len(jobs) + 1]
    /\ UNCHANGED <<now, item, elsewhere, file, snapshot, scheduler, left>>

Disabled == IF plan.job = 0 THEN jobs ELSE [jobs EXCEPT ![plan.job].enabled = FALSE]

(* MUTANT: restore_plan_frontmatter does not look at the item's status.    *)
RestoredAny == [f \in Files |-> IF f \in Items THEN [file[f] EXCEPT !.held = snapshot[f]]
                                ELSE file[f]]

(* restore_plan_frontmatter: the files of the items that are not out get   *)
(* back what the import found, opted in or not.                            *)
Restored == [f \in Files |-> IF item[f].status \in {"approved", "scheduled"}
                             THEN [file[f] EXCEPT !.held = snapshot[f]] ELSE file[f]]

(* MUTANT: pausing leaves the schedule job as it is.                       *)
PauseSilent ==
    /\ Stops /\ plan.status = "active"
    /\ file' = Restored
    /\ plan' = [plan EXCEPT !.status = "paused"]
    /\ UNCHANGED <<now, item, elsewhere, snapshot, jobs, scheduler, left>>

Pause ==
    /\ Stops /\ plan.status = "active"
    /\ file' = Restored /\ jobs' = Disabled
    /\ plan' = [plan EXCEPT !.status = "paused"]
    /\ UNCHANGED <<now, item, elsewhere, snapshot, scheduler, left>>

(* resume_plan: the job is enabled again; the files are not held back.     *)
Resume ==
    /\ plan.status = "paused"
    /\ jobs' = [jobs EXCEPT ![plan.job] = [enabled |-> TRUE, next |-> NextOrNow]]
    /\ plan' = [plan EXCEPT !.status = "active"]
    /\ UNCHANGED <<now, item, elsewhere, file, snapshot, scheduler, left>>

Cancel ==
    /\ Stops /\ plan.status \in {"draft", "active", "paused"}
    /\ file' = Restored /\ jobs' = Disabled
    /\ plan' = [plan EXCEPT !.status = "cancelled"]
    /\ UNCHANGED <<now, item, elsewhere, snapshot, scheduler, left>>

(* delete_plan removes the records and the plan, not the job.              *)
Delete ==
    /\ Stops /\ plan.status # "deleted"
    /\ item' = [f \in Files |-> Absent] /\ elsewhere' = {}
    /\ plan' = [plan EXCEPT !.status = "deleted"]
    /\ UNCHANGED <<now, file, snapshot, jobs, scheduler, left>>

(* ----------------------------------------------------------------- the tick *)

(* The due items a tick publishes; the others are errors and stay.         *)
Due == {f \in Scheduled : item[f].due # 0 /\ item[f].due <= now /\ MayWrite(f)}

Opened(F) == [f \in Files |-> IF f \in F THEN [file[f] EXCEPT !.held = FALSE] ELSE file[f]]

Marked(F, status) == [f \in Files |-> IF f \in F THEN [item[f] EXCEPT !.status = status]
                                      ELSE item[f]]

(* execute_drip_tick of an active plan                                     *)
TickEffect ==
    LET waiting == Scheduled \ Due
        dates == {item[f].due : f \in waiting} \ {0}
    IN  /\ file' = Opened(Due) /\ item' = Marked(Due, "published")
        /\ plan' = [plan EXCEPT
                      !.status = IF waiting = {} THEN "completed" ELSE "active",
                      !.next = IF dates = {} THEN plan.next ELSE Earliest(dates)]

Tick == IF plan.status = "active" THEN TickEffect ELSE UNCHANGED <<file, item, plan>>

TickJobs == IF plan.status = "active" /\ Scheduled \subseteq Due THEN Disabled ELSE jobs

(* POST execute-tick                                                       *)
ManualTick ==
    /\ plan.status # "deleted"
    /\ Tick /\ jobs' = TickJobs
    /\ UNCHANGED <<now, elsewhere, snapshot, scheduler, left>>

(* The server stops in a tick that the scheduler or a request began: the   *)
(* items of F are out, and of f the file is written, and perhaps the first *)
(* transition.                                                             *)
TickStops ==
    /\ plan.status = "active"
    /\ left > 0 /\ left' = left - 1
    /\ \E F \in SUBSET Due : \E f \in Due \ F : \E status \in {"scheduled", "publishing"} :
         /\ file' = Opened(F \cup {f})
         /\ item' = [Marked(F, "published") EXCEPT ![f].status = status]
    /\ scheduler' = [due |-> {}, job |-> 0]
    /\ UNCHANGED <<now, elsewhere, snapshot, plan, jobs>>

(* ------------------------------------------------------------ the scheduler *)

(* get_due_jobs *)
ReadDue ==
    /\ scheduler = [due |-> {}, job |-> 0]
    /\ scheduler' = [scheduler EXCEPT !.due = {j \in DOMAIN jobs : /\ jobs[j].enabled
                                                  /\ jobs[j].next # 0 /\ jobs[j].next <= now}]
    /\ UNCHANGED <<now, item, elsewhere, file, snapshot, plan, jobs, left>>

(* _dispatch_job and _run_drip_job, up to the rebuild it waits for         *)
RunJob(j) ==
    /\ scheduler.job = 0 /\ j \in scheduler.due
    /\ Tick /\ jobs' = TickJobs
    /\ scheduler' = [due |-> scheduler.due \ {j}, job |-> j]
    /\ UNCHANGED <<now, elsewhere, snapshot, left>>

(* MUTANT: a job that has run has no next date.                            *)
NextRunNone == 0

(* _calculate_next_run_drip: the plan's next date, or the next hour        *)
NextRun == IF plan.status = "deleted" \/ plan.next = 0 THEN Later(now) ELSE plan.next

FinishJob ==
    /\ scheduler.job # 0
    /\ jobs' = [jobs EXCEPT ![scheduler.job].next = NextRun]
    /\ scheduler' = [scheduler EXCEPT !.job = 0]
    /\ UNCHANGED <<now, item, elsewhere, file, snapshot, plan, left>>

(* ------------------------------------------------------ users and the clock *)

(* The record of f gets the status s from someone who is not the plan.     *)
SetStatus(f, s) ==
    /\ f \in Items
    /\ left > 0 /\ left' = left - 1
    /\ item' = [item EXCEPT ![f].status = s]
    /\ elsewhere' = CASE s # "published" -> elsewhere \ {f}
                      [] item[f].status # "published" -> elsewhere \cup {f}
                      [] OTHER -> elsewhere
    /\ UNCHANGED <<now, file, snapshot, plan, jobs, scheduler>>

(* transition_content, and approve_content, reject_content and             *)
(* regenerate_content                                                      *)
Move(f, to) == f \in Items /\ to \in Moves /\ CanMove(item[f].status, to) /\ SetStatus(f, to)

(* publish_content does not look at who owns the record: the result is     *)
(* written to whatever the record has become by the time of the answer.    *)
PublishContent(f) == \E result \in Results : SetStatus(f, Advance(item[f].status, result))

(* schedule_content: the date is written even when the move is refused.    *)
Reschedule(f, t) ==
    /\ f \in Items
    /\ item' = [item EXCEPT ![f] =
                  [status |-> IF CanMove(@.status, "scheduled") THEN "scheduled" ELSE @.status,
                   due |-> t]]
    /\ UNCHANGED <<now, elsewhere, file, snapshot, plan, jobs, scheduler, left>>

(* The owner of a file that is not published opts it in or out, or holds it *)
(* back, or no longer does.                                                *)
EditFile(f) ==
    /\ left > 0 /\ left' = left - 1
    /\ item[f].status # "published"
    /\ \/ file' = [file EXCEPT ![f].optIn = ~@]
       \/ file' = [file EXCEPT ![f].held = ~@]
    /\ UNCHANGED <<now, item, elsewhere, snapshot, plan, jobs, scheduler>>

HourPasses == /\ now < MaxTime /\ now' = now + 1
              /\ UNCHANGED <<item, elsewhere, file, snapshot, plan, jobs, scheduler, left>>

Release == Activate \/ Pause \/ Resume \/ Cancel \/ Delete

Next == \/ \E F \in SUBSET Files : Import(F)
        \/ \E o \in Orders, d \in [Files -> 1 .. MaxTime] : GenerateSchedule(o, d)
        \/ Release \/ ManualTick \/ TickStops
        \/ ReadDue \/ (\E j \in 1 .. MaxJobs : RunJob(j)) \/ FinishJob
        \/ \E f \in Files : \/ \E to \in Moves : Move(f, to)
                           \/ \E t \in 1 .. MaxTime : Reschedule(f, t)
                           \/ PublishContent(f) \/ EditFile(f)
        \/ HourPasses

Spec == Init /\ [][Next]_vars

(* The scheduler loop goes on, and the clock with it.                      *)
FairSpec ==
    /\ Spec
    /\ WF_vars(ReadDue) /\ WF_vars(FinishJob) /\ WF_vars(HourPasses)
    /\ \A j \in 1 .. MaxJobs : WF_vars(RunJob(j))

(* ------------------------------------------------------------- properties *)

(* Through activations, pauses and resumptions an active plan has one      *)
(* enabled schedule job, the one it names: with none nothing would be      *)
(* released, and a second would go on after a pause.                       *)
OneLiveJob == plan.status = "active" =>
    {j \in DOMAIN jobs : jobs[j].enabled} = {plan.job}

(* A record that a tick has published is out, as long as it says so: its   *)
(* file is no longer held back, whatever stopped, was restored, scheduled  *)
(* or moved since. (A user's move or a publication of the record says      *)
(* published without a look at the file; those records are the exception.) *)
PublishedIsOut == \A f \in Files \ elsewhere : item[f].status = "published" => ~file[f].held

(* The due items of an active plan are released, also when the server      *)
(* stops in the middle of a tick.                                          *)
DueIsReleased == \A f \in Files :
    (plan.status = "active" /\ f \in Due) ~> (plan.status # "active" \/ f \notin Due)
===============================================================================
