---------------------------- MODULE DripPlan_proofs ----------------------------
(* Theorems of DripPlan and their proofs, for any files and any bounds.      *)
EXTENDS DripPlan, FiniteSetTheorems, WellFoundedInduction, TLAPS

LEMMA EarliestType ==
    ASSUME NEW T \in SUBSET Nat, T # {}
    PROVE  Earliest(T) \in T
<1> DEFINE R == OpToRel(<, Nat)
<1>1. \E x \in T : \A y \in T : ~ (<<y, x>> \in R)
  <2> HIDE DEF R
  <2>1. IsWellFoundedOn(R, Nat) BY NatLessThanWellFounded, Zenon DEF R
  <2> QED BY <2>1, WFMin, Zenon
<1>2. \A x, y \in Nat : x < y => <<x, y>> \in R BY Zenon DEF OpToRel
<1>3. \E x \in T : \A y \in T : x <= y
  <2>1. PICK x \in T : \A y \in T : ~ (<<y, x>> \in R) BY <1>1, Zenon
  <2>2. \A y \in T : ~(y < x) BY <1>2, <2>1, Zenon
  <2>3. \A y \in T : x <= y BY <2>2
  <2> QED BY <2>3
<1> QED BY <1>3 DEF Earliest

-------------------------------------------------------------------------------
(* Types                                                                     *)

JobType == [enabled : BOOLEAN, next : Times]

PlanStatuses == {"draft", "active", "paused", "completed", "cancelled", "deleted"}

(* Replacing one element of a sequence. *)
LEMMA Replaced ==
    ASSUME NEW S, NEW q \in Seq(S), NEW j \in DOMAIN q, NEW v \in S
    PROVE  /\ [q EXCEPT ![j] = v] \in Seq(S)
           /\ Len([q EXCEPT ![j] = v]) = Len(q)
           /\ \A k \in DOMAIN q : [q EXCEPT ![j] = v][k] = IF k = j THEN v ELSE q[k]
OBVIOUS

LEMMA Elements ==
    ASSUME NEW S, NEW q \in Seq(S)
    PROVE  /\ DOMAIN q = 1 .. Len(q) /\ Len(q) \in Nat
           /\ \A k \in DOMAIN q : q[k] \in S
OBVIOUS

(* What TypeOK says of the jobs, with the record type as one name.           *)
LEMMA JobsType ==
    ASSUME TypeOK
    PROVE  /\ jobs \in Seq(JobType) /\ DOMAIN jobs = 1 .. Len(jobs)
           /\ Len(jobs) \in Nat /\ Len(jobs) <= MaxJobs
           /\ \A j \in DOMAIN jobs : jobs[j] \in JobType
<1>1. jobs \in Seq(JobType) /\ Len(jobs) <= MaxJobs
  BY Zenon DEF TypeOK, JobType
<1> QED BY <1>1, Elements

LEMMA DisabledJobs ==
    ASSUME TypeOK
    PROVE  /\ Disabled \in Seq(JobType) /\ Len(Disabled) = Len(jobs)
           /\ \A j \in DOMAIN jobs : Disabled[j].enabled = (jobs[j].enabled /\ j # plan.job)
<1> USE JobsType
<1>1. CASE plan.job = 0
  BY <1>1 DEF Disabled, JobType
<1>2. CASE plan.job # 0
  <2>1. plan.job \in DOMAIN jobs BY <1>2 DEF TypeOK
  <2> DEFINE v == [jobs[plan.job] EXCEPT !.enabled = FALSE]
  <2>2. v \in JobType /\ v.enabled = FALSE BY <2>1 DEF JobType
  <2>3. Disabled = [jobs EXCEPT ![plan.job] = v] BY <1>2 DEF Disabled
  <2> HIDE DEF v
  <2>4. \A j \in DOMAIN jobs : Disabled[j] = IF j = plan.job THEN v ELSE jobs[j]
    BY <2>1, <2>2, <2>3, Replaced
  <2>5. Disabled \in Seq(JobType) /\ Len(Disabled) = Len(jobs)
    BY <2>1, <2>2, <2>3, Replaced
  <2>6. \A j \in DOMAIN jobs : jobs[j].enabled \in BOOLEAN BY DEF JobType
  <2> QED BY <2>2, <2>4, <2>5, <2>6
<1> QED BY <1>1, <1>2

(* The three parts of the type, so that a step proves those it disturbs.     *)
FilesType ==
    /\ item \in [Files -> [status : ItemStatuses, due : Times]]
    /\ elsewhere \in SUBSET Files
    /\ file \in [Files -> [held : BOOLEAN, optIn : BOOLEAN]]
    /\ snapshot \in [Files -> BOOLEAN]

PlanType ==
    /\ plan \in [status : PlanStatuses, next : Times, job : 0 .. Len(jobs)]
    /\ scheduler \in [due : SUBSET (1 .. Len(jobs)), job : 0 .. Len(jobs)]
    /\ jobs \in Seq(JobType) /\ Len(jobs) <= MaxJobs

ClockType == now \in 1 .. MaxTime /\ left \in 0 .. Mishaps

LEMMA TypeParts ==
    /\ TypeOK <=> FilesType /\ PlanType /\ ClockType
    /\ TypeOK' <=> FilesType' /\ PlanType' /\ ClockType'
BY Zenon DEF TypeOK, FilesType, PlanType, ClockType, JobType, PlanStatuses

LEMMA TimesType == Times \subseteq Nat /\ 0 \in Times /\ 1 .. MaxTime \subseteq Times
                   /\ MaxTime \in 1 .. MaxTime /\ 1 \in 1 .. MaxTime
BY DripAssumption DEF Times

(* A step that leaves the plan, its jobs and the scheduler alone. *)
LEMMA KeepsPlan ==
    ASSUME PlanType, UNCHANGED <<plan, jobs, scheduler>>
    PROVE  PlanType'
BY DEF PlanType

LEMMA RestoredType ==
    ASSUME FilesType
    PROVE  Restored \in [Files -> [held : BOOLEAN, optIn : BOOLEAN]]
BY DEF FilesType, Restored

LEMMA TickType ==
    ASSUME TypeOK, Tick
    PROVE  /\ item' \in [Files -> [status : ItemStatuses, due : Times]]
           /\ file' \in [Files -> [held : BOOLEAN, optIn : BOOLEAN]]
           /\ plan' \in [status : PlanStatuses, next : Times, job : 0 .. Len(jobs)]
<1> FilesType /\ PlanType BY TypeParts
<1>1. CASE plan.status # "active"
  BY <1>1 DEF Tick, FilesType, PlanType
<1>2. CASE plan.status = "active"
  <2> DEFINE dates == {item[f].due : f \in Scheduled \ Due} \ {0}
  <2>1. TickEffect BY <1>2 DEF Tick
  <2>2. dates \in SUBSET Nat /\ dates \subseteq Times
    <3>1. \A f \in Scheduled : item[f].due \in Times BY DEF FilesType, Scheduled, Items
    <3> QED BY <3>1, TimesType
  <2>3. dates # {} => Earliest(dates) \in Times
    <3> HIDE DEF dates
    <3> QED BY <2>2, EarliestType
  <2>4. item' \in [Files -> [status : ItemStatuses, due : Times]]
    BY <2>1 DEF TickEffect, Marked, FilesType, ItemStatuses, Statuses
  <2>5. file' \in [Files -> [held : BOOLEAN, optIn : BOOLEAN]]
    BY <2>1 DEF TickEffect, Opened, FilesType
  <2>6. PICK w \in {"completed", "active"}, t \in Times :
          plan' = [plan EXCEPT !.status = w, !.next = t]
    <3>1. plan.next \in Times BY DEF PlanType
    <3>2. plan' = [plan EXCEPT !.status = IF Scheduled \ Due = {} THEN "completed" ELSE "active",
                               !.next = IF dates = {} THEN plan.next ELSE Earliest(dates)]
      BY <2>1, Zenon DEF TickEffect
    <3> HIDE DEF dates
    <3> QED BY <2>3, <3>1, <3>2
  <2>7. plan' \in [status : PlanStatuses, next : Times, job : 0 .. Len(jobs)]
    BY <2>6 DEF PlanType, PlanStatuses
  <2> QED BY <2>4, <2>5, <2>7
<1> QED BY <1>1, <1>2

LEMMA InitType == Init => TypeOK
<1> SUFFICES ASSUME Init PROVE TypeOK
  OBVIOUS
<1>1. FilesType BY TimesType, DripAssumption DEF Init, FilesType, Absent, ItemStatuses
<1>2. PlanType
  <2>1. jobs \in Seq(JobType) /\ Len(jobs) = 0 BY DEF Init
  <2> QED BY <2>1, TimesType, DripAssumption DEF Init, PlanType, PlanStatuses
<1>3. ClockType BY TimesType, DripAssumption DEF Init, ClockType
<1> QED BY <1>1, <1>2, <1>3, TypeParts

(* The steps on records and files, which leave the plan and its jobs alone   *)
(* (generate_schedule but for the plan's next date).                         *)
LEMMA FilesStepType ==
    ASSUME TypeOK, UNCHANGED <<jobs, scheduler, now>>, FilesType', left' \in 0 .. Mishaps,
           plan' \in [status : PlanStatuses, next : Times, job : 0 .. Len(jobs)]
    PROVE  TypeOK'
<1> PlanType /\ ClockType BY TypeParts
<1>1. PlanType' BY DEF PlanType
<1>2. ClockType' BY DEF ClockType
<1> QED BY <1>1, <1>2, TypeParts

LEMMA ScheduleType ==
    ASSUME TypeOK, NEW o \in Orders, NEW d \in [Files -> 1 .. MaxTime], GenerateSchedule(o, d)
    PROVE  TypeOK'
<1> USE TimesType
<1> FilesType /\ PlanType /\ ClockType BY TypeParts
<1>1. PICK last \in 1 .. Cardinality(Files) : o \in [1 .. last -> Items]
  BY DEF Orders
<1>2. Cardinality(Files) \in Nat BY FS_CardinalityType, DripAssumption
<1>3. o[1] \in Files /\ d[o[1]] \in Times
  BY <1>1, <1>2 DEF Items
<1> DEFINE accepted == {n \in DOMAIN o : \A m \in 1 .. n : CanMove(item[o[m]].status, "scheduled")}
           moved == {o[n] : n \in accepted}
           dated == {o[n] : n \in {m \in DOMAIN o : 1 .. (m - 1) \subseteq accepted}}
<1>4. item' = [f \in Files |->
            [status |-> IF f \in moved THEN "scheduled" ELSE item[f].status,
             due |-> IF f \in dated THEN d[f] ELSE item[f].due]]
  BY Zenon DEF GenerateSchedule
<1>5. file' = [f \in Files |-> IF f \in moved /\ MayWrite(f)
                              THEN [file[f] EXCEPT !.held = TRUE] ELSE file[f]]
  BY Zenon DEF GenerateSchedule
<1>6. plan' = [plan EXCEPT !.next = d[o[1]]] \/ plan' = plan
  BY Zenon DEF GenerateSchedule
<1>7. FilesType'
  <2>1. snapshot' = snapshot /\ elsewhere' = elsewhere BY DEF GenerateSchedule
  <2> HIDE DEF moved, dated
  <2>2. item' \in [Files -> [status : ItemStatuses, due : Times]]
    BY <1>4 DEF FilesType, ItemStatuses, Statuses
  <2>3. file' \in [Files -> [held : BOOLEAN, optIn : BOOLEAN]] BY <1>5 DEF FilesType
  <2> QED BY <2>1, <2>2, <2>3 DEF FilesType
<1>8. plan' \in [status : PlanStatuses, next : Times, job : 0 .. Len(jobs)]
  BY <1>3, <1>6 DEF PlanType
<1> QED BY <1>7, <1>8, FilesStepType DEF GenerateSchedule, ClockType

LEMMA AdvanceType ==
    ASSUME NEW s \in Statuses, NEW result
    PROVE  Advance(s, result) \in Statuses
BY DEF Advance, Statuses

(* Whoever writes a status from outside of the plan writes one of the matrix. *)
LEMMA MovedStatus ==
    ASSUME TypeOK, NEW f \in Files, (\E to \in Moves : Move(f, to)) \/ PublishContent(f)
    PROVE  \E s \in Statuses : SetStatus(f, s)
<1> FilesType BY TypeParts
<1>1. CASE \E to \in Moves : Move(f, to) BY <1>1, DripAssumption DEF Move
<1>2. CASE PublishContent(f)
  <2>1. PICK result \in Results : SetStatus(f, Advance(item[f].status, result))
    BY <1>2 DEF PublishContent
  <2>2. item[f].status \in Statuses
    BY <2>1 DEF SetStatus, Items, FilesType, ItemStatuses
  <2> QED BY <2>1, <2>2, AdvanceType
<1> QED BY <1>1, <1>2

LEMMA SetStatusType ==
    ASSUME TypeOK, NEW f \in Files, NEW s \in Statuses, SetStatus(f, s)
    PROVE  TypeOK'
<1> FilesType /\ PlanType /\ ClockType BY TypeParts
<1>1. FilesType'
  <2>1. item' \in [Files -> [status : ItemStatuses, due : Times]]
    BY DEF SetStatus, FilesType, ItemStatuses
  <2>2. elsewhere' \in SUBSET Files BY DEF SetStatus, FilesType
  <2> QED BY <2>1, <2>2 DEF SetStatus, FilesType
<1>2. left' \in 0 .. Mishaps BY DripAssumption DEF SetStatus, ClockType
<1>3. plan \in [status : PlanStatuses, next : Times, job : 0 .. Len(jobs)] BY DEF PlanType
<1> QED BY <1>1, <1>2, <1>3, FilesStepType DEF SetStatus

LEMMA RecordsType ==
    ASSUME TypeOK,
           \/ \E F \in SUBSET Files : Import(F)
           \/ \E f \in Files : \/ (\E to \in Moves : Move(f, to)) \/ PublishContent(f)
                              \/ EditFile(f) \/ \E t \in 1 .. MaxTime : Reschedule(f, t)
    PROVE  TypeOK'
<1> USE TimesType
<1> FilesType /\ PlanType /\ ClockType BY TypeParts
<1>0. plan \in [status : PlanStatuses, next : Times, job : 0 .. Len(jobs)] BY DEF PlanType
<1>1. ASSUME NEW F \in SUBSET Files, Import(F) PROVE TypeOK'
  <2>1. FilesType' BY <1>1 DEF Import, FilesType, ItemStatuses, Statuses
  <2> QED BY <1>0, <1>1, <2>1, FilesStepType DEF Import, ClockType
<1>2. ASSUME NEW f \in Files, (\E to \in Moves : Move(f, to)) \/ PublishContent(f) PROVE TypeOK'
  <2>1. PICK s \in Statuses : SetStatus(f, s) BY <1>2, MovedStatus
  <2> QED BY <2>1, SetStatusType
<1>3. ASSUME NEW f \in Files, NEW t \in 1 .. MaxTime, Reschedule(f, t) PROVE TypeOK'
  <2>1. FilesType' BY <1>3 DEF Reschedule, FilesType, ItemStatuses, Statuses
  <2> QED BY <1>0, <1>3, <2>1, FilesStepType DEF Reschedule, ClockType
<1>4. ASSUME NEW f \in Files, EditFile(f) PROVE TypeOK'
  <2>1. FilesType' BY <1>4 DEF EditFile, FilesType
  <2>2. left' \in 0 .. Mishaps BY <1>4, DripAssumption DEF EditFile, ClockType
  <2> QED BY <1>0, <1>4, <2>1, <2>2, FilesStepType DEF EditFile
<1> QED BY <1>1, <1>2, <1>3, <1>4

(* The steps that write the jobs. *)
LEMMA JobsStepType ==
    ASSUME TypeOK, FilesType', UNCHANGED <<now, left>>,
           jobs' \in Seq(JobType), Len(jobs') \in Len(jobs) .. MaxJobs,
           plan' \in [status : PlanStatuses, next : Times, job : 0 .. Len(jobs')],
           scheduler' \in [due : SUBSET (1 .. Len(jobs)), job : 0 .. Len(jobs)]
    PROVE  TypeOK'
<1> PlanType /\ ClockType BY TypeParts
<1>1. Len(jobs) \in Nat BY JobsType
<1>2. MaxJobs \in Nat BY DripAssumption
<1>3. scheduler' \in [due : SUBSET (1 .. Len(jobs')), job : 0 .. Len(jobs')]
  BY <1>1, <1>2
<1>4. PlanType' BY <1>2, <1>3 DEF PlanType
<1>5. ClockType' BY DEF ClockType
<1> QED BY <1>4, <1>5, TypeParts

LEMMA NextDateType ==
    ASSUME TypeOK
    PROVE  NextOrNow \in Times /\ NextRun \in Times
<1> FilesType /\ PlanType /\ ClockType BY TypeParts
<1>1. now \in Times /\ plan.next \in Times BY TimesType DEF ClockType, PlanType
<1>2. Later(now) \in Times BY DripAssumption DEF Later, ClockType, Times
<1> QED BY <1>1, <1>2 DEF NextOrNow, NextRun

LEMMA ReleaseType ==
    ASSUME TypeOK, Release
    PROVE  TypeOK'
<1> FilesType /\ PlanType /\ ClockType BY TypeParts
<1> USE JobsType, DisabledJobs, NextDateType, TimesType
<1>1. MaxJobs \in Nat BY DripAssumption
<1>2. CASE Activate
  <2> DEFINE v == [enabled |-> TRUE, next |-> NextOrNow]
  <2>1. v \in JobType BY DEF JobType
  <2>2. jobs' = Append(jobs, v) BY <1>2 DEF Activate
  <2> HIDE DEF v
  <2>3. jobs' \in Seq(JobType) /\ Len(jobs') = Len(jobs) + 1
    BY <2>1, <2>2
  <2>4. Len(jobs') \in Len(jobs) .. MaxJobs BY <1>1, <1>2, <2>3 DEF Activate
  <2>5. plan' \in [status : PlanStatuses, next : Times, job : 0 .. Len(jobs')]
    <3>1. plan' = [plan EXCEPT !.status = "active", !.job = Len(jobs) + 1]
      BY <1>2 DEF Activate
    <3>2. Len(jobs) + 1 \in 0 .. Len(jobs') BY <2>3
    <3> QED BY <3>1, <3>2 DEF PlanType, PlanStatuses
  <2>6. FilesType' BY <1>2 DEF Activate, FilesType
  <2> QED BY <1>2, <2>3, <2>4, <2>5, <2>6, JobsStepType DEF Activate, PlanType
<1>3. CASE Pause
  <2>1. FilesType' BY <1>3, RestoredType DEF Pause, FilesType
  <2>2. jobs' \in Seq(JobType) /\ Len(jobs') = Len(jobs) BY <1>3 DEF Pause
  <2>3. plan' \in [status : PlanStatuses, next : Times, job : 0 .. Len(jobs')]
    BY <1>3, <2>2 DEF Pause, PlanType, PlanStatuses
  <2> QED BY <1>1, <1>3, <2>1, <2>2, <2>3, JobsStepType DEF Pause, PlanType
<1>4. CASE Cancel
  <2>1. FilesType' BY <1>4, RestoredType DEF Cancel, FilesType
  <2>2. jobs' \in Seq(JobType) /\ Len(jobs') = Len(jobs) BY <1>4 DEF Cancel
  <2>3. plan' \in [status : PlanStatuses, next : Times, job : 0 .. Len(jobs')]
    BY <1>4, <2>2 DEF Cancel, PlanType, PlanStatuses
  <2> QED BY <1>1, <1>4, <2>1, <2>2, <2>3, JobsStepType DEF Cancel, PlanType
<1>5. CASE Resume
  <2> DEFINE v == [enabled |-> TRUE, next |-> NextOrNow]
  <2>1. v \in JobType BY DEF JobType
  <2>2. jobs' = [jobs EXCEPT ![plan.job] = v] BY <1>5 DEF Resume
  <2> HIDE DEF v
  <2>3. jobs' \in Seq(JobType) /\ Len(jobs') = Len(jobs)
    <3>1. CASE plan.job \in DOMAIN jobs BY <2>1, <2>2, <3>1, Replaced
    <3>2. CASE plan.job \notin DOMAIN jobs
      <4>1. jobs' = jobs BY <2>2, <3>2
      <4> QED BY <4>1
    <3> QED BY <3>1, <3>2
  <2>4. plan' \in [status : PlanStatuses, next : Times, job : 0 .. Len(jobs')]
    <3>1. plan' = [plan EXCEPT !.status = "active"] BY <1>5 DEF Resume
    <3>2. plan' \in [status : PlanStatuses, next : Times, job : 0 .. Len(jobs)]
      BY <3>1 DEF PlanType, PlanStatuses
    <3> QED BY <2>3, <3>2
  <2>5. FilesType' BY <1>5 DEF Resume, FilesType
  <2> QED BY <1>1, <1>5, <2>3, <2>4, <2>5, JobsStepType DEF Resume, PlanType
<1>6. CASE Delete
  <2>1. FilesType' BY <1>6 DEF Delete, FilesType, Absent, ItemStatuses
  <2>2. plan' \in [status : PlanStatuses, next : Times, job : 0 .. Len(jobs')]
    BY <1>6 DEF Delete, PlanType, PlanStatuses
  <2> QED BY <1>1, <1>6, <2>1, <2>2, JobsStepType DEF Delete, PlanType
<1> QED BY <1>2, <1>3, <1>4, <1>5, <1>6 DEF Release

LEMMA TickStepType ==
    ASSUME TypeOK, ManualTick \/ TickStops \/ \E j \in 1 .. MaxJobs : RunJob(j)
    PROVE  TypeOK'
<1> FilesType /\ PlanType /\ ClockType BY TypeParts
<1> USE JobsType, DisabledJobs, TimesType
<1>1. MaxJobs \in Nat BY DripAssumption
<1>2. TickJobs \in Seq(JobType) /\ Len(TickJobs) = Len(jobs) BY DEF TickJobs
<1>3. CASE ManualTick
  <2>1. FilesType' BY <1>3, TickType DEF ManualTick, FilesType
  <2> QED BY <1>1, <1>2, <1>3, <2>1, TickType, JobsStepType DEF ManualTick, PlanType
<1>4. ASSUME NEW j \in 1 .. MaxJobs, RunJob(j) PROVE TypeOK'
  <2>1. FilesType' BY <1>4, TickType DEF RunJob, FilesType
  <2>2. scheduler' \in [due : SUBSET (1 .. Len(jobs)), job : 0 .. Len(jobs)]
    BY <1>4 DEF RunJob, PlanType
  <2> QED BY <1>1, <1>2, <1>4, <2>1, <2>2, TickType, JobsStepType DEF RunJob
<1>5. CASE TickStops
  <2>1. FilesType'
    <3>1. PICK F \in SUBSET Due : \E f \in Due \ F : \E status \in {"scheduled", "publishing"} :
             /\ file' = Opened(F \cup {f})
             /\ item' = [Marked(F, "published") EXCEPT ![f].status = status]
      BY <1>5 DEF TickStops
    <3>2. PICK f \in Due \ F : \E status \in {"scheduled", "publishing"} :
             /\ file' = Opened(F \cup {f})
             /\ item' = [Marked(F, "published") EXCEPT ![f].status = status]
      BY <3>1
    <3>3. PICK status \in {"scheduled", "publishing"} :
             /\ file' = Opened(F \cup {f})
             /\ item' = [Marked(F, "published") EXCEPT ![f].status = status]
      BY <3>2
    <3>4. file' \in [Files -> [held : BOOLEAN, optIn : BOOLEAN]]
      BY <3>3 DEF FilesType, Opened
    <3>5. Marked(F, "published") \in [Files -> [status : ItemStatuses, due : Times]]
      BY DEF FilesType, Marked, ItemStatuses, Statuses
    <3>6. item' \in [Files -> [status : ItemStatuses, due : Times]]
      BY <3>3, <3>5 DEF ItemStatuses, Statuses
    <3> QED BY <1>5, <3>4, <3>6 DEF FilesType, TickStops
  <2>2. PlanType' BY <1>5 DEF TickStops, PlanType
  <2>3. ClockType' BY <1>5, DripAssumption DEF TickStops, ClockType
  <2> QED BY <2>1, <2>2, <2>3, TypeParts
<1> QED BY <1>3, <1>4, <1>5

LEMMA SchedulerType ==
    ASSUME TypeOK, ReadDue \/ FinishJob \/ HourPasses
    PROVE  TypeOK'
<1> FilesType /\ PlanType /\ ClockType BY TypeParts
<1> USE JobsType, NextDateType
<1>1. CASE ReadDue
  <2>1. FilesType' BY <1>1 DEF ReadDue, FilesType
  <2>2. PlanType' BY <1>1 DEF ReadDue, PlanType
  <2>3. ClockType' BY <1>1 DEF ReadDue, ClockType
  <2> QED BY <2>1, <2>2, <2>3, TypeParts
<1>2. CASE FinishJob
  <2> DEFINE v == [jobs[scheduler.job] EXCEPT !.next = NextRun]
  <2>1. scheduler.job \in DOMAIN jobs BY <1>2 DEF FinishJob, PlanType
  <2>2. v \in JobType BY <2>1 DEF JobType
  <2>3. jobs' = [jobs EXCEPT ![scheduler.job] = v] BY <1>2 DEF FinishJob
  <2> HIDE DEF v
  <2>4. jobs' \in Seq(JobType) /\ Len(jobs') = Len(jobs) BY <2>1, <2>2, <2>3, Replaced
  <2>5. FilesType' BY <1>2 DEF FinishJob, FilesType
  <2>6. PlanType' BY <1>2, <2>4 DEF FinishJob, PlanType
  <2>7. ClockType' BY <1>2 DEF FinishJob, ClockType
  <2> QED BY <2>5, <2>6, <2>7, TypeParts
<1>3. CASE HourPasses
  <2>1. FilesType' BY <1>3 DEF HourPasses, FilesType
  <2>2. PlanType' BY <1>3 DEF HourPasses, PlanType
  <2>3. ClockType' BY <1>3, DripAssumption DEF HourPasses, ClockType
  <2> QED BY <2>1, <2>2, <2>3, TypeParts
<1> QED BY <1>1, <1>2, <1>3

LEMMA NextType == TypeOK /\ [Next]_vars => TypeOK'
<1> SUFFICES ASSUME TypeOK, [Next]_vars PROVE TypeOK'
  OBVIOUS
<1>1. CASE UNCHANGED vars
  <2> FilesType /\ PlanType /\ ClockType BY TypeParts
  <2>1. FilesType' /\ PlanType' /\ ClockType'
    BY <1>1 DEF vars, FilesType, PlanType, ClockType
  <2> QED BY <2>1, TypeParts
<1>2. CASE Next
  BY <1>2, RecordsType, ScheduleType, ReleaseType, TickStepType, SchedulerType DEF Next
<1> QED BY <1>1, <1>2

(* TypeOK holds in every reachable state.                                    *)
THEOREM TypeCorrect == Spec => []TypeOK
<1>1. Init => TypeOK BY InitType
<1>2. TypeOK /\ [Next]_vars => TypeOK' BY NextType
<1> QED BY <1>1, <1>2, PTL DEF Spec

-------------------------------------------------------------------------------
(* The schedule job of a plan                                                *)

Enabled(q) == {j \in DOMAIN q : q[j].enabled}

(* The inductive invariant: what the enabled jobs are for each status of the *)
(* plan. Without the second line a new activation could add to a job left    *)
(* enabled by a pause; a deleted plan promises nothing.                      *)
JobsFollowPlan ==
    /\ plan.status = "active" => Enabled(jobs) = {plan.job}
    /\ plan.status \notin {"active", "deleted"} => Enabled(jobs) = {}
    /\ plan.status = "paused" => plan.job # 0

LEMMA EnabledDisabled ==
    ASSUME TypeOK
    PROVE  Enabled(Disabled) = Enabled(jobs) \ {plan.job}
<1>1. DOMAIN Disabled = DOMAIN jobs BY DisabledJobs, JobsType, Elements
<1> QED BY <1>1, DisabledJobs DEF Enabled

(* A step that leaves the status, the job and the enabled jobs alone. *)
LEMMA SameJobs ==
    ASSUME JobsFollowPlan, plan'.status = plan.status, plan'.job = plan.job,
           Enabled(jobs)' = Enabled(jobs)
    PROVE  JobsFollowPlan'
BY DEF JobsFollowPlan

LEMMA TickKeepsJobs ==
    ASSUME TypeOK, JobsFollowPlan, Tick, jobs' = TickJobs
    PROVE  JobsFollowPlan'
<1> PlanType BY TypeParts
<1>1. CASE plan.status # "active"
  BY <1>1, SameJobs DEF Tick, TickJobs
<1>2. CASE plan.status = "active" /\ Scheduled \subseteq Due
  <2>1. jobs' = Disabled BY <1>2 DEF TickJobs
  <2>2. Enabled(jobs)' = {} BY <1>2, <2>1, EnabledDisabled DEF JobsFollowPlan
  <2>3. plan'.status = "completed"
    BY <1>2 DEF Tick, TickEffect, PlanType
  <2> QED BY <2>2, <2>3 DEF JobsFollowPlan
<1>3. CASE plan.status = "active" /\ ~(Scheduled \subseteq Due)
  <2>1. jobs' = jobs BY <1>3 DEF TickJobs
  <2>2. plan'.status = "active" /\ plan'.job = plan.job
    BY <1>3 DEF Tick, TickEffect, PlanType
  <2> QED BY <1>3, <2>1, <2>2, SameJobs
<1> QED BY <1>1, <1>2, <1>3

LEMMA ReleaseKeepsJobs ==
    ASSUME TypeOK, JobsFollowPlan, Release
    PROVE  JobsFollowPlan'
<1> PlanType BY TypeParts
<1> USE JobsType
<1>1. CASE Activate
  <2> DEFINE v == [enabled |-> TRUE, next |-> NextOrNow]
  <2>1. v \in JobType /\ v.enabled BY NextDateType DEF JobType
  <2>2. jobs' = Append(jobs, v) BY <1>1 DEF Activate
  <2> HIDE DEF v
  <2>3. /\ DOMAIN jobs' = 1 .. Len(jobs) + 1 /\ jobs'[Len(jobs) + 1] = v
        /\ \A j \in DOMAIN jobs : jobs'[j] = jobs[j]
    BY <2>1, <2>2
  <2>4. Enabled(jobs) = {} BY <1>1 DEF Activate, JobsFollowPlan
  <2>5. Enabled(jobs)' = {Len(jobs) + 1} BY <2>1, <2>3, <2>4 DEF Enabled
  <2>6. plan'.status = "active" /\ plan'.job = Len(jobs) + 1
    BY <1>1 DEF Activate, PlanType
  <2> QED BY <2>5, <2>6 DEF JobsFollowPlan
<1>2. CASE Pause
  <2>1. Enabled(jobs)' = {} BY <1>2, EnabledDisabled DEF Pause, JobsFollowPlan
  <2>2. plan'.status = "paused" /\ plan'.job = plan.job BY <1>2 DEF Pause, PlanType
  <2>3. plan.job \in Enabled(jobs) BY <1>2 DEF Pause, JobsFollowPlan
  <2>4. plan.job # 0 BY <2>3 DEF Enabled
  <2> QED BY <2>1, <2>2, <2>4 DEF JobsFollowPlan
<1>3. CASE Resume
  <2> DEFINE v == [enabled |-> TRUE, next |-> NextOrNow]
  <2>1. v \in JobType /\ v.enabled BY NextDateType DEF JobType
  <2>2. jobs' = [jobs EXCEPT ![plan.job] = v] BY <1>3 DEF Resume
  <2> HIDE DEF v
  <2>3. plan.job \in DOMAIN jobs BY <1>3 DEF Resume, JobsFollowPlan, PlanType
  <2>4. DOMAIN jobs' = DOMAIN jobs /\ \A j \in DOMAIN jobs :
           jobs'[j] = IF j = plan.job THEN v ELSE jobs[j]
    BY <2>2
  <2>5. Enabled(jobs) = {} BY <1>3 DEF Resume, JobsFollowPlan
  <2>6. Enabled(jobs)' = {plan.job} BY <2>1, <2>3, <2>4, <2>5 DEF Enabled
  <2>7. plan'.status = "active" /\ plan'.job = plan.job BY <1>3 DEF Resume, PlanType
  <2> QED BY <2>6, <2>7 DEF JobsFollowPlan
<1>4. CASE Cancel
  <2>1. Enabled(jobs)' = {} BY <1>4, EnabledDisabled DEF Cancel, JobsFollowPlan
  <2>2. plan'.status = "cancelled" BY <1>4 DEF Cancel, PlanType
  <2> QED BY <2>1, <2>2 DEF JobsFollowPlan
<1>5. CASE Delete
  <2>1. plan'.status = "deleted" BY <1>5 DEF Delete, PlanType
  <2> QED BY <2>1 DEF JobsFollowPlan
<1> QED BY <1>1, <1>2, <1>3, <1>4, <1>5 DEF Release

LEMMA NextKeepsJobs == TypeOK /\ JobsFollowPlan /\ [Next]_vars => JobsFollowPlan'
<1> SUFFICES ASSUME TypeOK, JobsFollowPlan, [Next]_vars PROVE JobsFollowPlan'
  OBVIOUS
<1> PlanType BY TypeParts
<1>1. ASSUME UNCHANGED <<plan, jobs>> PROVE JobsFollowPlan'
  BY <1>1, SameJobs
<1>2. ASSUME NEW o \in Orders, NEW d \in [Files -> 1 .. MaxTime], GenerateSchedule(o, d)
      PROVE JobsFollowPlan'
  <2>1. plan' = [plan EXCEPT !.next = d[o[1]]] \/ plan' = plan
    BY <1>2, Zenon DEF GenerateSchedule
  <2>2. plan'.status = plan.status /\ plan'.job = plan.job BY <2>1 DEF PlanType
  <2>3. jobs' = jobs BY <1>2 DEF GenerateSchedule
  <2> QED BY <2>2, <2>3, SameJobs
<1>3. CASE Release BY <1>3, ReleaseKeepsJobs
<1>4. CASE ManualTick \/ \E j \in 1 .. MaxJobs : RunJob(j)
  BY <1>4, TickKeepsJobs DEF ManualTick, RunJob
<1>5. CASE FinishJob
  <2>1. jobs' = [jobs EXCEPT ![scheduler.job].next = NextRun] BY <1>5 DEF FinishJob
  <2>2. Enabled(jobs)' = Enabled(jobs)
    <3>1. \A j \in DOMAIN jobs : jobs'[j].enabled = jobs[j].enabled
      BY <2>1, JobsType DEF JobType
    <3>2. DOMAIN jobs' = DOMAIN jobs BY <2>1
    <3> QED BY <3>1, <3>2 DEF Enabled
  <2> QED BY <1>5, <2>2, SameJobs DEF FinishJob
<1> QED
  BY <1>1, <1>2, <1>3, <1>4, <1>5
     DEF Next, vars, Import, TickStops, ReadDue, Move, PublishContent, SetStatus, EditFile,
         Reschedule, HourPasses

(* Through activations, pauses and resumptions an active plan has one        *)
(* enabled schedule job, the one it names (drip_service.py): nothing else    *)
(* releases its files, and something does.                                   *)
THEOREM OneLiveJobHolds == Spec => []OneLiveJob
<1>1. Init => JobsFollowPlan BY DEF Init, JobsFollowPlan, Enabled
<1>2. TypeOK /\ JobsFollowPlan /\ [Next]_vars => JobsFollowPlan' BY NextKeepsJobs
<1>3. JobsFollowPlan => OneLiveJob BY DEF JobsFollowPlan, OneLiveJob, Enabled
<1> QED BY <1>1, <1>2, <1>3, TypeCorrect, PTL DEF Spec

-------------------------------------------------------------------------------
(* What is published is out                                                  *)

(* After a write from outside, what says published and is not named by the   *)
(* history was so before.                                                    *)
LEMMA SetStatusOthers ==
    ASSUME TypeOK, NEW g \in Files, NEW s \in Statuses, SetStatus(g, s),
           NEW f \in Files \ elsewhere', item'[f].status = "published"
    PROVE  f \notin elsewhere /\ item[f].status = "published"
<1> FilesType BY TypeParts
<1>1. CASE f = g BY <1>1 DEF SetStatus, FilesType
<1>2. CASE f # g BY <1>2 DEF SetStatus, FilesType
<1> QED BY <1>1, <1>2

LEMMA NextKeepsOut == TypeOK /\ PublishedIsOut /\ [Next]_vars => PublishedIsOut'
<1> SUFFICES ASSUME TypeOK, PublishedIsOut, [Next]_vars,
                    NEW f \in Files \ elsewhere', item'[f].status = "published"
             PROVE  ~file'[f].held
  BY DEF PublishedIsOut
<1> FilesType /\ PlanType BY TypeParts
<1> USE DEF FilesType
<1>0. f \notin elsewhere /\ item[f].status = "published" => ~file[f].held
  BY DEF PublishedIsOut
<1>1. ASSUME UNCHANGED <<item, elsewhere, file>> PROVE ~file'[f].held
  BY <1>0, <1>1
<1>2. ASSUME NEW F \in SUBSET Files, Import(F) PROVE ~file'[f].held
  <2>1. item'[f].status = item[f].status /\ file' = file /\ f \notin elsewhere
    BY <1>2 DEF Import
  <2> QED BY <1>0, <2>1
<1>3. ASSUME NEW o \in Orders, NEW d \in [Files -> 1 .. MaxTime], GenerateSchedule(o, d)
      PROVE ~file'[f].held
  <2> DEFINE accepted == {n \in DOMAIN o : \A m \in 1 .. n : CanMove(item[o[m]].status, "scheduled")}
             moved == {o[n] : n \in accepted}
             dated == {o[n] : n \in {m \in DOMAIN o : 1 .. (m - 1) \subseteq accepted}}
  <2>1. item' = [g \in Files |->
            [status |-> IF g \in moved THEN "scheduled" ELSE item[g].status,
             due |-> IF g \in dated THEN d[g] ELSE item[g].due]]
    BY <1>3, Zenon DEF GenerateSchedule
  <2>2. file' = [g \in Files |-> IF g \in moved /\ MayWrite(g)
                                THEN [file[g] EXCEPT !.held = TRUE] ELSE file[g]]
    BY <1>3, Zenon DEF GenerateSchedule
  <2> HIDE DEF moved, dated
  <2>3. f \notin moved /\ item[f].status = "published" /\ f \notin elsewhere
    BY <1>3, <2>1 DEF GenerateSchedule
  <2> QED BY <1>0, <2>2, <2>3
<1>4. CASE Release
  <2>1. CASE Delete BY <2>1 DEF Delete, Absent
  <2>2. UNCHANGED <<item, elsewhere>> /\ (file' = file \/ file' = Restored)
    BY <1>4, <2>1 DEF Release, Activate, Pause, Resume, Cancel, Delete, Absent
  <2> QED BY <1>0, <2>2 DEF Restored
<1>5. ASSUME Tick, elsewhere' = elsewhere PROVE ~file'[f].held
  BY <1>0, <1>5 DEF Tick, TickEffect, Opened, Marked
<1>6. CASE TickStops
  <2>1. PICK F \in SUBSET Due : \E g \in Due \ F : \E status \in {"scheduled", "publishing"} :
           /\ file' = Opened(F \cup {g})
           /\ item' = [Marked(F, "published") EXCEPT ![g].status = status]
    BY <1>6 DEF TickStops
  <2>2. PICK g \in Due \ F : \E status \in {"scheduled", "publishing"} :
           /\ file' = Opened(F \cup {g})
           /\ item' = [Marked(F, "published") EXCEPT ![g].status = status]
    BY <2>1
  <2>3. file' = Opened(F \cup {g}) BY <2>2
  <2>4. CASE f \in F \cup {g} BY <2>3, <2>4 DEF Opened
  <2>5. CASE f \notin F \cup {g}
    <3>1. item'[f].status = item[f].status BY <2>2, <2>5 DEF Marked
    <3>2. f \notin elsewhere BY <1>6 DEF TickStops
    <3> QED BY <3>2, <1>0, <2>3, <2>5, <3>1 DEF Opened
  <2> QED BY <2>4, <2>5
<1>7. ASSUME NEW g \in Files, (\E to \in Moves : Move(g, to)) \/ PublishContent(g)
      PROVE ~file'[f].held
  <2>1. PICK s \in Statuses : SetStatus(g, s) BY <1>7, MovedStatus
  <2>2. file' = file BY <2>1 DEF SetStatus
  <2>3. f \notin elsewhere /\ item[f].status = "published"
    BY <2>1, Zenon, SetStatusOthers
  <2> QED BY <1>0, <2>2, <2>3
<1>8. ASSUME NEW g \in Files, EditFile(g) \/ \E t \in 1 .. MaxTime : Reschedule(g, t)
      PROVE ~file'[f].held
  <2>1. CASE EditFile(g) BY <1>0, <2>1 DEF EditFile
  <2>2. ASSUME NEW t \in 1 .. MaxTime, Reschedule(g, t) PROVE ~file'[f].held
    <3>1. item'[f].status = "published" => item[f].status = "published"
      BY <2>2 DEF Reschedule
    <3> QED BY <1>0, <2>2, <3>1 DEF Reschedule
  <2> QED BY <1>8, <2>1, <2>2
<1> QED
  BY <1>1, <1>2, <1>3, <1>4, <1>5, <1>6, <1>7, <1>8
     DEF Next, vars, ManualTick, RunJob, ReadDue, FinishJob, HourPasses

(* A record that a tick has published is out (drip_service.py): its file is  *)
(* not held back by a restoration, a schedule generated later, a stop, or    *)
(* what users and publications make of the records.                          *)
THEOREM PublishedIsOutHolds == Spec => []PublishedIsOut
<1>1. Init => PublishedIsOut BY DEF Init, PublishedIsOut, Absent
<1>2. TypeOK /\ PublishedIsOut /\ [Next]_vars => PublishedIsOut' BY NextKeepsOut
<1> QED BY <1>1, <1>2, TypeCorrect, PTL DEF Spec
===============================================================================
