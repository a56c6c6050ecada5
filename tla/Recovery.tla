------------------------------ MODULE Recovery ------------------------------
(***************************************************************************)
(* Recovery: the snapshot RecoverySnapshotReader.Load takes of a Project,  *)
(* the findings RecoveryInspectionService.Inspect makes of it, the plan of *)
(* a repair, its public projection and its approval, and the two ways to   *)
(* apply it: the HTTP Command recovery.complete_task.apply and the CLI's   *)
(* recovery-apply.                                                         *)
(*                                                                         *)
(* Nothing stops while Recovery looks.  Workers execute, review and revise *)
(* Tasks, each a Command of its own, and may die between two writes; an    *)
(* operator reads one kind of document after the other, hands out a plan,  *)
(* and applies it much later.  TaskStore's compare and set is one step     *)
(* here (TaskService implements it); a write may take effect and report    *)
(* failure.                                                                *)
(***************************************************************************)
EXTENDS Task, Sequences

CONSTANTS Workers,    \* Commands that execute, review or revise a Task
          Operators,  \* people, or clients, who inspect and repair
          Tasks,      \* Task IDs of one Project
          Spare,      \* those that only a Revision creates
          Damaged,    \* those whose Deliverable may be put there by hand
          NoPlan      \* no approved plan

ASSUME ActorsAssumption == Workers \cap Operators = {}
ASSUME SpareAssumption == Spare \subseteq Tasks /\ Damaged \subseteq Tasks

VARIABLES
    rows,      \* Tasks.md: [Tasks -> TaskRecords \cup {NoTask}]
    saved,     \* Deliverables/: what the file of each Task holds
    reviews,   \* Reviews/: which of its two files each Task has
    intents,   \* Revisions/: the Tasks with a Revision intent
    running,   \* Command Ledger: the actors whose record is running
    pc,        \* where each actor is
    job,       \* the Task a worker works on
    ask,       \* what an operator asked for
    seen,      \* the part of the snapshot it has read
    report,    \* the findings it was shown
    plans,     \* the executable plans that were handed out for approval
    reply,     \* the status an apply returned
    did        \* history: the changes an apply committed

store == <<rows, saved, reviews, intents>>
reading == <<ask, seen, report, plans, reply, did>>
vars == <<store, running, pc, job, reading>>

-----------------------------------------------------------------------------
(* Evidence and findings *)

\* DeliverableEvidence: no file; one that matches Project, Task and assignee;
\* a valid one of another assignee; a file that cannot be trusted.
Evidence == {"none", "match", "foreign", "invalid"}

Files == {"canonical", "projection"}

TaskActions == {"complete_task", "fail_and_hold_task"}

\* The constructor finding(...) of the inspection.
Finding(kind, severity, about, action) ==
    [kind |-> kind, severity |-> severity, about |-> about,
     recoverable |-> action # "none", action |-> action]

\* inspectRecoverySnapshot, the switch over one Task.
TaskFinding(t, rec, evidence) ==
    CASE rec.status = "in_progress" /\ evidence = "match" ->
            {Finding("task_completion_pending", "warning", t, "complete_task")}
      [] rec.status = "in_progress" /\ evidence = "none" ->
            {Finding("task_execution_interrupted", "warning", t, "fail_and_hold_task")}
      [] rec.status = "completed" /\ evidence = "none" ->
            {Finding("completed_task_deliverable_missing", "critical", t, "none")}
      [] rec.status = "completed" /\ evidence = "match" -> {}
      [] rec.status \in {"in_progress", "completed"} /\ evidence \in {"foreign", "invalid"} ->
            {Finding("deliverable_task_conflict", "critical", t, "none")}
      [] rec.status \in {"unstarted", "on_hold"} /\ evidence # "none" ->
            {Finding("deliverable_task_conflict", "critical", t, "none")}
      [] OTHER -> {}

DeliverableFinding(t, rec, evidence) ==
    CASE evidence = "invalid" ->
            {Finding("artifact_invalid", "critical", t, "none")}
      [] evidence \in {"match", "foreign"} /\ rec = NoTask ->
            {Finding("deliverable_task_conflict", "critical", t, "none")}
      [] OTHER -> {}

ReviewFinding(t, files) ==
    CASE files = {"canonical"} ->
            {Finding("review_projection_missing", "warning", t, "none")}
      [] files = {"projection"} ->
            {Finding("review_canonical_missing", "critical", t, "none")}
      [] OTHER -> {}

RevisionFinding(t, rec, intended) ==
    IF t \in intended /\ rec = NoTask
      THEN {Finding("revision_task_missing", "warning", t, "none")} ELSE {}

\* Inspect over the whole snapshot, but for the Audit Log (TaskService's
\* ExpectedEvent) and residual files; commands are the running records.
Findings(snapshot, commands) ==
    (UNION {(IF snapshot.rows[t] = NoTask THEN {}
               ELSE TaskFinding(t, snapshot.rows[t], snapshot.saved[t]))
            \cup DeliverableFinding(t, snapshot.rows[t], snapshot.saved[t])
            \cup ReviewFinding(t, snapshot.reviews[t])
            \cup RevisionFinding(t, snapshot.rows[t], snapshot.intents) : t \in Tasks})
    \cup {Finding("command_incomplete", "warning", a, "none") : a \in commands}

\* projectRecoveryFinding: what an HTTP client may be shown.
ShownFinding(f) ==
    /\ f.kind \in {"task_completion_pending", "task_execution_interrupted",
                   "completed_task_deliverable_missing", "deliverable_task_conflict",
                   "artifact_invalid", "review_projection_missing",
                   "review_canonical_missing", "revision_task_missing",
                   "audit_evidence_unverifiable", "residual_temporary_state",
                   "command_incomplete"}
    /\ f.severity \in {"warning", "critical"}
    /\ f.action \in TaskActions \cup {"none"}
    /\ f.recoverable <=> f.action # "none"

\* The zero Snapshot: nothing read yet.
Nothing ==
    [rows |-> [t \in Tasks |-> NoTask], saved |-> [t \in Tasks |-> "none"],
     reviews |-> [t \in Tasks |-> {}], intents |-> {}]

-----------------------------------------------------------------------------
(* Plans *)

\* Plan: SourceRevision covers the whole Task record and its evidence.
MakePlan(t, action, rec, evidence) ==
    [task |-> t, action |-> action, record |-> rec, evidence |-> evidence]

Plans ==
    [task : Tasks, action : TaskActions, record : TaskRecords, evidence : Evidence]

\* Mutation: a Deliverable that cannot be trusted does not block.
BlockingUnlessAbsent(p) ==
    (IF p.record.status # "in_progress" THEN <<"task_not_in_progress">> ELSE <<>>)
    \o CASE p.action = "complete_task" /\ p.evidence # "match" ->
               <<"matching_deliverable_not_confirmed">>
         [] p.action = "fail_and_hold_task" /\ p.evidence = "match" ->
               <<"deliverable_present_or_invalid">>
         [] OTHER -> <<>>

\* RecoveryInspectionService.Plan: BlockingReasons.  A reason for the failure
\* is always given.
Blocking(p) ==
    (IF p.record.status # "in_progress" THEN <<"task_not_in_progress">> ELSE <<>>)
    \o CASE p.action = "complete_task" /\ p.evidence # "match" ->
               <<"matching_deliverable_not_confirmed">>
         [] p.action = "fail_and_hold_task" /\ p.evidence # "none" ->
               <<"deliverable_present_or_invalid">>
         [] OTHER -> <<>>

Executable(p) == Blocking(p) = <<>>

\* completeTaskBlockingOrder, failAndHoldBlockingOrder.
BlockingOrder(action) ==
    IF action = "complete_task"
      THEN <<"task_not_in_progress", "matching_deliverable_not_confirmed">>
      ELSE <<"task_not_in_progress", "deliverable_present_or_invalid">>

\* validateOrderedBlockingReasons: reasons of the closed list, each once, in
\* its order.
ShownPlan(p) ==
    LET given == Blocking(p)
        order == BlockingOrder(p.action)
    IN \E place \in [1 .. Len(given) -> 1 .. Len(order)] :
          \A i \in 1 .. Len(given) :
             /\ given[i] = order[place[i]]
             /\ \A j \in 1 .. (i - 1) : place[j] < place[i]

-----------------------------------------------------------------------------
NoAsk == [kind |-> "none", task |-> NoTask, action |-> "none", plan |-> NoPlan, checks |-> 0]

\* Two checks over HTTP (ExecuteCompleteTaskRecoveryApply plans, then
\* executeTaskRecovery plans again), one from the CLI.
Asks ==
    {NoAsk}
    \cup [kind : {"inspect"}, task : {NoTask}, action : {"none"}, plan : {NoPlan}, checks : {0}]
    \cup [kind : {"plan"}, task : Tasks, action : TaskActions, plan : {NoPlan}, checks : {0}]
    \cup [kind : {"apply"}, task : Tasks, action : TaskActions, plan : Plans, checks : 0 .. 2]

Replies == {"none", "stale", "error", "failed", "completed", "held", "partial_failure"}

WorkerPlaces ==
    {"idle", "start", "save", "complete", "fail", "hold",
     "canonical", "projection", "intent", "row", "finish", "dead"}

OperatorPlaces ==
    {"idle", "tasks", "deliverables", "reviews", "revisions", "commands",
     "claim", "repair", "rehold", "finish", "dead"}

Goto(a, place) == pc' = [pc EXCEPT ![a] = place]

\* The Vault may hold Deliverables that were put there or edited by hand.
Init ==
    /\ rows = [t \in Tasks |-> IF t \in Spare THEN NoTask ELSE NewTask]
    /\ saved \in {s \in [Tasks -> {"none", "foreign", "invalid"}] :
                    \A t \in Tasks \ Damaged : s[t] = "none"}
    /\ reviews = [t \in Tasks |-> {}]
    /\ intents = {}
    /\ running = {}
    /\ pc = [a \in Workers \cup Operators |-> "idle"]
    /\ job = [w \in Workers |-> NoTask]
    /\ ask = [o \in Operators |-> NoAsk]
    /\ seen = [o \in Operators |-> Nothing]
    /\ report = [o \in Operators |-> {}]
    /\ plans = {}
    /\ reply = [o \in Operators |-> "none"]
    /\ did = [o \in Operators |-> {}]

-----------------------------------------------------------------------------
(* Workers *)

\* A Command is claimed: the execution of a Task, the Review of a completed
\* one, or the Revision of a reviewed one.
Begin(w, t, first) ==
    /\ pc[w] = "idle"
    /\ \/ first = "start" /\ rows[t] # NoTask
       \/ first = "canonical" /\ rows[t] # NoTask /\ rows[t].status = "completed"
       \/ /\ first = "intent"
          /\ rows[t] = NoTask
          /\ \E s \in Tasks : "canonical" \in reviews[s]
    /\ running' = running \cup {w}
    /\ job' = [job EXCEPT ![w] = t]
    /\ Goto(w, first)
    /\ UNCHANGED <<store, reading>>

Change(t, kind, reason) ==
    /\ rows[t] # NoTask
    /\ CanChange(rows[t], kind)
    /\ rows[t].version < MaxVersion
    /\ rows' = [rows EXCEPT ![t] = Changed(rows[t], kind, reason)]

\* ExecutionService.Execute: TaskService.Start.
Start(w) ==
    /\ pc[w] = "start"
    /\ Change(job[w], "start", NoReason)
    /\ \/ Goto(w, "save")
       \/ Goto(w, "finish")
    /\ UNCHANGED <<saved, reviews, intents, running, job, reading>>

\* deliverables.Save creates the file; the directory sync may fail after it
\* (SaveError.Committed), and the execution is then a failure.
Save(w) ==
    /\ pc[w] = "save"
    /\ saved[job[w]] = "none"
    /\ saved' = [saved EXCEPT ![job[w]] = "match"]
    /\ \/ Goto(w, "complete")
       \/ Goto(w, "fail")
    /\ UNCHANGED <<rows, reviews, intents, running, job, reading>>

\* The Provider fails, or the file cannot be created.
NotSaved(w) ==
    /\ pc[w] = "save"
    /\ Goto(w, "fail")
    /\ UNCHANGED <<store, running, job, reading>>

Complete(w) ==
    /\ pc[w] = "complete"
    /\ Change(job[w], "complete", NoReason)
    /\ Goto(w, "finish")
    /\ UNCHANGED <<saved, reviews, intents, running, job, reading>>

\* recoverExecutionFailure: Fail, and Hold when Fail reported no error.
Fail(w, reason) ==
    /\ pc[w] = "fail"
    /\ Change(job[w], "fail", reason)
    /\ \/ Goto(w, "hold")
       \/ Goto(w, "finish")
    /\ UNCHANGED <<saved, reviews, intents, running, job, reading>>

Hold(w, reason) ==
    /\ pc[w] = "hold"
    /\ Change(job[w], "hold", reason)
    /\ Goto(w, "finish")
    /\ UNCHANGED <<saved, reviews, intents, running, job, reading>>

\* A change of the Task that is refused or fails ends the Command.
GivesUp(w) ==
    /\ pc[w] \in {"start", "complete", "fail", "hold", "canonical", "intent", "row"}
    /\ Goto(w, "finish")
    /\ UNCHANGED <<store, running, job, reading>>

\* ReviewArtifactStore.Save: the canonical file, then the projection.
Canonical(w) ==
    /\ pc[w] = "canonical"
    /\ reviews[job[w]] = {}
    /\ reviews' = [reviews EXCEPT ![job[w]] = {"canonical"}]
    /\ \/ Goto(w, "projection")
       \/ Goto(w, "finish")
    /\ UNCHANGED <<rows, saved, intents, running, job, reading>>

Projection(w) ==
    /\ pc[w] = "projection"
    /\ \/ reviews' = [reviews EXCEPT ![job[w]] = @ \cup {"projection"}]
       \/ UNCHANGED reviews
    /\ Goto(w, "finish")
    /\ UNCHANGED <<rows, saved, intents, running, job, reading>>

\* RevisionOrchestrationService.Execute: the intent, then the Task row.
Intent(w) ==
    /\ pc[w] = "intent"
    /\ job[w] \notin intents
    /\ intents' = intents \cup {job[w]}
    /\ Goto(w, "row")
    /\ UNCHANGED <<rows, saved, reviews, running, job, reading>>

Row(w) ==
    /\ pc[w] = "row"
    /\ rows[job[w]] = NoTask
    /\ rows' = [rows EXCEPT ![job[w]] = NewTask]
    /\ Goto(w, "finish")
    /\ UNCHANGED <<saved, reviews, intents, running, job, reading>>

\* finishDurableCommand.
Finish(w) ==
    /\ pc[w] = "finish"
    /\ running' = running \ {w}
    /\ job' = [job EXCEPT ![w] = NoTask]
    /\ Goto(w, "idle")
    /\ UNCHANGED <<store, reading>>

-----------------------------------------------------------------------------
(* Operators *)

\* InspectRecovery, and PlanTaskRecovery for a preview or a preparation.
Ask(o, request) ==
    /\ pc[o] = "idle"
    /\ ask' = [ask EXCEPT ![o] = request]
    /\ report' = [report EXCEPT ![o] = {}]
    /\ reply' = [reply EXCEPT ![o] = "none"]
    /\ did' = [did EXCEPT ![o] = {}]
    /\ Goto(o, IF request.checks = 2 THEN "claim" ELSE "tasks")
    /\ UNCHANGED <<store, running, job, seen, plans>>

Inspect(o) == Ask(o, [NoAsk EXCEPT !.kind = "inspect"])

Prepare(o, t, action) ==
    Ask(o, [NoAsk EXCEPT !.kind = "plan", !.task = t, !.action = action])

\* ExecuteTaskRecovery from the CLI, or the Command over HTTP, which takes
\* complete_task only.
Apply(o, p, checks) ==
    /\ checks = 2 => p.action = "complete_task"
    /\ Ask(o, [kind |-> "apply", task |-> p.task, action |-> p.action,
               plan |-> p, checks |-> checks])

\* claimProjectCommand
Claim(o) ==
    /\ pc[o] = "claim"
    /\ running' = running \cup {o}
    /\ Goto(o, "tasks")
    /\ UNCHANGED <<store, job, reading>>

\* An apply leaves: over HTTP its outcome still has to be recorded.
Leave(o, status) ==
    /\ reply' = [reply EXCEPT ![o] = status]
    /\ ask' = [ask EXCEPT ![o] = NoAsk]
    /\ Goto(o, IF o \in running THEN "finish" ELSE "idle")

\* RecoverySnapshotReader.Load reads the documents one after the other,
\* Tasks.md first.
ReadTasks(o) ==
    /\ pc[o] = "tasks"
    /\ seen' = [seen EXCEPT ![o].rows = rows]
    /\ Goto(o, "deliverables")
    /\ UNCHANGED <<store, running, job, ask, report, plans, reply, did>>

\* The Deliverables of an inspection.
ReadDeliverables(o) ==
    /\ pc[o] = "deliverables"
    /\ ask[o].kind = "inspect"
    /\ seen' = [seen EXCEPT ![o].saved = saved]
    /\ Goto(o, "reviews")
    /\ UNCHANGED <<store, running, job, ask, report, plans, reply, did>>

ReadReviews(o) ==
    /\ pc[o] = "reviews"
    /\ seen' = [seen EXCEPT ![o].reviews = reviews]
    /\ Goto(o, "revisions")
    /\ UNCHANGED <<store, running, job, ask, report, plans, reply, did>>

ReadRevisions(o) ==
    /\ pc[o] = "revisions"
    /\ seen' = [seen EXCEPT ![o].intents = intents]
    /\ Goto(o, "commands")
    /\ UNCHANGED <<store, running, job, ask, report, plans, reply, did>>

\* Mutation: the rows are read once more for the report.
ReportFreshRows(o) ==
    /\ pc[o] = "commands"
    /\ report' = [report EXCEPT ![o] =
                     Findings([seen[o] EXCEPT !.rows = rows], running)]
    /\ seen' = [seen EXCEPT ![o] = Nothing]
    /\ ask' = [ask EXCEPT ![o] = NoAsk]
    /\ Goto(o, "idle")
    /\ UNCHANGED <<store, running, job, plans, reply, did>>

\* The Command records are the last that is read; Inspect reports.
Report(o) ==
    /\ pc[o] = "commands"
    /\ report' = [report EXCEPT ![o] =
                     Findings(seen[o], running)]
    /\ seen' = [seen EXCEPT ![o] = Nothing]
    /\ ask' = [ask EXCEPT ![o] = NoAsk]
    /\ Goto(o, "idle")
    /\ UNCHANGED <<store, running, job, plans, reply, did>>

\* Load fails, or the Task planned for is not there: no plan, no change.
CannotPlan(o) ==
    /\ pc[o] \in {"tasks", "deliverables", "reviews", "revisions", "commands"}
    /\ seen' = [seen EXCEPT ![o] = Nothing]
    /\ Leave(o, "error")
    /\ UNCHANGED <<store, running, job, report, plans, did>>

\* The plan of what a planning operator has read: Tasks before, Deliverables
\* now.
CurrentPlan(o) ==
    LET t == ask[o].task
    IN MakePlan(t, ask[o].action, seen[o].rows[t], saved[t])

\* PrepareCompleteTaskRecovery, recovery-plan: a plan that can be executed is
\* handed out for approval.
HandOut(o) ==
    /\ pc[o] = "deliverables"
    /\ ask[o].kind = "plan"
    /\ seen[o].rows[ask[o].task] # NoTask
    /\ plans' = IF Executable(CurrentPlan(o)) THEN plans \cup {CurrentPlan(o)} ELSE plans
    /\ seen' = [seen EXCEPT ![o] = Nothing]
    /\ ask' = [ask EXCEPT ![o] = NoAsk]
    /\ Goto(o, "idle")
    /\ UNCHANGED <<store, running, job, report, reply, did>>

\* The plan made again equals the approved one (SamePlan, or the commitment
\* over HTTP): one more check, or the repair itself.
Check(o) ==
    /\ pc[o] = "deliverables"
    /\ ask[o].kind = "apply"
    /\ seen[o].rows[ask[o].task] # NoTask
    /\ CurrentPlan(o) = ask[o].plan
    /\ seen' = [seen EXCEPT ![o] = Nothing]
    /\ ask' = [ask EXCEPT ![o].checks = @ - 1]
    /\ Goto(o, IF ask[o].checks = 2 THEN "tasks" ELSE "repair")
    /\ UNCHANGED <<store, running, job, report, plans, reply, did>>

\* ErrRecoveryPlanStale, RECOVERY_PLAN_STALE.
Stale(o) ==
    /\ pc[o] = "deliverables"
    /\ ask[o].kind = "apply"
    /\ seen[o].rows[ask[o].task] # NoTask
    /\ CurrentPlan(o) # ask[o].plan
    /\ seen' = [seen EXCEPT ![o] = Nothing]
    /\ Leave(o, "stale")
    /\ UNCHANGED <<store, running, job, report, plans, did>>

\* A TaskService change with an expected version.
Expected(o, t, version, kind, reason) ==
    /\ rows[t] # NoTask
    /\ rows[t].version = version
    /\ Change(t, kind, reason)
    /\ did' = [did EXCEPT ![o] = @ \cup {kind}]

\* Mutation: the version a repair was planned against is not passed on.
RepairCompletesAnyVersion(o) ==
    LET p == ask[o].plan IN
    /\ pc[o] = "repair"
    /\ p.action = "complete_task"
    /\ Expected(o, p.task, rows[p.task].version, "complete", NoReason)
    /\ \E status \in {"completed", "partial_failure", "failed"} : Leave(o, status)
    /\ UNCHANGED <<saved, reviews, intents, running, job, seen, report, plans>>

\* TaskRecoveryService.Execute, complete_task: CompleteExpected commits; its
\* Event may fail (partial_failure), or the write report an error although it
\* took effect (failed).
RepairCompletes(o) ==
    LET p == ask[o].plan IN
    /\ pc[o] = "repair"
    /\ p.action = "complete_task"
    /\ Expected(o, p.task, p.record.version, "complete", NoReason)
    /\ \E status \in {"completed", "partial_failure", "failed"} : Leave(o, status)
    /\ UNCHANGED <<saved, reviews, intents, running, job, seen, report, plans>>

\* fail_and_hold_task: FailExpected commits (its Event may fail: the Hold goes
\* on), or commits and reports a plain error, which ends the repair.
RepairFails(o, reason) ==
    LET p == ask[o].plan IN
    /\ pc[o] = "repair"
    /\ p.action = "fail_and_hold_task"
    /\ Expected(o, p.task, p.record.version, "fail", reason)
    /\ \/ Goto(o, "rehold") /\ UNCHANGED <<reply, ask>>
       \/ Leave(o, "failed")
    /\ UNCHANGED <<saved, reviews, intents, running, job, seen, report, plans>>

\* HoldExpected at the version Fail led to.
RepairHolds(o, reason) ==
    LET p == ask[o].plan IN
    /\ pc[o] = "rehold"
    /\ Expected(o, p.task, p.record.version + 1, "hold", reason)
    /\ \E status \in {"held", "partial_failure"} : Leave(o, status)
    /\ UNCHANGED <<saved, reviews, intents, running, job, seen, report, plans>>

\* Mutation: a Hold that was not committed is not reported.
HoldFailsSilently(o) ==
    /\ pc[o] \in {"repair", "rehold"}
    /\ Leave(o, IF pc[o] = "rehold" THEN "held" ELSE "failed")
    /\ UNCHANGED <<store, running, job, seen, report, plans, did>>

\* A change that is refused (the Task moved on) or fails.
RepairRefused(o) ==
    /\ pc[o] \in {"repair", "rehold"}
    /\ Leave(o, IF pc[o] = "rehold" THEN "partial_failure" ELSE "failed")
    /\ UNCHANGED <<store, running, job, seen, report, plans, did>>

\* finishDurableCommand of the HTTP Command.
FinishApply(o) ==
    /\ pc[o] = "finish"
    /\ running' = running \ {o}
    /\ Goto(o, "idle")
    /\ UNCHANGED <<store, job, reading>>

\* The process is gone, and so is what it had read; its record stays running.
Dies(a) ==
    /\ pc[a] \notin {"idle", "dead"}
    /\ Goto(a, "dead")
    /\ seen' = [o \in Operators |-> IF o = a THEN Nothing ELSE seen[o]]
    /\ ask' = [o \in Operators |-> IF o = a THEN NoAsk ELSE ask[o]]
    /\ job' = [w \in Workers |-> IF w = a THEN NoTask ELSE job[w]]
    /\ UNCHANGED <<store, running, report, plans, reply, did>>

WorkerStep(w) ==
    \/ \E t \in Tasks, first \in {"start", "canonical", "intent"} : Begin(w, t, first)
    \/ Start(w)
    \/ Save(w)
    \/ NotSaved(w)
    \/ Complete(w)
    \/ \E reason \in Reasons : Fail(w, reason) \/ Hold(w, reason)
    \/ GivesUp(w)
    \/ Canonical(w)
    \/ Projection(w)
    \/ Intent(w)
    \/ Row(w)
    \/ Finish(w)

OperatorStep(o) ==
    \/ Inspect(o)
    \/ \E t \in Tasks, action \in TaskActions : Prepare(o, t, action)
    \/ \E p \in plans, checks \in 1 .. 2 : Apply(o, p, checks)
    \/ Claim(o)
    \/ ReadTasks(o)
    \/ ReadDeliverables(o)
    \/ ReadReviews(o)
    \/ ReadRevisions(o)
    \/ Report(o)
    \/ CannotPlan(o)
    \/ HandOut(o)
    \/ Check(o)
    \/ Stale(o)
    \/ RepairCompletes(o)
    \/ \E reason \in Reasons : RepairFails(o, reason) \/ RepairHolds(o, reason)
    \/ RepairRefused(o)
    \/ FinishApply(o)

Next ==
    \/ \E w \in Workers : WorkerStep(w)
    \/ \E o \in Operators : OperatorStep(o)
    \/ \E a \in Workers \cup Operators : Dies(a)

Spec == Init /\ [][Next]_vars

-----------------------------------------------------------------------------
(* Properties *)

FindingKinds ==
    {"task_completion_pending", "task_execution_interrupted",
     "completed_task_deliverable_missing", "deliverable_task_conflict",
     "artifact_invalid", "review_projection_missing", "review_canonical_missing",
     "revision_task_missing", "command_incomplete"}

FindingRecords ==
    [kind : FindingKinds, severity : {"warning", "critical"},
     about : Tasks \cup Workers \cup Operators, recoverable : BOOLEAN,
     action : TaskActions \cup {"none"}]

TypeOK ==
    /\ rows \in [Tasks -> TaskRecords \cup {NoTask}]
    /\ saved \in [Tasks -> Evidence]
    /\ reviews \in [Tasks -> SUBSET Files]
    /\ intents \subseteq Tasks
    /\ running \subseteq Workers \cup Operators
    /\ pc \in [Workers \cup Operators -> WorkerPlaces \cup OperatorPlaces]
    /\ job \in [Workers -> Tasks \cup {NoTask}]
    /\ ask \in [Operators -> Asks]
    /\ seen \in [Operators -> [rows : [Tasks -> TaskRecords \cup {NoTask}],
                               saved : [Tasks -> Evidence],
                               reviews : [Tasks -> SUBSET Files],
                               intents : SUBSET Tasks]]
    /\ report \in [Operators -> SUBSET FindingRecords]
    /\ plans \subseteq Plans
    /\ reply \in [Operators -> Replies]
    /\ did \in [Operators -> SUBSET Changes]

\* The findings that accuse the writers of having lost evidence: executions
\* save before they complete, Reviews write the canonical file first, and the
\* snapshot reads Tasks.md before everything else.  So no inspection reports a
\* completed Task without its Deliverable, or a Review without its canonical
\* file, however it interleaves with them.
NeverAccused ==
    \A o \in Operators : \A f \in report[o] :
        f.kind \notin {"completed_task_deliverable_missing", "review_canonical_missing"}

\* Inspection and planner look at one snapshot with code of their own: an
\* action is recommended for a Task exactly when its plan could be executed,
\* and the public views, closed lists of their own again, refuse nothing that
\* either of them produces.
ViewsAgree ==
    \A o \in Operators : pc[o] = "commands" =>
        LET found == Findings(seen[o], {}) IN
        /\ \A f \in found : ShownFinding(f)
        /\ \A t \in Tasks : seen[o].rows[t] # NoTask =>
              \A action \in TaskActions :
                 LET p == MakePlan(t, action, seen[o].rows[t], seen[o].saved[t]) IN
                 /\ ShownPlan(p)
                 /\ Executable(p) <=>
                       \E f \in found : f.about = t /\ f.action = action /\ f.recoverable

\* Whatever happened between approval and repair, a repair changes no Task but
\* the planned one, and only while it is exactly the record that was approved
\* (or the failure this repair recorded on top of it); it completes a Task
\* only over its Deliverable (ADR-0020: version and source revision fence).
RepairLandsOnApproved ==
    [][\A o \in Operators : did'[o] \ did[o] # {} =>
          LET p == ask[o].plan IN
          /\ \A t \in Tasks \ {p.task} : rows'[t] = rows[t]
          /\ \/ /\ did'[o] = {"complete"}
                /\ rows[p.task] = p.record
                /\ saved[p.task] = "match"
             \/ did'[o] = {"fail"} /\ rows[p.task] = p.record
             \/ /\ did'[o] = {"fail", "hold"}
                /\ \E reason \in Reasons : rows[p.task] = FailedAttempt(p.record, reason)]_vars

\* An apply that is told a success did all of it, one that is told a partial
\* failure did some of it, one that is told the plan is stale did nothing.
ToldIsRepaired ==
    \A o \in Operators :
        /\ reply[o] = "completed" => did[o] = {"complete"}
        /\ reply[o] = "held" => did[o] = {"fail", "hold"}
        /\ reply[o] = "partial_failure" => did[o] # {}
        /\ reply[o] \in {"stale", "error"} => did[o] = {}

\* ADR-0020: when the evidence changed after the plan, the repair is refused.
\* A Task is failed by a repair only while it has no Deliverable.
\* The code does not keep it (README, Observations).
FailedWithoutDeliverable ==
    [][\A o \in Operators :
          "fail" \in did'[o] \ did[o] => saved[ask[o].task] = "none"]_vars
=============================================================================
