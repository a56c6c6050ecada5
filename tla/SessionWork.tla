----------------------------- MODULE SessionWork -----------------------------
(* A Session composed with the Workflow runs that work for it: what the runs  *)
(* leave in the Vault, and what of it the Session's Turns list                *)
(* (process/interaction_workflow.go, interaction_recover_revision.go).        *)
(*                                                                            *)
(* Runs follow each other, and the branches of a round run one after the      *)
(* other: Session and ReviewedWorkflow model what runs and branches do to     *)
(* each other.  A request and what it does before a run starts is one step.   *)
(* The Tasks of a Plan are independent of each other; Task IDs are numbers in *)
(* table order.                                                               *)
EXTENDS Interaction, FiniteSets

CONSTANTS
    MaxTaskId,      \* bound on the Task IDs explored
    Limits,         \* the Task limits a run may be approved for
    DefaultLimit,   \* defaultWorkflowMaxTasks
    MaxRevisions,   \* autonomy.Contract.MaxRevisionCount
    Faults,         \* may executions, Reviews and Revisions fail?
    Crashes,        \* may the process die in a run?
    MaxArchivings   \* bound on the archivings explored

Ids == 1 .. MaxTaskId

ASSUME SessionWorkAssumption ==
    /\ Commands \subseteq Nat \ {0} /\ NoCommand = 0
    /\ MaxTaskId \in Nat /\ \A p \in Plans : p.tasks <= MaxTaskId
    /\ Limits \subseteq Nat \ {0} /\ DefaultLimit \in Nat \ {0} /\ MaxRevisions \in Nat
    /\ Faults \in BOOLEAN /\ Crashes \in BOOLEAN /\ MaxArchivings \in Nat

VARIABLES
    stored,    \* the stored record
    worked,     \* worked[c]: the Task evidence in the Workflow Turn of Command c
    tasks,      \* the Vault: status, Deliverable, canonical Review, Revision intent
    succeeded,  \* the child Commands the Ledger has as succeeded
    run,        \* the Workflow run in progress, or NoRun
    used,       \* the Command IDs used so far are 1 .. used
    lost        \* history: a run got no Turn

workVars == <<stored, worked, tasks, succeeded, run, used, lost>>

Statuses == {"absent", "unstarted", "in_progress", "completed", "on_hold"}
Verdicts == {"none", "approve", "request_changes"}
Points == {"none", "plan", "round", "dispatch", "execute", "working", "review", "revise", "record"}
Ends == {"none", "completed", "blocked", "limit_reached"} \cup Failures

Absent == [status |-> "absent", saved |-> FALSE, verdict |-> "none", source |-> 0]
Unstarted(source) == [Absent EXCEPT !.status = "unstarted", !.source = source]

\* WorkflowTaskEvidence, with the run that wrote it.
Attempt(c, t, targeted) ==
    [by |-> c, task |-> t, targeted |-> targeted, review |-> FALSE, verdict |-> "none",
     revise |-> FALSE, revision |-> 0]

NoRun == [by |-> NoCommand, pc |-> "none", left |-> 0, limit |-> 0, queue |-> {}, task |-> 0,
          revs |-> 0, err |-> "none", end |-> "none", list |-> <<>>]

WorkInit ==
    /\ stored \in {New(profile) : profile \in Profiles}
    /\ worked = [c \in Commands |-> <<>>]
    /\ tasks = [t \in Ids |-> Absent]
    /\ succeeded = {}
    /\ run = NoRun
    /\ used = 0
    /\ lost = FALSE

IsBounded == stored.profile = "bounded_acceptance"
Project == <<1>>
Rows == {t \in Ids : tasks[t].status # "absent"}
Having(status) == {t \in Ids : tasks[t].status = status}
RevisionsOf(t) == {r \in Ids : tasks[r].source = t}
-----------------------------------------------------------------------------
(* The CEO's requests. *)

\* A request is sent while no run is in progress, under the next Command ID.
Send == run = NoRun /\ used + 1 \in Commands /\ used' = used + 1

Appends(turn) == May(stored, turn) /\ stored' = Appended(stored, turn)

\* A bounded Session reserves its one attempt first, and may get no further.
GeneratePlan(plan) ==
    LET c == used + 1
        reserved == Appended(stored, Reserve(c))
        r == IF IsBounded THEN reserved ELSE stored IN
    /\ Send
    /\ IsBounded => May(stored, Reserve(c))
    /\ May(r, Generated(c, plan))
    /\ stored' \in {Appended(r, Generated(c, plan))} \cup IF IsBounded THEN {reserved} ELSE {}
    /\ UNCHANGED <<worked, tasks, succeeded, run, lost>>

AnswerPlan(n) ==
    /\ Send /\ ~IsBounded
    /\ Appends(Answered(used + 1, n))
    /\ UNCHANGED <<worked, tasks, succeeded, run, lost>>

Begin(limit, queue, pc) ==
    run' = [NoRun EXCEPT !.by = used + 1, !.pc = pc, !.left = limit, !.limit = limit, !.queue = queue]

\* The Plan's Tasks are created, all of them independent of each other; with
\* preauth the same Command goes on to run the Workflow.
Apply(preauth) ==
    /\ Send
    /\ IsBounded => preauth /\ CurrentPlan(stored).tasks = 1
    /\ Appends(Applied(used + 1, Project, preauth))
    /\ tasks' = [t \in Ids |-> IF t <= CurrentPlan(stored).tasks THEN Unstarted(0) ELSE Absent]
    /\ IF preauth THEN Begin(IF IsBounded THEN 1 ELSE DefaultLimit, {}, "plan") ELSE UNCHANGED run
    /\ UNCHANGED <<worked, succeeded, lost>>

\* planReviewedWorkflowStep names an unstarted Task, without which
\* resolveInteractionWorkflowReviewer finds nothing to review.
Plannable == Having("unstarted") # {}

StartWorkflow(limit) ==
    /\ Send /\ ~IsBounded
    /\ stored.state = "ready_to_execute" /\ Plannable
    /\ Begin(limit, {}, "round")
    /\ UNCHANGED <<stored, worked, tasks, succeeded, lost>>

\* The Workflow a Plan's approval goes on to.
PlanChained ==
    /\ run.pc = "plan" /\ Plannable
    /\ run' = [run EXCEPT !.pc = "round"]
    /\ UNCHANGED <<stored, worked, tasks, succeeded, used, lost>>

\* task.NextTaskID, and the file name its Revision intent needs.
IsNextTaskID(n) == n - 1 \in Rows /\ (\A u \in Rows : u < n) /\ tasks[n].source = 0

\* stalledRevisionTaskID and budgetContinuationTask.
IsStalled(e) == e.verdict = "request_changes" /\ ~e.revise
PendingIn(list) ==
    {list[i].revision : i \in DOMAIN list} \ ({0} \cup {list[i].task : i \in DOMAIN list})
LatestList(r) == worked[r.turns[LastIndex(r, {"workflow_recorded"})].by]

\* The Task to revise, or the one pending: what the client is offered.
Stalled == LatestList(stored)[SelectLastInSeq(LatestList(stored), IsStalled)].task
\* validateBudgetRevisionContinuation.
CanContinue(n) ==
    /\ n \in PendingIn(LatestList(stored))
    /\ tasks[n].status = "unstarted" /\ tasks[tasks[n].source].status = "completed"

\* The recovery is recorded first.
StartsRecovery ==
    /\ Send /\ ~IsBounded
    /\ Offered(stored) = "recover"
    /\ Appends(Turn("revision_recovery_started", used + 1))

\* The Revision Task is created, or the pending one taken, and runs first.
RecoverRevision(n) ==
    /\ StartsRecovery
    /\ IF LatestWorkflow(stored) = "over_budget"
       THEN CanContinue(n) /\ UNCHANGED <<tasks, succeeded>>
       ELSE /\ tasks[Stalled].verdict = "request_changes"
            /\ IsNextTaskID(n) /\ RevisionsOf(Stalled) = {}
            /\ tasks' = [tasks EXCEPT ![n] = Unstarted(Stalled)]
            /\ succeeded' = succeeded \cup {<<used + 1, "revise", Stalled>>}
    /\ Begin(DefaultLimit, {n}, "dispatch")
    /\ UNCHANGED <<worked, lost>>

\* The Revision is planned in vain, or gets no further than its intent.
RecoverStops(n) ==
    /\ Faults /\ StartsRecovery
    /\ \/ UNCHANGED tasks
       \/ /\ LatestWorkflow(stored) = "stalled" /\ tasks[Stalled].verdict = "request_changes"
          /\ IsNextTaskID(n) /\ RevisionsOf(Stalled) = {}
          /\ tasks' = [tasks EXCEPT ![n].source = Stalled]
    /\ UNCHANGED <<worked, succeeded, run, lost>>

\* An Action publishes the Deliverable of a Task that the latest Workflow
\* Turn lists (validateActionEvidence).
PublishDeliverable(status) ==
    /\ Send /\ ~IsBounded
    /\ stored.state = "completed" /\ LatestList(stored) # <<>>
    /\ Appends(Acted(used + 1, AppliedProject(stored), status))
    /\ UNCHANGED <<worked, tasks, succeeded, run, lost>>

Archive(kind) ==
    /\ Send
    /\ Cardinality({i \in DOMAIN stored.turns : stored.turns[i].kind = "archived"}) < MaxArchivings
    /\ Appends(Turn(kind, used + 1))
    /\ UNCHANGED <<worked, tasks, succeeded, run, lost>>
-----------------------------------------------------------------------------
(* The Workflow run. *)

RunAt(pc) == run.pc = pc
\* The fields of the run and of a Task that a step changes.
Runs(pc) == run' = [run EXCEPT !.pc = pc]
Fails(err) == run' = [run EXCEPT !.pc = "dispatch", !.err = IF @ = "none" THEN err ELSE @]
TaskBecomes(k) == tasks' = [tasks EXCEPT ![run.task] = k]
Now == tasks[run.task]
Succeeds(kind) == succeeded' = succeeded \cup {<<run.by, kind, run.task>>}
WithLast(list, e) == [list EXCEPT ![Len(list)] = e]
Current == run.list[Len(run.list)]

Finish(end) == run' = [run EXCEPT !.pc = "record", !.end = end]

NextBatch ==
    /\ RunAt("round")
    /\ IF Rows = Having("completed") THEN Finish("completed")
       ELSE IF ~Plannable THEN Finish("blocked")
       ELSE run' = [run EXCEPT !.pc = "dispatch", !.queue = Having("unstarted")]
    /\ UNCHANGED <<stored, worked, tasks, succeeded, used, lost>>

Dispatch(t) ==
    /\ RunAt("dispatch") /\ run.left > 0
    /\ t \in run.queue /\ \A u \in run.queue : t <= u
    /\ run' = [run EXCEPT !.pc = "execute", !.queue = @ \ {t}, !.left = @ - 1, !.task = t, !.revs = 0]
    /\ UNCHANGED <<stored, worked, tasks, succeeded, used, lost>>

\* An over_budget Session has exactly one pending Revision Task, and a stalled
\* one a source without Revision; else nothing can be recovered.
FailedAs ==
    CASE run.err = "stalled" -> "stalled"
      [] run.err = "budget" /\ Cardinality(PendingIn(run.list)) = 1 -> "over_budget"
      [] OTHER -> "failed"

RoundEnds ==
    /\ RunAt("dispatch") /\ (run.queue = {} \/ run.left = 0)
    /\ IF run.err # "none" THEN Finish(FailedAs)
       ELSE IF run.queue # {} THEN Finish("limit_reached") ELSE Runs("round")
    /\ UNCHANGED <<stored, worked, tasks, succeeded, used, lost>>

OverBudget ==
    /\ Faults /\ (RunAt("execute") \/ RunAt("review"))
    /\ Fails("budget")
    /\ UNCHANGED <<stored, worked, tasks, succeeded, used, lost>>

Started(pc) ==
    [run EXCEPT !.pc = pc, !.list = Append(@, Attempt(run.by, run.task, tasks[run.task].source # 0))]

StartTask ==
    /\ RunAt("execute")
    /\ TaskBecomes([Now EXCEPT !.status = "in_progress"])
    /\ run' = Started("working")
    /\ UNCHANGED <<stored, worked, succeeded, used, lost>>

\* The preflight or TaskService.Start refuses.
StartRefused ==
    /\ Faults /\ RunAt("execute")
    /\ run' = [Started("dispatch") EXCEPT !.err = IF @ = "none" THEN "failed" ELSE @]
    /\ UNCHANGED <<stored, worked, tasks, succeeded, used, lost>>

ExecuteTask ==
    /\ RunAt("working")
    /\ TaskBecomes([Now EXCEPT !.status = "completed", !.saved = TRUE])
    /\ Succeeds("execute")
    /\ Runs("review")
    /\ UNCHANGED <<stored, worked, used, lost>>

ExecuteFails ==
    /\ Faults /\ RunAt("working")
    /\ tasks' \in {[tasks EXCEPT ![run.task].status = "on_hold"], [tasks EXCEPT ![run.task].saved = TRUE]}
    /\ Fails("failed")
    /\ UNCHANGED <<stored, worked, succeeded, used, lost>>

\* Mutation: the verdict is handed on before the canonical Review is committed.
ReviewUncommitted(verdict) ==
    /\ RunAt("review")
    /\ Succeeds("review")
    /\ run' = [run EXCEPT !.pc = IF verdict = "approve" THEN "dispatch" ELSE "revise",
                          !.list = WithLast(@, [Current EXCEPT !.review = TRUE, !.verdict = verdict])]
    /\ UNCHANGED <<stored, worked, tasks, used, lost>>

Review(verdict) ==
    /\ RunAt("review")
    /\ TaskBecomes([Now EXCEPT !.verdict = verdict])
    /\ Succeeds("review")
    /\ run' = [run EXCEPT !.pc = IF verdict = "approve" THEN "dispatch" ELSE "revise",
                          !.list = WithLast(@, [Current EXCEPT !.review = TRUE, !.verdict = verdict])]
    /\ UNCHANGED <<stored, worked, used, lost>>

\* No Review, one that could not be saved, or one whose projection or Event
\* failed: the evidence has the Reviewer's verdict all the same.
ReviewFails(verdict, saved) ==
    /\ Faults /\ RunAt("review")
    /\ saved \in {verdict, "none"}
    /\ TaskBecomes([Now EXCEPT !.verdict = saved])
    /\ run' = [run EXCEPT !.pc = "dispatch", !.err = IF @ = "none" THEN "failed" ELSE @,
                          !.list = WithLast(@, [Current EXCEPT !.review = TRUE, !.verdict = verdict])]
    /\ UNCHANGED <<stored, worked, succeeded, used, lost>>

\* A bounded contract forbids Revisions, and the Revision Guard counts them.
GiveUp ==
    /\ RunAt("revise") /\ (IsBounded \/ run.revs >= MaxRevisions)
    /\ Fails(IF IsBounded THEN "failed" ELSE "stalled")
    /\ UNCHANGED <<stored, worked, tasks, succeeded, used, lost>>

Revise(n) ==
    /\ RunAt("revise") /\ ~IsBounded /\ run.revs < MaxRevisions
    /\ IsNextTaskID(n) /\ RevisionsOf(run.task) = {}
    /\ tasks' = [tasks EXCEPT ![n] = Unstarted(run.task)]
    /\ Succeeds("revise")
    /\ run' = [run EXCEPT !.pc = "execute", !.task = n, !.revs = @ + 1,
                          !.list = WithLast(@, [Current EXCEPT !.revise = TRUE, !.revision = n])]
    /\ UNCHANGED <<stored, worked, used, lost>>

\* The intent is saved and its Task not created, or the Task ID is not to be had.
ReviseFails(n) ==
    /\ RunAt("revise") /\ ~IsBounded /\ run.revs < MaxRevisions
    /\ IF Faults /\ IsNextTaskID(n)
       THEN tasks' = [tasks EXCEPT ![n].source = run.task]
       ELSE ~(\E m \in Ids : IsNextTaskID(m)) /\ UNCHANGED tasks
    /\ run' = [run EXCEPT !.pc = "dispatch", !.err = IF @ = "none" THEN "failed" ELSE @,
                          !.list = WithLast(@, [Current EXCEPT !.revise = TRUE])]
    /\ UNCHANGED <<stored, worked, succeeded, used, lost>>

\* validateWorkflowEvidence: a Next that names its Task, which the "wait" of a
\* blocked run does not, and no more Task evidence than the limit.
Recordable == run.end # "blocked" /\ Len(run.list) <= run.limit

RecordWorkflow ==
    /\ RunAt("record") /\ Recordable
    /\ Appends(Worked(run.by, AppliedProject(stored),
                      IF run.end = "limit_reached" THEN "blocked" ELSE run.end))
    /\ worked' = [worked EXCEPT ![run.by] = run.list]
    /\ run' = NoRun
    /\ UNCHANGED <<tasks, succeeded, used, lost>>

RecordRefused ==
    /\ RunAt("record") /\ ~Recordable
    /\ run' = NoRun
    /\ lost' = TRUE
    /\ UNCHANGED <<stored, worked, tasks, succeeded, used>>

RunDies ==
    /\ Crashes /\ run # NoRun
    /\ run' = NoRun
    /\ lost' = TRUE
    /\ UNCHANGED <<stored, worked, tasks, succeeded, used>>
-----------------------------------------------------------------------------
Request ==
    \/ \E plan \in Plans : GeneratePlan(plan)
    \/ \E n \in 1 .. CurrentPlan(stored).questions : AnswerPlan(n)
    \/ \E preauth \in BOOLEAN : Apply(preauth)
    \/ \E limit \in Limits : StartWorkflow(limit)
    \/ \E n \in Ids : RecoverRevision(n) \/ RecoverStops(n)
    \/ \E status \in ActionStatuses : PublishDeliverable(status)
    \/ \E kind \in {"archived", "unarchived"} : Archive(kind)

Workflow ==
    \/ PlanChained \/ NextBatch \/ (\E t \in Ids : Dispatch(t)) \/ RoundEnds \/ OverBudget
    \/ StartTask \/ StartRefused \/ ExecuteTask \/ ExecuteFails
    \/ \E verdict \in Verdicts \ {"none"} : Review(verdict)
    \/ \E verdict, saved \in Verdicts : ReviewFails(verdict, saved)
    \/ GiveUp \/ \E n \in Ids : Revise(n) \/ ReviseFails(n)
    \/ RecordWorkflow \/ RecordRefused

WorkNext == Request \/ Workflow \/ RunDies

WorkSpec == WorkInit /\ [][WorkNext]_workVars
=============================================================================
