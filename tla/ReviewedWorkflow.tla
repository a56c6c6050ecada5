-------------------------- MODULE ReviewedWorkflow --------------------------
(***************************************************************************)
(* The reviewed Workflow: workflow.reviewed.execute Commands on one        *)
(* Project (service/reviewed_workflow_run_service.go and the Task, Review  *)
(* and Revision processes it calls).                                       *)
(*                                                                         *)
(* A Command runs rounds.  A round dispatches every ready Task as a branch *)
(* of its own: execute, review and, when the Reviewer requests changes,    *)
(* create a Revision Task and start over with it.  Branches share the      *)
(* Vault, the Provider budget, the deadline and the semaphore.             *)
(*                                                                         *)
(* Task IDs are numbers in table order.  A branch is named by the Task it  *)
(* started from.  Commands follow each other; a crash ends one anywhere.   *)
(***************************************************************************)
EXTENDS Naturals, FiniteSets

CONSTANTS Planned,          \* the Project's plan creates Tasks 1 .. Planned
          Deps,             \* Deps[t]: the Tasks that planned Task t depends on
          TaskLimits,       \* TaskLimits[n]: the Task limit approved for the n-th Command
          MaxWorkflowTasks, \* no Task limit is larger
          MaxParallel,      \* autonomy.Contract.MaxParallelTasks
          MaxRevisions,     \* autonomy.Contract.MaxRevisionCount
          MaxCalls,         \* autonomy.Contract.MaxProviderCalls
          RevisionAllowed,  \* is autonomy.Contract.Revision delegated?
          Faults,           \* may a read, a write or an Event publication fail?
          MaxTaskId,        \* bound on the Task IDs explored
          MaxRuns           \* bound on the Commands explored

Ids == 1 .. MaxTaskId

ASSUME LimitsAssumption ==
    /\ Planned \in Nat \ {0} /\ MaxTaskId \in Nat /\ Planned <= MaxTaskId
    /\ Deps \in [1 .. Planned -> SUBSET (1 .. Planned)]
    /\ MaxWorkflowTasks \in Nat /\ TaskLimits \in [1 .. MaxRuns -> 1 .. MaxWorkflowTasks]
    /\ MaxParallel \in Nat \ {0}
    /\ MaxRevisions \in Nat \ {0} /\ MaxCalls \in Nat \ {0}
    /\ RevisionAllowed \in BOOLEAN /\ Faults \in BOOLEAN /\ MaxRuns \in Nat

VARIABLES rows,     \* Tasks.md: the status of each row
          saved,    \* the Tasks with a Deliverable
          verdict,  \* the canonical Review of each Task
          source,   \* source[r]: the Task that Revision intent r revises, 0: no intent
          run,      \* the Command: its phase, undispatched Tasks, limits left, first error
          branch,   \* each branch's goroutine
          expired,  \* has the runtime budget's deadline passed?
          calls,    \* budgetTracker.providerCallCount
          invoked,  \* history: Provider calls of the current Command
          started,  \* history: Tasks started by the current Command
          runs      \* Commands so far

vault == <<rows, saved, verdict, source>>
vars == <<rows, saved, verdict, source, run, branch, expired, calls, invoked, started, runs>>

Statuses == {"absent", "unstarted", "in_progress", "completed", "on_hold"}
Verdicts == {"none", "approve", "request_changes"}
Stages == {"budget", "task_execute", "review", "no_progress",
           "revision_forbidden", "revision_limit", "revision"}
Results == {"none", "completed", "blocked", "limit_reached", "failed", "crashed"}
Points == {"idle", "attempt", "execute", "working", "produced", "stored",
           "completed", "review", "judging", "revise", "intent", "create"}

Idle == [pc |-> "idle", task |-> 0, revs |-> 0, next |-> 0]

Stopped(result) ==
    [phase |-> "idle", queue |-> {}, left |-> 0, slots |-> 0, err |-> "none", result |-> result]

RunRecords ==
    [phase : {"idle", "plan", "dispatch"}, queue : SUBSET Ids, left : 0 .. MaxWorkflowTasks,
     slots : Nat, err : Stages \cup {"none"}, result : Results]

BranchRecords == [pc : Points, task : 0 .. MaxTaskId, revs : Nat, next : 0 .. MaxTaskId]

TypeOK ==
    /\ rows \in [Ids -> Statuses]
    /\ saved \subseteq Ids
    /\ verdict \in [Ids -> Verdicts]
    /\ source \in [Ids -> 0 .. MaxTaskId]
    /\ run \in RunRecords
    /\ branch \in [Ids -> BranchRecords]
    /\ expired \in BOOLEAN
    /\ calls \in Nat /\ invoked \in Nat
    /\ started \subseteq Ids
    /\ runs \in 0 .. MaxRuns
    /\ run.phase # "idle" => runs > 0

-----------------------------------------------------------------------------
(* What the Vault says.                                                    *)

Rows == {t \in Ids : rows[t] # "absent"}

\* Only planned Tasks have dependency metadata.
DepsOf(t) == IF t <= Planned THEN Deps[t] ELSE {}

DependenciesCompleted(t) == \A d \in DepsOf(t) : rows[d] = "completed"

\* EvaluateAllReadiness.
Ready == {t \in Ids : rows[t] = "unstarted" /\ DependenciesCompleted(t)}

\* resolveDependencyEvidenceTask: the lineage of t, followed through its
\* Revision intents, is completed and its last Task has a Deliverable.
evidence[t \in Ids] ==
    /\ rows[t] = "completed"
    /\ IF \E r \in Ids : source[r] = t
       THEN evidence[CHOOSE r \in Ids : source[r] = t]
       ELSE t \in saved

\* PlanExecution in targeted mode, then the dependency evidence.
Executable(t) ==
    /\ rows[t] = "unstarted" /\ DependenciesCompleted(t)
    /\ t \notin saved
    /\ \A d \in DepsOf(t) : evidence[d]

\* PlanReview.
Reviewable(t) == rows[t] = "completed" /\ verdict[t] = "none"

\* task.NextTaskID: one more than the largest row; intents are not consulted.
IsNextTaskID(n) == n - 1 \in Rows /\ \A u \in Rows : u < n

\* RevisionIntentStore.ExistingForSource.
ExistingForSource(t) == \E r \in Ids : source[r] = t

-----------------------------------------------------------------------------
(* The branch: reviewed_workflow_run_service.go runBranch.                 *)

At(b, pc) == branch[b].pc = pc

Goto(b, pc) == branch' = [branch EXCEPT ![b] = [@ EXCEPT !.pc = pc]]

\* The goroutine returns and its deferred calls release the semaphore.
Return(b, err) ==
    /\ branch' = [branch EXCEPT ![b] = Idle]
    /\ run' = [run EXCEPT !.slots = @ + 1, !.err = IF @ = "none" THEN err ELSE @]

\* Mutation: the check and the increment drift apart by one.
ReserveOffByOne(b) ==
    /\ At(b, "attempt") \/ At(b, "completed")
    /\ ~expired /\ calls <= MaxCalls
    /\ calls' = calls + 1
    /\ Goto(b, IF At(b, "attempt") THEN "execute" ELSE "review")
    /\ UNCHANGED <<vault, run, expired, invoked, started, runs>>

\* reserveProviderCallBudget: the policy's read of the snapshot can only
\* refuse what the atomic reservation refuses too, so both are one step.
Reserve(b) ==
    /\ At(b, "attempt") \/ At(b, "completed")
    /\ ~expired /\ calls < MaxCalls
    /\ calls' = calls + 1
    /\ Goto(b, IF At(b, "attempt") THEN "execute" ELSE "review")
    /\ UNCHANGED <<vault, run, expired, invoked, started, runs>>

OverBudget(b) ==
    /\ At(b, "attempt") \/ At(b, "completed")
    /\ expired \/ calls >= MaxCalls
    /\ Return(b, "budget")
    /\ UNCHANGED <<vault, expired, calls, invoked, started, runs>>

\* ExecuteTask passes its preflight, TaskService.Start commits and the
\* Provider is called.
StartTask(b) ==
    LET t == branch[b].task IN
    /\ At(b, "execute") /\ ~expired
    /\ Executable(t)
    /\ rows' = [rows EXCEPT ![t] = "in_progress"]
    /\ invoked' = invoked + 1
    /\ started' = started \cup {t}
    /\ Goto(b, "working")
    /\ UNCHANGED <<saved, verdict, source, run, expired, calls, runs>>

\* The preflight refuses, or Start fails, possibly after it committed.
StartRefused(b) ==
    LET t == branch[b].task IN
    /\ At(b, "execute")
    /\ ~Executable(t) \/ expired \/ Faults
    /\ rows' \in {rows} \cup
          IF Executable(t) /\ Faults THEN {[rows EXCEPT ![t] = "in_progress"]} ELSE {}
    /\ Return(b, "task_execute")
    /\ UNCHANGED <<saved, verdict, source, expired, calls, invoked, started, runs>>

\* Mutation: the Task is completed before its Deliverable is saved.
WorkerReturnsUnsaved(b) ==
    /\ At(b, "working") /\ ~expired
    /\ Goto(b, "stored")
    /\ UNCHANGED <<vault, run, expired, calls, invoked, started, runs>>

WorkerReturns(b) ==
    /\ At(b, "working") /\ ~expired
    /\ Goto(b, "produced")
    /\ UNCHANGED <<vault, run, expired, calls, invoked, started, runs>>

\* recoverExecutionFailure: Fail, then Hold, outside the cancelled context.
AfterFailure(t) ==
    {[rows EXCEPT ![t] = "on_hold"]} \cup IF Faults THEN {rows} ELSE {}

\* A Provider error, an invalid or a truncated answer, or the deadline.
WorkerFails(b) ==
    /\ At(b, "working")
    /\ rows' \in AfterFailure(branch[b].task)
    /\ Return(b, "task_execute")
    /\ UNCHANGED <<saved, verdict, source, expired, calls, invoked, started, runs>>

SaveDeliverable(b) ==
    /\ At(b, "produced") /\ ~expired
    /\ saved' = saved \cup {branch[b].task}
    /\ Goto(b, "stored")
    /\ UNCHANGED <<rows, verdict, source, run, expired, calls, invoked, started, runs>>

\* The Deliverable may be committed all the same.
SaveFails(b) ==
    /\ At(b, "produced")
    /\ expired \/ Faults
    /\ saved' \in {saved} \cup IF Faults THEN {saved \cup {branch[b].task}} ELSE {}
    /\ rows' \in AfterFailure(branch[b].task)
    /\ Return(b, "task_execute")
    /\ UNCHANGED <<verdict, source, expired, calls, invoked, started, runs>>

CompleteTask(b) ==
    /\ At(b, "stored") /\ ~expired
    /\ rows' = [rows EXCEPT ![branch[b].task] = "completed"]
    /\ Goto(b, "completed")
    /\ UNCHANGED <<saved, verdict, source, run, expired, calls, invoked, started, runs>>

\* The Task stays in progress, or completes without its Event.
CompleteFails(b) ==
    /\ At(b, "stored")
    /\ expired \/ Faults
    /\ rows' \in {rows} \cup
          IF Faults THEN {[rows EXCEPT ![branch[b].task] = "completed"]} ELSE {}
    /\ Return(b, "task_execute")
    /\ UNCHANGED <<saved, verdict, source, expired, calls, invoked, started, runs>>

ReviewStarts(b) ==
    /\ At(b, "review") /\ ~expired
    /\ Reviewable(branch[b].task)
    /\ invoked' = invoked + 1
    /\ Goto(b, "judging")
    /\ UNCHANGED <<vault, run, expired, calls, started, runs>>

ReviewRefused(b) ==
    /\ At(b, "review")
    /\ ~Reviewable(branch[b].task) \/ expired \/ Faults
    /\ Return(b, "review")
    /\ UNCHANGED <<vault, expired, calls, invoked, started, runs>>

\* A Provider or parse error leaves no Review.  A failing projection or
\* Event leaves the canonical Review and still fails the branch.
ReviewFails(b) ==
    LET t == branch[b].task IN
    /\ At(b, "judging")
    /\ verdict' \in {verdict} \cup
          IF Faults \/ expired
          THEN {[verdict EXCEPT ![t] = v] : v \in {"approve", "request_changes"}} ELSE {}
    /\ Return(b, "review")
    /\ UNCHANGED <<rows, saved, source, expired, calls, invoked, started, runs>>

Approve(b) ==
    /\ At(b, "judging") /\ ~expired
    /\ verdict' = [verdict EXCEPT ![branch[b].task] = "approve"]
    /\ Return(b, "none")
    /\ UNCHANGED <<rows, saved, source, expired, calls, invoked, started, runs>>

RequestChanges(b) ==
    /\ At(b, "judging") /\ ~expired
    /\ verdict' = [verdict EXCEPT ![branch[b].task] = "request_changes"]
    /\ Goto(b, "revise")
    /\ UNCHANGED <<rows, saved, source, run, expired, calls, invoked, started, runs>>

\* Mutation: the Revision Guard counts one too many.
MayReviseOnceMore(b) == RevisionAllowed /\ branch[b].revs <= MaxRevisions

\* No Revision is forbidden by the profile or by the Revision Guard.
MayRevise(b) == RevisionAllowed /\ branch[b].revs < MaxRevisions

\* The stages at which the branch gives up its lineage: CompoundProgressPolicy
\* needs two Revisions behind it (or a cancelled context) to stop.
GivesUp(b) ==
    (IF expired \/ branch[b].revs >= 2 THEN {"no_progress"} ELSE {})
    \cup (IF RevisionAllowed THEN {} ELSE {"revision_forbidden"})
    \cup (IF RevisionAllowed /\ ~MayRevise(b) THEN {"revision_limit"} ELSE {})

StopRevising(b) ==
    /\ At(b, "revise")
    /\ \E stage \in GivesUp(b) : Return(b, stage)
    /\ UNCHANGED <<vault, expired, calls, invoked, started, runs>>

\* PlanRevision.
PlanRevision(b) ==
    /\ At(b, "revise") /\ ~expired
    /\ MayRevise(b)
    /\ \E n \in Ids :
          /\ IsNextTaskID(n)
          /\ source[n] = 0 /\ ~ExistingForSource(branch[b].task)
          /\ branch' = [branch EXCEPT ![b] =
                            [pc |-> "intent", task |-> @.task, revs |-> @.revs, next |-> n]]
    /\ UNCHANGED <<vault, run, expired, calls, invoked, started, runs>>

\* The preflight finds an intent under the next Task ID or for this Review.
RevisionBlocked(b) ==
    /\ At(b, "revise") /\ ~expired
    /\ MayRevise(b)
    /\ \/ \E n \in Ids : IsNextTaskID(n) /\ source[n] # 0
       \/ ExistingForSource(branch[b].task)
    /\ Return(b, "revision")
    /\ UNCHANGED <<vault, expired, calls, invoked, started, runs>>

\* RevisionIntentStore.Save links the intent under its name.
SaveIntent(b) ==
    /\ At(b, "intent") /\ ~expired
    /\ ~ExistingForSource(branch[b].task) /\ source[branch[b].next] = 0
    /\ source' = [source EXCEPT ![branch[b].next] = branch[b].task]
    /\ Goto(b, "create")
    /\ UNCHANGED <<rows, saved, verdict, run, expired, calls, invoked, started, runs>>

\* Another branch took the name between PlanRevision and Save.
IntentExists(b) ==
    /\ At(b, "intent") /\ ~expired
    /\ ExistingForSource(branch[b].task) \/ source[branch[b].next] # 0
    /\ Return(b, "revision")
    /\ UNCHANGED <<vault, expired, calls, invoked, started, runs>>

\* TaskService.Create appends the Revision Task; the branch goes on with it.
CreateTask(b) ==
    LET n == branch[b].next IN
    /\ At(b, "create") /\ ~expired
    /\ rows[n] = "absent"
    /\ rows' = [rows EXCEPT ![n] = "unstarted"]
    /\ branch' = [branch EXCEPT ![b] =
                    [pc |-> "attempt", task |-> n, revs |-> @.revs + 1, next |-> 0]]
    /\ UNCHANGED <<saved, verdict, source, run, expired, calls, invoked, started, runs>>

\* A read or a write of the Revision fails; an intent or a Task may be
\* committed all the same.
RevisionFails(b) ==
    LET n == branch[b].next IN
    /\ At(b, "revise") \/ At(b, "intent") \/ At(b, "create")
    /\ At(b, "revise") => MayRevise(b)
    /\ expired \/ Faults
    /\ rows' \in {rows} \cup
          IF At(b, "create") /\ Faults /\ rows[n] = "absent"
          THEN {[rows EXCEPT ![n] = "unstarted"]} ELSE {}
    /\ Return(b, "revision")
    /\ UNCHANGED <<saved, verdict, source, expired, calls, invoked, started, runs>>

-----------------------------------------------------------------------------
(* The round: runParallel.                                                 *)

Finish(result) == run' = Stopped(result)

Quiet == \A b \in Ids : At(b, "idle")

RunFails ==
    /\ run.phase = "plan"
    /\ expired \/ Faults
    /\ Finish("failed")
    /\ UNCHANGED <<vault, branch, expired, calls, invoked, started, runs>>

AllCompleted ==
    /\ run.phase = "plan" /\ ~expired
    /\ \A t \in Rows : rows[t] = "completed"
    /\ Finish("completed")
    /\ UNCHANGED <<vault, branch, expired, calls, invoked, started, runs>>

NothingReady ==
    /\ run.phase = "plan" /\ ~expired
    /\ \E t \in Rows : rows[t] # "completed"
    /\ Ready = {}
    /\ Finish("blocked")
    /\ UNCHANGED <<vault, branch, expired, calls, invoked, started, runs>>

\* The n-th Command's maxParallelTasks is at most its maxTasks; every round
\* has a semaphore of its own.
Slots(n) == IF MaxParallel <= TaskLimits[n] THEN MaxParallel ELSE TaskLimits[n]

\* planReviewedWorkflowBatch: every ready Task, Revision Tasks included.
NextBatch ==
    /\ run.phase = "plan" /\ ~expired
    /\ Ready # {}
    /\ run' = [run EXCEPT !.phase = "dispatch", !.queue = Ready, !.slots = Slots(runs)]
    /\ UNCHANGED <<vault, branch, expired, calls, invoked, started, runs>>

\* The next Task in table order gets a goroutine once the semaphore has room.
Dispatch(b) ==
    /\ run.phase = "dispatch" /\ run.left > 0 /\ run.slots > 0
    /\ b \in run.queue /\ \A u \in run.queue : b <= u
    /\ run' = [run EXCEPT !.queue = @ \ {b}, !.left = @ - 1, !.slots = @ - 1]
    /\ branch' = [branch EXCEPT ![b] = [pc |-> "attempt", task |-> b, revs |-> 0, next |-> 0]]
    /\ UNCHANGED <<vault, expired, calls, invoked, started, runs>>

\* Mutation: the round waits for its queue, whatever the Task limit leaves.
RoundEndsWhenDrained ==
    /\ run.phase = "dispatch"
    /\ run.queue = {}
    /\ Quiet
    /\ run' = IF run.err # "none" THEN Stopped("failed") ELSE [run EXCEPT !.phase = "plan"]
    /\ UNCHANGED <<vault, branch, expired, calls, invoked, started, runs>>

\* Mutation: the round does not wait for its goroutines.
RoundEndsEarly ==
    /\ run.phase = "dispatch"
    /\ run.queue = {} \/ run.left = 0
    /\ run' = IF run.err # "none" THEN Stopped("failed")
              ELSE IF run.queue # {} THEN Stopped("limit_reached")
              ELSE [run EXCEPT !.phase = "plan"]
    /\ UNCHANGED <<vault, branch, expired, calls, invoked, started, runs>>

\* Every branch of the round has returned.
RoundEnds ==
    /\ run.phase = "dispatch"
    /\ run.queue = {} \/ run.left = 0
    /\ Quiet
    /\ run' = IF run.err # "none" THEN Stopped("failed")
              ELSE IF run.queue # {} THEN Stopped("limit_reached")
              ELSE [run EXCEPT !.phase = "plan"]
    /\ UNCHANGED <<vault, branch, expired, calls, invoked, started, runs>>

-----------------------------------------------------------------------------
(* The Command: process/reviewed_workflow.go ExecuteReviewedWorkflow.      *)

IsRevision(t) == source[t] # 0

\* planReviewedWorkflowStep: the first unstarted Revision Task of the table.
NextRevision(t) ==
    /\ IsRevision(t) /\ rows[t] = "unstarted"
    /\ \A u \in Ids : IsRevision(u) /\ rows[u] = "unstarted" => t <= u

Begin(queue) ==
    /\ run.phase = "idle" /\ runs < MaxRuns
    /\ runs' = runs + 1
    /\ run' = [phase |-> IF queue = {} THEN "plan" ELSE "dispatch", queue |-> queue,
               left |-> TaskLimits[runs + 1],
               slots |-> Slots(runs + 1),
               err |-> "none", result |-> "none"]
    /\ expired' = FALSE /\ calls' = 0 /\ invoked' = 0 /\ started' = {}
    /\ UNCHANGED <<vault, branch>>

StartRun == Begin({})

\* A continuation names the pending Revision Task: it is the only one of
\* the first round.
ResumeRevision(t) ==
    /\ RevisionAllowed
    /\ NextRevision(t) /\ t \notin saved
    /\ Begin({t})

Deadline ==
    /\ run.phase # "idle" /\ ~expired
    /\ expired' = TRUE
    /\ UNCHANGED <<vault, run, branch, calls, invoked, started, runs>>

Crash ==
    /\ run.phase # "idle"
    /\ run' = Stopped("crashed")
    /\ branch' = [b \in Ids |-> Idle]
    /\ UNCHANGED <<vault, expired, calls, invoked, started, runs>>

Init ==
    /\ rows = [t \in Ids |-> IF t <= Planned THEN "unstarted" ELSE "absent"]
    /\ saved = {}
    /\ verdict = [t \in Ids |-> "none"]
    /\ source = [t \in Ids |-> 0]
    /\ run = Stopped("none")
    /\ branch = [b \in Ids |-> Idle]
    /\ expired = FALSE
    /\ calls = 0 /\ invoked = 0 /\ started = {} /\ runs = 0

Branch(b) ==
    \/ Reserve(b) \/ OverBudget(b)
    \/ StartTask(b) \/ StartRefused(b) \/ WorkerReturns(b) \/ WorkerFails(b)
    \/ SaveDeliverable(b) \/ SaveFails(b) \/ CompleteTask(b) \/ CompleteFails(b)
    \/ ReviewStarts(b) \/ ReviewRefused(b) \/ ReviewFails(b)
    \/ Approve(b) \/ RequestChanges(b)
    \/ StopRevising(b) \/ PlanRevision(b) \/ RevisionBlocked(b)
    \/ SaveIntent(b) \/ IntentExists(b) \/ CreateTask(b) \/ RevisionFails(b)

Round ==
    \/ RunFails \/ AllCompleted \/ NothingReady \/ NextBatch
    \/ \E b \in Ids : Dispatch(b)
    \/ RoundEnds

Next ==
    \/ StartRun \/ \E t \in Ids : ResumeRevision(t)
    \/ Round
    \/ \E b \in Ids : Branch(b)
    \/ Deadline \/ Crash

Spec == Init /\ [][Next]_vars

\* The goroutines of a running Command are scheduled, and the Provider's
\* HTTP client answers or gives up.
FairSpec == Spec /\ WF_vars(Round) /\ \A b \in Ids : WF_vars(Branch(b))

-----------------------------------------------------------------------------
(* Properties.                                                             *)

\* A Task and the Tasks it revises, directly or not.
lineage[t \in Ids] == {t} \cup IF source[t] = 0 THEN {} ELSE lineage[source[t]]

\* The last Revision of t, or t itself, was approved.
approved[t \in Ids] ==
    IF ExistingForSource(t)
    THEN approved[CHOOSE r \in Ids : source[r] = t]
    ELSE verdict[t] = "approve"

\* Every state a Command can leave behind, crashes and failing writes
\* included, is one whose evidence is complete: a completed Task has its
\* Deliverable, a Review judges a completed Task, a Revision answers a
\* Review that requested changes, every Task beyond the plan is such a
\* Revision, and a Task runs after its dependencies (the commit order of
\* ExecutionService, ReviewOrchestrationService and
\* RevisionOrchestrationService).
EvidenceChain ==
    \A t \in Ids :
        /\ rows[t] = "completed" => t \in saved
        /\ verdict[t] # "none" => rows[t] = "completed"
        /\ source[t] # 0 => /\ source[t] < t
                            /\ verdict[source[t]] = "request_changes"
        /\ rows[t] # "absent" /\ t > Planned => source[t] # 0
        /\ rows[t] \in {"in_progress", "completed", "on_hold"} => DependenciesCompleted(t)

\* Concurrent branches that race for the last Provider calls of the budget
\* never make more of them than were approved (reserveProviderCall).
BudgetNeverOvershot == invoked <= MaxCalls

\* A branch only ever works on revisions of the Task it was dispatched for,
\* although all branches draw Revision Task IDs from the same table
\* (PlanRevision, RevisionIntentStore.Save).
BranchKeepsItsLineage ==
    \A b \in Ids : ~At(b, "idle") =>
        /\ b \in lineage[branch[b].task]
        /\ At(b, "create") => source[branch[b].next] = branch[b].task

\* A Task is revised at most MaxRevisions times per Command, whatever else
\* the other branches revise (the Revision Guard).
RevisionsBounded ==
    \A t \in Ids : Cardinality(lineage[t]) - 1 <= MaxRevisions * runs

\* A Command that reports a fresh Project completed has had every lineage
\* approved, whatever its branches' failures and Revisions.
CompletedMeansApproved ==
    runs = 1 /\ run.result = "completed" => \A t \in 1 .. Planned : approved[t]

\* Racing branches keep their lineages apart, whole and within their limit: what
\* a Command reports of a Task is about the Revisions of that Task and no other.
LineagesKept == BranchKeepsItsLineage /\ RevisionsBounded /\ CompletedMeansApproved

\* Deliverables, completions, Reviews and Revision intents are final:
\* nothing replaces or withdraws one, across branches, Commands and crashes.
EvidenceIsFinal ==
    [][/\ saved \subseteq saved'
       /\ \A t \in Ids :
             /\ rows[t] = "completed" => rows'[t] = "completed"
             /\ verdict[t] # "none" => verdict'[t] = verdict[t]
             /\ source[t] # 0 => source'[t] = source[t]]_vars

\* The Tasks that start in this step depend on approved lineages only.
StartOnApproved ==
    \A t \in Ids : rows[t] = "unstarted" /\ rows'[t] = "in_progress" =>
        \A d \in DepsOf(t) : approved[d]

\* A Task starts only when the lineages it depends on are approved
\* (ADR-0024: a Task, its Review, its Revision and the Review of that come
\* before the next Task).
\* The code does not keep it (README, Observations).
StartsOnApproved == [][StartOnApproved]_vars

\* On a fresh Project this is so: within one Command, rounds keep a
\* dependent Task behind the Reviews and Revisions of what it depends on.
FirstStartsOnApproved == [][runs = 1 => StartOnApproved]_vars

\* Every Command ends: no branch waits for another one, and the Revision
\* Guard and the budget end every lineage (runParallel).
EveryRunEnds == run.phase # "idle" ~> run.phase = "idle"

\* "branches never share retry/revision state with each other"
\* (reviewed_workflow_run_service.go): only a Revision of the same Task can
\* refuse a branch its Revision.
\* The code does not keep it (README, Observations).
BranchesIndependent ==
    [][\A b \in Ids : RevisionBlocked(b) \/ IntentExists(b) =>
          ExistingForSource(branch[b].task)]_vars

\* The approved Task limit counts planned and Revision Tasks together
\* (ADR-0024, ADR-0051).
\* The code does not keep it (README, Observations).
TaskLimitKept == runs > 0 => Cardinality(started) <= TaskLimits[runs]
=============================================================================
