# WorkCairn in TLA+

WorkCairn (`src/go`) is a local-first "AI company". A CEO writes a request; an
Interaction Session turns it into a Plan with the help of a Provider (Claude);
after the CEO's approval the Plan becomes a Project with Tasks; a reviewed
Workflow executes, reviews and revises the Tasks; the result may be published.
Everything is kept as documents of an Obsidian Vault: there is no database, no
transaction across documents, and no automatic retry or rollback. What makes
the system correct is therefore the order of its file operations, the compare
and set on versions, exclusive creation of files, and a durable ledger of
Commands. That is what these modules model.

Contents: [the system](#the-system) · [modules](#the-modules) ·
[runs](#the-runs) · [proofs](#the-proofs) · [observations](#observations) ·
[not modelled](#what-is-not-modelled) · [what is left](#what-is-left).

## The system

Paths are relative to `src/go/internal/`.

| Component | State | Operations | What is hard | What makes it correct | Module |
|---|---|---|---|---|---|
| **Command Ledger** (`commandledger`, `service/command_ledger_service.go`, `process/command_ledger.go`, `adapter/vault/command_ledger_store.go`) | one record per Command ID: request digest, state, outcome, version | claim, run, finish, replay | concurrent deliveries, retries after lost answers, crash between claim and outcome, writes that report an error after they took effect | a Command's effect runs at most once; whoever is answered is answered with that run | `CommandLedger` |
| **Task, TaskService, Task store** (`task`, `service/task_service.go`, `adapter/vault/task_store.go`) | `Tasks.md`: all Tasks of a Project in one document, behind a file lock | create, start, complete, fail, hold, resume, and the variants with an expected version | the lock covers the write, not the read before it; the whole document is replaced; the Event is published after the commit | no lost update, only legal transitions; Audit and answers tell only what was committed | `Task`, `TaskService` |
| **Event bus, Audit** (`event`, `adapter/vault/audit_subscriber.go`) | subscribers; append-only logs | publish, subscribe | delivery after the commit, partial delivery | the Audit Log tells only what happened | `TaskService` |
| **Recovery** (`recovery`, `service/recovery_service.go`, `process/recovery*.go`) | none of its own: a snapshot of everything else | inspect, plan, prepare, apply | a snapshot that is not atomic; a plan applied after the world moved on | accuses nobody falsely; a fenced change commits on the planned version or not at all | `Recovery` |
| **Reviewed Workflow** (`service/reviewed_workflow_run_service.go`, `process/reviewed_workflow.go`, `service/execution_service.go`, `service/review_orchestration_service.go`, `service/revision_orchestration_service.go`) | Task rows, Deliverables, Reviews, Revision intents; in memory: rounds, branches, budget, deadline | start, resume a Revision; per branch execute, review, revise | branches in goroutines share the Vault and the budget; each of four kinds of document may fail; crash anywhere; deadline | evidence is complete and final; the budget holds; every Command ends | `ReviewedWorkflow` |
| **Interaction Session** (`interaction`, `service/interaction_service.go`, `process/interaction*.go`) | an append-only history of Turns and a version | start, generate, answer, apply, approve and execute, workflow, recover a Revision, action, archive | every operation reads, works for minutes, and appends to the version it read; nothing serialises Commands of one Session | no Turn is lost or unreadable; the history tells only what was done; a bounded Session spends its Provider calls once | `Interaction`, `Session` |
| **Session and Workflow together** (`process/interaction_workflow.go`, `process/interaction_recover_revision.go`) | both | plan a run, run it, record its evidence, recover | the evidence of a run must fit the Session that asked for it; what is left after failures must be offered again | the outcome of every run is recorded | `SessionWork` |
| **Projections** (`process/attention.go`, `conversation.go`, `work_report.go`, `company_activity.go`) | none: computed from Session, Vault and Ledger | read | four pieces of code classify one history; parts are read at different times | what the CEO is shown is what happened | `Views` |
| **CEO Plan apply, Project creation** (`process/ceo_plan.go`, `process/project_creation.go`) | Project directories | resolve a name, bootstrap, Tasks, dependencies | several writers in sequence, each may be the last; two applies race for a name | the Session tells of a Plan as applied only when all of it is there | `Session`, `Planning` |
| **CEO planning** (`ceoplan`, `organization/assignment.go`) | none | parse an Intent, normalise, validate, assign, validate again at apply | Provider output is arbitrary; the Organization changes between generation and apply | generated Plans stand; their Tasks can be worked off; assignees are lost only to ambiguity | `Planning` |
| **Runner, Worker, Review parser** (`adapter/claude`, `service/worker_service.go`, `review/result.go`, `failure`) | none that outlives a call | call a Provider, classify its answer | timeouts of two clocks, answers cut off, malformed answers | an answer is accepted whole or refused, and blamed on the right party | `Provider` |
| **External Action** (`service/action_service.go`, `process/action.go`, `adapter/wordpress`) | intent, remote post, outcome | publish | the remote post cannot be taken back | a publication has its intent, post and outcome | `Session` |
| **Scheduler** (`scheduler`, `service/scheduler_service.go`, `process/schedule.go`, `adapter/vault/schedule_store.go`) | one file per Schedule: definition, state, version | create, tick, claim, dispatch, finish | several daemons tick over lists read earlier; crash between claim, dispatch and outcome; a preflight that is out of date | a Schedule is dispatched at most once, a target Command runs at most once, a recorded success is a real one, a due Schedule is not forgotten | `Scheduler` |
| **Routine** (`routine`, `service/routine_service.go`, `process/routine*.go`) | a versioned record, and the Schedules of its occurrences | activate, deactivate, reconcile, plan and chain | two commits in a row without a transaction; operators race with the daemon that handles an occurrence | an Active Routine has an occurrence ahead; nobody is told "scheduled" of nothing | `Routine` |
| **Organization** (`organization`, `adapter/vault/employee_*.go`, `process/employee_*.go`, `process/workspace_setup.go`) | Employee files (canonical); Workspace State, Project references, Identity History (projections); intents | hire, rename, repair IDs, sync, set up | each operation rewrites several files, one at a time; plans are made before the lock is taken | no new identity issue; a lag is on record; there is a way back | `Identity`, `Organization` |
| **Goal, Responsibility, Binding** (`goal`, `responsibility`, their services and stores, `process/responsibility_work.go`) | versioned records, Markdown pages | create, achieve, abandon, activate, deactivate, assign, unassign, plan | transitions decide before the lock; a page is written after its record; creations take no lock | no lost update; references resolve; a lagging page is on record | `Responsibility` |
| **HTTP API, asynchronous Commands, daemon** (`httpapi`, `cmd/workcairn-daemon`) | slots, the accepting flag, contexts, a WaitGroup | accept, run, answer 202, shut down | shutdown against acceptance; three waits with one deadline | a graceful exit cuts nothing off; a signal ends the daemon | `Daemon` |
| **Kernel, policies, in-memory stores, OS integration, programs and harnesses** | see [below](#what-is-not-modelled) | – | – | – | – |

How they interact. A client's request reaches `process/*` through the HTTP
executor, the CLI or the Scheduler. With a Command ID it first claims a record
of the Command Ledger. An Interaction operation then reads the Session, does its
work through other Commands (planning Provider, Plan apply, reviewed Workflow,
Action), and appends one Turn with a compare and set. The Workflow drives
TaskService, which commits to the Task store and then publishes an Event; the
Audit subscriber appends it to the Audit Log, which Recovery later reads.
Components share state only through the Vault; inside one process, only the
branches of a Workflow (budget, results, semaphore) and the goroutines of the
HTTP side (slots, WaitGroup) share memory.

`PROJECT.json` lists every component with what is modelled of it, and the
hazards of this code at their lines.

## The modules

| Module | Models | Composition |
|---|---|---|
| `OnceOnly` | what the ledger promises: claimed once, run at most once, answered with that run | abstract |
| `CommandLedger` | the claim, run, finish protocol over the record files | implements `OnceOnly` |
| `Task` | the Task record, its transition table and its changes | used by the next two and by `Recovery` |
| `TaskLifecycle` | each Task a state machine of its own | abstract |
| `TaskService` | TaskService, the Task store and the Audit subscriber | implements `TaskLifecycle` |
| `ReviewedWorkflow` | Commands that run the reviewed Workflow on one Project | – |
| `Recovery` | snapshot, findings, plans, approvals and repairs beside live workers | extends `Task` |
| `Interaction` | the Session record: Turns, methods, replay, what Next offers | pure definitions |
| `Session` | the Commands that drive one Session, with the Projects, Workflows and publications they leave behind | extends `Interaction` |
| `SessionWork` | one Session composed with its Workflow runs, Task by Task | extends `Interaction` |
| `Views` | attention feed, conversation, Work Report and activity of that Session | extends `SessionWork` |
| `Provider` | one call to the model Provider: from the HTTP answer to the recorded code | pure definitions |
| `Planning` | a CEO Plan from the Provider's Intent to the Tasks of a Project | extends `Provider` |
| `Scheduler` | Schedules, daemons that tick, the Dispatcher, schedule.create | uses what `OnceOnly` promises of the two Ledgers |
| `Routine` | one Routine, its operators and the chain of its occurrences | extends `Scheduler`: its steps are steps of the Scheduler or of its own |
| `Identity` | names, IDs, identity audit, ID repair plan, rename batches | pure definitions |
| `Organization` | hire, rename, ID repair, sync and setup, file by file | extends `Identity` |
| `Responsibility` | Goals, Responsibilities, Bindings and planning for them | – |
| `Daemon` | HTTP handler, asynchronous runner, scheduler loop and shutdown of one process after another | uses what `CommandLedger` shows of claims |
| `*Proofs` | theorems about the module they are named after; `TaskPlanProofs` about `TaskService` and about `Planning`, `SessionProofs` about `CommandLedger`, `Session`, `SessionWork` and `Views` | extend it |
| `MC*` | model values, instances and symmetry for TLC | extend it |

A definition whose comment begins with "Mutation" is a plausible bug of the
definition that follows it. No specification uses it; it stands there to show
which bug the property it belongs to would catch.

### CommandLedger

`ledger` is the files: a record has its request (everything `SameRequest`
compares), version and outcome, and is *running* while the outcome is missing.
A caller is one HTTP request, CLI process or daemon pass. Its program points are
the points between two file operations: `create` (exclusive creation), `get`,
`effect`, `finish`. Each file operation may fail without effect, or take effect
and report a failure: `osAtomicCreator.Create` reports the failed directory sync
although the link was made, `Replace` although the rename was. `Crash` is the
death of the caller, and also its answer getting lost.

### TaskService

`doc` is `Tasks.md` as a whole, `lock` the file lock. `mutate` reads the Task
under the lock, releases it, computes the change, takes the lock again, loads the
document again and compares the version: `Get`, `Acquire`, then `Persist` or
`Conflict`. Publication is a step of its own without the lock. `history` and
`commits` are history variables. Names of Tasks, assignees and times are not
modelled; a failure reason is, because the legal changes depend on it.

### ReviewedWorkflow

The Vault is `rows` (Tasks.md), `saved` (Deliverables), `verdict` (canonical
Reviews) and `source` (Revision intents). `run` is the Command's round, `branch`
its goroutines, one per dispatched Task and named by it. A branch stops between
any two of its steps while others move. The Provider answers, fails or is cut
off by the deadline; every write may fail, and with `Faults` may take effect and
report failure. `recoverExecutionFailure` is part of the failing action. Task IDs
are numbers in table order. Commands follow each other; `Crash` ends one.
Abstracted: contents, prompts, token counts, the comparison of Review feedback
(the progress policy may stop a lineage whenever its preconditions allow).
The Command Ledger's part (child Command IDs) is left to `CommandLedger`.

### Recovery

The four kinds of documents a snapshot reads (`rows`, `saved`, `reviews`,
`intents`), written by workers that execute, review and revise Tasks and may die
between two writes. An operator's inspection reads one kind after the other
(`ReadTasks` … `Report`); `Findings`, `MakePlan` and the two closed public views
are three pieces of code in the source and three definitions here. A repair is
applied by the Command (commitment, plan made again, compared) or by the CLI
(plan made again, approved by the flag); each of its changes passes the version
the plan saw. `did` is the history of what an apply committed.

### Interaction and Session

A record is its profile, Turns and state. `May`, `StateAfter` and `Appended` are
the `Record…` methods, `Valid` the replay that every load and save does: they are
separate code in the source (`RecordX` scans the history backwards, `Validate`
folds it forwards) and separate definitions here. Workflow statuses are grouped
by what the Session does with them. A Project name is a sequence, `<<1>>` for the
Plan's name and `<<1, 2>>` for its suffix " (2)".

In `Session` each Command has its own program counter and the record it read.
A Command that is refused, fails or crashes simply takes no further step: the
code undoes nothing, resumes nothing and nobody reads its memory, so what is left
is what it wrote. The client sends a request against the version it sees; the
Command begins at any later time. The Workflow inside is one step whose outcomes
are those of `ReviewedWorkflow`; under a bounded contract it cannot ask for a
Revision.

### SessionWork and Views

`SessionWork` takes the opposite cut: one request at a time, but the Workflow run
it starts is played out Task by Task (plan, rounds, dispatch, execution, Review,
Revision, evidence), with child Commands in the Ledger (`succeeded`), failures
that hold Tasks or stop the run, recovery of a Revision, and crashes. `worked`
is the evidence each Workflow Turn lists; `lost` remembers that a run got no Turn.
The branches of a round run one after the other: what concurrent ones do to each
other is in `ReviewedWorkflow`.

`Views` has no state: each projection is an operator over the Session, its
evidence, the Vault and the Ledger, with the case distinctions of its own source
file. Wording, Audit counts and the company-wide merge are left out.

### Planning and Provider

`Provider` classifies one call: transport causes, HTTP statuses, error types, stop
reasons and content blocks, then what each of the three services makes of the
Runner's error and of its own context, then the code of the Command's envelope. An
answer may come although the caller's context has ended beside it: what would be
saved with that context is not.
`Planning` runs a Plan through its life: an answer is parsed into an Intent,
normalised into Tasks with a dependency graph (a function over the steps, grown
one at a time as the code does), assigned; somebody may be hired; the approved
Plan is validated, normalised and assigned once more. Plans written by hand enter
at the approval with every fault the validation knows. The search for cycles is
modelled by its result, and an apply by what a complete one creates: one that stops
part way is in `Session`.

### Scheduler and Routine

`schedule`, `command` and `creation` are the Schedule files and the Ledger
records of target Commands and of schedule.create Commands; the Ledger's
protocol itself is in `CommandLedger`, and appears here as an atomic claim. A
daemon is in its loop (`ready`), between two steps of `RunDue` (`dispatch`,
`handling`, `finish`) or `off`; `todo` is the rest of the list its tick read. The
tick reads the clock once and lists before it claims, so its list may be out of
date at every claim. `Dies` covers a crash and a stop: everything in memory is
gone. The states of a Schedule have fixed versions, so the state alone is what
`ValidateTransition` compares. The claim of a Schedule in `Unwritable` (a record that
cannot be locked or replaced) may fail at every tick of every daemon.

Anybody may create Schedules: `creator` is the place of a process in
`ExecuteScheduleCreation`, which operators call, and the routine.plan handler of
a daemon too. In `Routine` the clock stands at k from the k-th instant of the
Trigger to the next one, and occurrence k has k as Schedule ID, as target Command
ID and as default schedule.create ID: all three are derived from its instant
alone. `job` is the place in `executeClaimedRoutinePlan`; `op` what an operator
asked for, the version and the time it looked at, and what it was told.
`disturbed` is history: somebody failed, died, or was refused because another
Command used its identity.

### Identity and Organization

Names and IDs are numbers in string order; `GivenName`, `NormalName` and
`WellFormed` say which names the policy confuses. `Organization` has the Employee
files (canonical: the file name is the name) and what is projected from them:
`rows` of Workspace State, `refs` of Projects, `identityHistory`. Each operation is the
sequence of its writes under the one lock, any of which may fail before or after
it took effect, or be the last because the Command dies; what is planned before
the lock is planned before the lock here. `refs` stands for all Project files; these
are rewritten one after the other, so between the first and the last of them a
reference may stand in both forms (`WriteSomeRefs`, then `WriteRefs`). The ID repair plan is a set of repairs, each
with its `place` in the list (`reflect.DeepEqual` compares lists), and the new IDs are
a recursive function over the duplicates in that order, since each proposal finds
those before it used. `effects` is history: which Ledger
records stand for a changed document. workspace.setup hires its starters as child
Commands with records of their own; its layout may fail with or without what it
created, also when only the report of a finished creation failed.

### Responsibility

`goal`, `record` and `binding` are the JSON files, `page` the status the Markdown
page shows, `lock` the `.lock` of each file. A Command claims, checks names in
other files, reads, decides, and only then takes the lock and compares; a creation
takes no lock and relies on exclusive creation. The lock of a change is kept
until its page is written; a creation's page comes whenever it comes, and yields
to a page that is there. `GenerateResponsibilityPlan` reads the record, the Goals
and the Binding one after the other.

### Daemon

`main` follows `run()` of `workcairn-daemon` from serving through the three waits
of its shutdown to the exit; `request` and `job` are the handler and the call of
`Execute` for each HTTP request and for the scheduler's tick, `group` the
goroutines the WaitGroup counts, `slots` those that hold a slot. Work ends with
its context or whenever it likes; what a context canceled in the middle of a
Command leaves (`interrupted`, `canceled`, an orphan) is told apart. `lives`
counts processes; the next one finds only the Ledger.

## The runs

The deadlock check is on for `MCCommandLedger` and `MCTaskService`. It is off where
the bounds end the behaviour: a finite set of Commands that each run once, a last
run, a last life.

| Run | Instance | Asks |
|---|---|---|
| `MCCommandLedger` | 3 callers, 1 Command ID, 2 requests | is there at most one effect, is whoever is told an outcome told that of his own request's run, and is `OnceOnly` implemented, under races, retries, crashes and failing writes? |
| `MCTaskService` | 2 callers, 1 Task, 4 versions | do Audit and answers tell only commits; is `TaskLifecycle` implemented? (That several Tasks in the one document stay independent is the theorem `ServiceImplementsLifecycle`.) |
| `MCReviewedWorkflow` | 3 Tasks, the third depends on two; 2 Commands approved for 3 and for 2 Tasks; limits 2 parallel, 1 Revision, 8 Provider calls; faults, deadline, crash | are evidence, budget and lineages kept by concurrent branches; does a Project's first Command start only on approved work; does every Command end? |
| `MCSession` | 4 Commands, all operations, both profiles, Plans of 1 and 2 Tasks, one with two questions | is no Turn lost or unreadable, is only told what was done, does a bounded Session spend once? |
| `MCRoutine` | 2 daemons, an operator of the Routine and a client; 2 occurrences and another Schedule with the target of the first; 3 versions; 1 failure or crash; 1 Schedule whose claim may fail for ever | is a Schedule dispatched once and its success real, does a chain go on, is what is due claimed although others fail at every tick? |
| `MCRecovery` | 1 worker, 1 operator, 2 Tasks (one only a Revision creates, which may have a Deliverable put there by hand), 4 versions | does an inspection accuse nobody falsely while workers go on, do findings, plans and views agree, does a repair land on what was approved and say so? |
| `MCDaemon` | 2 requests, 2 Commands (one that may be accepted), 1 slot, 2 lives | does a graceful exit cut nothing off, does a signal end the daemon? |
| `MCOrganization` | 2 Commands of any kind, names 1 to 7, four initial inventories (empty, valid, an ID held by two Employees, an ID held by three), every write may fail | is success complete, a lag on record, a way back open, and no identity issue new? |
| `MCResponsibility` | 3 Commands, 1 Goal, 1 Responsibility, 3 Employees of whom 2 are in the inventory | does stand what was told, is a lagging page on record, do references resolve? |
| `MCPlanning` | 3 Employees, 4 role titles, Intents of up to 4 steps, Plans by hand with every fault, every kind of answer, with the caller's context alive, past its deadline or canceled | do generated Plans stand on the Organization of a later day, are their Tasks in layers, can the Tasks of any Plan be worked off, what may the second resolution lose, what becomes of half an answer or of one that comes late? |
| `MCViews` | 5 Commands, Plans of up to 2 Tasks (one of a single Task with two questions), Task IDs up to 3, Task limits 1 and 3, 1 Revision, faults, crashes, one archiving | does the feed follow `Next()`, are the verdicts shown the Reviews', does "no action needed" mean done? |
| `MCViewsRecorded` | the same without faults and crashes | *violation* of `EveryOutcomeIsRecorded`: see [Observations](#observations), 1 |

Why the bounds are enough for what they are asked. The ledger's protocol
distinguishes a claimer, a loser and a later retry, hence three callers, and two
requests for a conflict. Four versions of a Task cover create, start, fail or
hold, and resume or complete; two callers suffice for every race on a compare and
set, since a third loses like the second. In the Workflow three Tasks are the
smallest plan with parallelism and a dependency; the first Command may run all
three and complete the Project, the second, approved for two, can stop at its
limit with a Task still ready; eight Provider calls are fewer than the plan with
its Revisions needs, so branches really race for the last ones; two Commands let
the second find what the first left. `MaxTaskId` leaves room for every Revision
that the calls allow. In Session, four Commands are enough for a start, two that
race, and one more before or after. In Routine two daemons are enough for every
race on a claim; the other Schedule competes for the target Command of an
occurrence, with the same request or another one; one failure or crash may hit any
step of one daemon or the operator (`Fallible`: the other daemon is
interchangeable with it), and besides it the claim of the first occurrence may fail at
every tick, for ever, while the other Schedule is due before it and must get its
claim. The clock's bound leaves one link of the chain; the theorem `FirstChainStays` is about chains of any length. In Recovery one worker does everything a Task goes
through, one after the other, around an inspection and a repair; a second worker
or operator multiplies the states beyond reach without adding a pair of writer and
reader. In Daemon one slot makes the second request meet a full runner, and two
lives let the second find an orphan. In Organization two Commands are a Command
and what finds its remains; four inventories hold the cases that matter
(nobody, a valid pair, an ID held by two and by three). In Responsibility the race of a creation
with a change of what it created needs two Commands, and a third to read or refer
to it; one Goal and one Responsibility are enough since a Command is about one
file and the names it checks. Four steps of an Intent are enough for a group that
opens, closes and opens again. In Views three Task IDs are a Plan of two and a
Revision, or a Plan of one and two Revisions.

Fairness is assumed in three modules (`FairSpec`). In `ReviewedWorkflow`: weak
fairness of the round, because `runParallel` is an ordinary loop, and of each
branch, because goroutines are scheduled and each of their steps ends: file
operations return, and the Provider's HTTP client has a timeout and is cancelled
by the deadline. Nothing is assumed of the deadline itself, of crashes, or of new
Commands. In `Routine`: weak fairness of each daemon's tick and of the handler in
it, because the loop of `SchedulerService.run` goes on after every tick whatever
`RunDue` returned, file operations return, and a Provider call ends. Nothing is
assumed of operators, of failing steps or of a restart: a daemon that died may
stay dead. `DueIsClaimed` speaks of one Schedule at a time and does not presume that
claims succeed: a Schedule stays due for good only if every daemon that cannot die
fails infinitely often on one due no later. In `Daemon`: the shutdown goes on, its deadline passes, and a tick
whose context was canceled ends, because every wait of `Execute` ends with its
context. Nothing says that the work of a request or of a goroutine ever ends,
which is what the shutdown is for.

Symmetry is used where elements are interchangeable (callers, requests, Tasks,
Commands) and only with safety properties and refinement of safety specifications.

Formulas that no run lists also hold on the same instances; they are kept for a
reader who changes the code: `NoFalseAlarm` (TaskService), `EvidenceIsFinal`
(ReviewedWorkflow; theorem `EvidenceStays`), `ToldMeansScheduled` (Routine),
`FailedChangedNothing` and `BatchIsSafe` (Organization), `EndedGoalStays`
(Responsibility; theorem `EndedGoalsStay`), `OnlyLateIsCanceled`,
`BoundedWork`, `SchedulerIsQuiet` (Daemon; theorems `AcceptedOutlives`,
`CapacityKept`, `QuietScheduler`), `OpenQuestionIsNexts`, `VerifiedIsApproved`,
`DoneHidesNothing` (Views), and the type invariants that no run lists, which are
theorems.

## The proofs

TLAPS checks the following for every value of the constants that satisfies the
named assumptions. Each module proves `Init => IInv`, `IInv /\ [Next]_vars => IInv'`
with one lemma per action or group of actions, and derives its theorems.

**SessionProofs**, first part: the ledger (assumption: the blank ID is not a Command
ID). `LedgerTypeCorrect`, `AtMostOnce`, `RecordFaithful`, `AnswerFaithful`,
`OneOwner`, `OrphansStay`, and `LedgerImplementsOnceOnly`, the refinement step by
step. The promise "at most once" is not inductive: `LedgerInv` adds that an owner's
record is running and belongs to its request, that the effect precedes the finish,
that an unclaimed Command has had no effect, and that told outcomes are counted
runs.

**SessionProofs**, second part: the Session (assumptions: a Plan has a Task,
"nobody" is no Command, there is a name to try for a Project). `TypeCorrect`,
`ToldStays`, `HistoryIsDone`, `BoundedSessionsOnce`, `MethodsAndReplay`, for any
number of Commands, Plans and Turns. `IInv` rests on one fact: whatever a Command
has read is valid and a prefix of what is stored (`HeldIsPast`), so that a record of
the same version is the same record. Then a Turn that is about to be appended tells
only what was done (`TurnsAreDone`), and what it told stays done: Tasks are added to
a Project only by a Command that has recorded no Plan yet (`AppliesLater`), numbered
without a gap (`TasksNumbered`), and a Project's dependencies are written once. A
bounded Session is used up by its own history: who calls the Provider owns the one
reservation in it, and who runs a Workflow the one applied Plan, whatever happened
to the process that wrote it (`BoundedPart`, `OnlyBoundedReserve`).
`MethodsAndReplay` needs to know what the replay of any valid history has found
(`Found`): the same Plan, Project, workflow and number of answers that the methods
look up backwards; replay and the count of answers are folds, and each is shown to
be the chain that takes one Turn after the other.

**SessionProofs**, third part: `SessionWork` and `Views` (assumptions: Command IDs and
Task IDs are positive numbers and every Plan's Tasks have one). `WorkTypeCorrect`,
`FeedIsRight`, `ConversationIsRight`, `ReportIsRight`, for any number of Commands,
Plans, Tasks and Revisions, with faults and crashes. What the CEO is shown is computed
from four places that are written one after the other, so `WorkInv` says what each of
them lets one conclude about the others. The record agrees with its replay
(`Recorded`, by the lemma that carries `MethodsAndReplay`); where the run is says what
its Task looks like (`RunStands`); every verdict that a Turn or the run lists is the
Vault's, of completed work, or comes with a failure (`ReviewsTold`: a reviewed Task is
not touched again except by the Review under way); and while no run was lost, every
Task that was begun is listed by a Turn or by the run (`TasksStand`). The last holds
because a run can only be finished as completed when all rows are, and because an
intent whose Task was not created is a failure's. So a report that needs no action
has no failure in it: each Task with requested changes has a Revision, Revisions come
after their sources, and the last one of a lineage can only have been approved. The
Work Report and the conversation flatten lists of lists; `FlattenedElements` says
what comes out.

**TaskPlanProofs**, first part: TaskService (assumption: the free lock is no caller). `ServiceTypeCorrect`,
`AuditFaithful`, `ReplyFaithful`, `ExpectedFenced`, `ServiceImplementsLifecycle`.
`ServiceIInv` says that the lock holder's loaded document is the current one (this is what
the second load under the lock buys), that the document shows the last version of
each Task in `history`, and what a caller between `Get` and `publish` knows of its
base.

**ReviewedWorkflowProofs**, first part: the evidence (assumption: the limits are
positive, each Command has a Task limit, and `Deps` maps planned Tasks to planned
Tasks). `TypeCorrect`, `EvidenceComplete`, `WithinBudget`, `EvidenceStays`: for any
plan, any number of branches, Commands, faults and crashes. `IInv` says that
goroutines live inside a round (`QuietBetweenRounds`), that every Provider call made
or held was counted (`Accounted`), that no two branches hold one Task
(`DistinctTasks`) and what a branch at a program point may rely on in the Vault
(`BranchesSupported`), which survives every step of every other branch.

**ReviewedWorkflowProofs**, second part: the lineages. `LineagesStay` (every Task
keeps its one lineage, within the Revisions that the Commands so far allow) and
`FirstGrounded` (a Project's first Command executes a Task only when all it depends
on was approved). `lineage` and `approved` are recursive functions; each is first
shown to be the least set closed under one step, by a least or greatest
counterexample, and `LInv` speaks of these sets only. Its parts: an intent is the
only one for its source (`OneRevision`), although two branches may choose the same
next ID; a branch works on one lineage and has made no more of it than it may
(`BranchesOwn`); while nothing has failed, a Revision Task that waits is in the
hands of the branch that made it (`Waiting`), and what no branch holds is untouched,
approved or revised (`Settled`): this is why the next round of the first Command
finds every completed Task approved (`AllGrounded`), and why a failed branch must
stop the rounds; and the Command reports success only when every lineage was
approved (`Reported`).

**RecoveryProofs** (assumptions: no worker is an operator; what Revisions create and
what was put there by hand are Tasks). `TypeCorrect`, `NobodyAccused`, `ToldTruth`,
`InspectionAgrees`, `RepairLands`, for any number of workers, operators and Tasks.
The writers leave the evidence first (`EvidenceFirst`), and an inspection reads the
Tasks first (`SeenInOrder`): so what looks complete in a snapshot has its evidence
in the same snapshot, however much later that was read. What an operator or a plan
holds is of the past: the Task is still there, and it is that very record for as
long as it has that version (`OfThePast`, `PlanStands`). A repair counts its own
writes (`RepairCounted`): between fail and hold the record is the plan's, failed, or
somebody else's newer one (`HalfDone`), and only the first lets the hold go through.

**RoutineProofs**, first part: the Scheduler (assumptions: no daemon is an operator,
the placeholder for "no request" is none). `SchedulerTypeCorrect`,
`ScheduleDispatchedOnce`, `TargetCommandRunsOnce`, `SuccessIsReal`, `OrphansStay`,
for any number of daemons, operators and Schedules, and whatever is submitted to
`ExecuteScheduleCreation`. `IInv` says that a daemon holds a dispatching Schedule
and holds it alone (`HeldAlone`), that nothing is dispatched before it is claimed
(`ClaimedFirst`), that the run counter of a Command agrees with its Ledger record
(`RunsCounted`), that a handler runs the Command of the Schedule it holds, with the
payload in that Command's record (`HandledAlone`), and that an outcome of success,
held or recorded, is that of the Schedule's own Command (`OutcomesReal`). The last
two are why an answer replayed from another Schedule's Command cannot become a
success.

**RoutineProofs**, second part: the Routine (assumptions: an occurrence, its target
Command and its default schedule.create Command share their identity; another
Schedule may take the target of any occurrence the clock reaches).
`ImplementsScheduler`: operators, handlers and chaining only ever take steps the
Scheduler allows, or leave its state alone. The hard part is that what the chain
submits is a Schedule at all. `RInv` adds that a routine.plan Schedule is due at its
own instant (`DefinedForRoutine`), that what a tick listed or holds was due
(`HeldWasDue`), and that operators work with versions and times they have seen
(`OperatorsSane`): so whatever the chain counts on from lies in the past, and its
next occurrence within the clock's bound. With it, `RoutineTypeCorrect`, and
`OccurrencesOnce` carries the Scheduler's theorems over.

**RoutineProofs**, third part: the chain. `FirstChainStays`: as long as nobody
failed, crashed or was refused, a Routine that was activated once has a pending
occurrence whenever nothing is under way, for any number of daemons and however many
of its Plannings fail. `FirstChainGoesOn` speaks of quiet states only and says
nothing of the steps between; `ChainStands` does. Every occurrence that exists is
pending, or its successor exists, or the daemon that holds it has not come past its
chaining (`Carried`); before there is a first one, the activation that committed is
still seeing to it (`Begun`); and whoever is told that a creation succeeded, through
its own record or one replayed, has a Schedule, the handler of an occurrence that of
the next one (`AnswersMeanIt`, which needs `CreationsOwned`: a claimed creation
belongs to one process). At rest the greatest occurrence that exists has no
successor and no daemon, so it is pending. The invariant speaks of the second version
of the record only: with a second activation the chain may be lost, which is the
observation about `Continuity` below.

**DaemonProofs** (assumptions: the slots are a positive number, the requests are
finite, the Schedule's Command and the tick are nobody else's). `TypeCorrect`,
`GracefulExit`, `AcceptedOutlives`, `CapacityKept`, `QuietScheduler`, for any number
of requests, slots and lives. "A graceful exit cuts nothing off" says something of
the last state only; `IInv` says who waits for each run of `Execute` (`Awaited`: its
handler or the group), that a request accepted is answered before it leaves the
group (`AnsweredOnce`), which slots are whose (`SlotsTaken`), and what each stage of
the shutdown has behind it (`OneWay`): unless a wait was given up, the requests are
closed before the runner is drained, and the group is empty before the process
leaves.

**TaskPlanProofs**, second part: Planning (assumptions: case folding maps roles to roles, the inventories
are finite, nobody is not an Employee, a role has a title, steps and Tasks are
lists). `TypeCorrect`, `AssigneesKept`, `CallsTold`, `GeneratedPlansStand`,
`DependenciesAreLayers`, `PlansCanBeWorkedOff`, for any Organization, Intent, answer
and Plan. The argument is about the second resolution: a role that was
resolved without a name had one holder (`ResolvedHasOneHolder`), so what it resolves
to later, with that holder still there, is the same or, with a second holder,
nobody; of a Plan written by hand, whose roles were never resolved before, it follows
from what `ResolveKeeps` says of any one resolution. That half an answer is never work
follows the cut through `ReadMessage`, whichever of the three services asked; that one
which comes too late is none, through each service's own context
(`EndedMakesNoWork`). That a generated Plan stands is three facts:
every Task was given to somebody who holds the role alone and is found again
(`Settled`), a second pass of `AddRole` over the same roles adds none
(`RolesSettle`), and what the second validation looks at is what the first one
looked at (`FaultlessCandidate`, with the first fault of a list as a least
counterexample); on the Organization of a later day the holders a Plan names are
still there in their roles (`StandsLater`). The layers are those of the steps that
wait: `Dependencies` is a fold that grows one group at a time, `GrowChained` turns it
into a chain over the steps, and along it each Task waits for the layer before its
own (`DependenciesLayered`). The order of work is each Task's number of Tasks it leads to: where
none leads to itself, one it depends on leads to fewer (`OrderOfWork`).

**ResponsibilityProofs** (assumptions: "vacant", "no file" and the free lock are
none of the things they stand in for, Goals are not Responsibilities, the inventory
is a part of the Employees). `TypeCorrect`, `ToldResultsStand`, `PagesExplained`,
`ReferencesResolve`, `EndedGoalsStay`, for any number of Goals, Responsibilities and
Commands. Every action either writes one file on top of the version that is there
(`Writes`) or leaves all of them alone (`Quiet`), and most of the proof is about
these two. `IInv` says where a Command of each kind may be (`PlacesFit`), what it
holds and what was checked for it (`HoldsItsFile`, `ChecksHold`; names never
disappear, so a check stays true), that what is *held*, about to be told or told,
stands (`HeldStands`: `ToldStands` is not inductive, because the outcome is recorded
long after the write), that no page comes before its record (`PagesFollow`), and who
is to blame for a page that lags (`Blamed`). The last needs more than the property
says: a page that shows something old, or a record that is no longer active, is
never a creation's fault but a change's (whose lock keeps its record current until
its page is written, `Painters`); only this lets a creation finish well without
taking the blame away from somebody.

**OrganizationProofs** (assumptions: names are numbers and finitely many,
requests and inventories name them, "no file" is no file and the free lock no
Command). `OrganizationTypeCorrect`, `LeavesAreComplete`, `LagStaysOnRecord`,
`AlwaysRepairable`, `NoIssueIsMade`, for any names, IDs, inventories, starters and
Commands, every one of which may fail or die at any write. Commands go through their
writes one file at a time, so hardly anything holds of the documents alone.
`OrganizationIInv` says what the Command that has the lock relies on at its place
(`Stage`: what it planned is what the documents still ask for, what it has written
stands), which no other Command can disturb (`OthersKeep`); and how far its
projections lag behind the files (`LagAt`): exactly by what it has yet to write. Where
they lag by more, somebody is to blame (`Blame`): a record that is running or partial,
of a Command that is dead or is about to report the partial failure. Nobody ever loses
the blame by what another Command does (`OthersKeep` again), which is why a rename that
finds the projections in disorder may leave them so. `AlwaysRepairable` needs one more
fact, that of two files with one ID both have rows (`DuplicatesHaveRows`): no operation
makes a duplicate, and none that finds one takes the rows of its files away. That an ID
repair ends with no duplicate needs what its recursive function computes: the
duplicates are ordered by their places, a solution exists up to every place
(`ProposalsReach`), and any solution proposes IDs nobody has and no two alike
(`PlanIsSound`), so that with the repairs still to be done the files agree
(`Pending`). Rewriting references in one Project file after the other disturbs none of
this, because rewriting what is rewritten changes nothing (`RenamedTwice`,
`RepairedTwice`). `NoIssueIsMade` goes through the audit issue by issue (`IssuesAre`): a hire is new
to all names it might be confused with, a rename takes a name the audit would accept
beside everybody else, and a repair gives away IDs only (`StepChanges`).

Model-checked only:

- liveness (`EveryRunEnds`, `DueIsClaimed`, `SignalEndsDaemon`), since temporal
  reasoning about fairness is out of the prover's reach;
- the other formulas of `Views` that hold on its instance (`OpenQuestionIsNexts`,
  `VerifiedIsApproved`, `DoneHidesNothing`).

Induction over data is out of the prover's reach, since the library's induction
theorems take an operator as a parameter. The recursive functions of the Workflow
and of the ID repair, and the folds of the Session and of Planning, are reasoned
about by a least counterexample instead (the strict subset ordering of a finite set
is well founded), one function at a time. This is enough to say what the model's
functions compute step by step; what a function computes in closed form stays with
TLC.

## Observations

Where code and documents say different things, or where the code does less than a
reader would expect. 1 is a run that TLC refutes. Each formula named in 2 to 16
stands in its module with the comment "The code does not keep it"; listed as an
INVARIANT or PROPERTY of its module's cfg, TLC shows the counterexample (some need
a larger instance, given in brackets).

1. `Views.EveryOutcomeIsRecorded`: the Revision Tasks of a run are not counted
   against its Task limit (`service/reviewed_workflow_run_service.go:553`) but its
   evidence may not list more Tasks than the limit (`interaction/interaction.go:1263`).
   A run approved for one Task whose Review requests changes once completes, and
   its outcome cannot be recorded; the Session stays ready to execute, and every
   further plan is refused because nothing is left to plan. ADR-0029:51 has every
   completed run recorded. (The evidence of a *blocked* run is refused too, because
   its next step names no Task: "blocked" in `Interaction` stands in practice for
   limit_reached.)
2. `ReviewedWorkflow.TaskLimitKept`: hence the limit does not bound the Tasks a
   Command runs (ADR-0024:51, ADR-0051:58 say planned and Revision Tasks together).
3. `ReviewedWorkflow.BranchesIndependent`: parallel branches do share Revision state,
   the next Task ID. Two Reviews that request changes in one round may fail the
   Command (`runBranch`, `service/reviewed_workflow_run_service.go:820`).
4. `ReviewedWorkflow.StartsOnApproved`: a later Command starts a Task on a
   dependency that was completed but never approved (ADR-0024:55,
   `process/reviewed_workflow.go:545`). Within a Project's first Command it does
   not: `FirstStartsOnApproved`.
5. `Session.TasksStayHome`: a Plan's Tasks and dependencies may be written into
   another approval's Project. `executeClaimedProjectBootstrap`
   (`process/project_creation.go:135`) resolves the name a second time and its
   result is not used; `process/ceo_plan.go:208` says this must not happen.
6. `Session.BoundedAppliesOnce`: archiving a bounded Session changes its version, and
   with it the key of the approval reservation; a stopped approval can be repeated
   with new Tasks (ADR-0072:234).
7. `Routine.Continuity` [4 versions]: reactivating a Routine while a daemon skips its
   occurrence leaves it Active without a further one, and the operator is told of
   success (`process/routine_plan.go:146`). Health inspection does report it.
8. `TaskService.LostAuditDiagnosed` [6 versions]: recovery-inspect looks for *an*
   Event of the expected type for the Task (`service/recovery_service.go:173`), so
   the record of an earlier change hides a lost one (docs/Recovery.md:15).
9. `Recovery.FailedWithoutDeliverable`: fail_and_hold may land although the
   Deliverable was saved after the last plan: it is not part of what `FailExpected`
   compares (`service/recovery_service.go:290`; ADR-0020:30, :60).
10. `Organization.SetupFailureIsPartial`: a setup that fails at an Employee whose
    hire was committed is recorded as plainly failed if that was its first effect
    (`process/workspace_setup.go:72`; ADR-0037:30).
11. `Daemon.NothingNewAfterSignal`: after the signal the listener goes on accepting
    until the scheduler has stopped (docs/HTTPAPI.md:112, ADR-0022:39).
12. `Planning.ApprovedAsWritten`: an approved Plan may be applied with an unassigned
    Task, when its role has a second holder by then (`process/ceo_plan.go:151`;
    ADR-0039 resolves once).
13. `Views.BoundedFeedFollowsNext`: for a bounded Session that has spent its attempt
    the feed goes on asking for what `Next()` withholds
    (`interaction/interaction.go:928`, `process/attention.go`; ADR-0072).
14. `Views.NoVerdictIsInvented`: a Review that could not be saved is told as a verdict
    (`service/review_orchestration_service.go:56`,
    `service/reviewed_workflow_run_service.go:947`; ADR-0047 lets the conversation
    invent no facts).
15. `Views.NoActionAlwaysMeansDone`: the Work Report knows only the Tasks some Turn
    lists; when the process died before the Turn, "no action needed" may hide a Task
    (ADR-0035:36).
16. `Views.OfferedWorkflowCanRun`: after a crash behind the last Task, or after 1, the
    Session offers a Workflow that cannot be planned any more.

Smaller ones, seen while modelling and without a formula:

- *Scheduler.* ADR-0063 says that a crash between the claim of a Schedule and the
  claim of its target Command leaves `recovery_required`. The code (and ADR-0025)
  leaves `dispatching`, which health inspection takes for a healthy Routine; the
  theorem `OrphansStay` is what does hold of it. A tick ends at its first error and the
  next one begins with the same list: a Schedule whose claim fails for good holds up
  every one due after it (`DueIsClaimed` says no more than the code keeps), and a
  Schedule file that cannot be read, at which `List` fails, holds up all of them
  (ADR-0025:51 refuses the inventory).
- *Recovery.* A `deliverable_task_conflict` may be reported of a state that never
  existed, because Tasks and Deliverables are read one after the other. No product
  operation resumes a Task that was held with a Deliverable: it stays in conflict.
- *Daemon.* A Command that fails before its claim leaves no record, so the status
  URL of a 202 may answer 404. When the listener fails, nobody waits for accepted
  Commands. The shutdown's deadline starts only when the scheduler has stopped.
- *Organization.* sync records plain `failed` even when Workspace State was replaced
  and only the directory sync failed. A sync after an interrupted rename loses the
  row's current work. A rename that is `already_applied` repairs no projection.
- *Responsibility.* `finishDurableCommand` is called with partial = false throughout:
  a creation or transition that was committed while its page or its Event failed is
  recorded as `failed`, and its retry meets "exists" or a version conflict; the page
  is then written by the next transition only. A transition that cannot open its
  store leaves its claim running. A Responsibility may stay Active for a Goal that
  is achieved or abandoned (ADR-0061 wants no cascade).
- *Planning.* What Worker and Review services call TIMEOUT for a timeout on the
  Provider's side, CEO planning calls runner_failed. A plain answer that was cut off
  before any text is "response invalid".
- *Views.* A Session left by a crash between its pre-authorized approval and its
  Workflow is in no feed item. The conversation skips the second question when two
  answers come in one batch. "No action needed" never returns after a failure that
  was recovered. A Reviewer is shown reviewing for good after changes were
  requested.

## What is not modelled

- Text: prompts, Markdown and JSON formats, titles, wording, digests (two Plans
  with the same shape are the same Plan), similarity scores and other warnings that
  refuse nothing.
- Two reviewed Workflows on one Project at the same time: the state space of their
  branches is out of TLC's reach; their races on Tasks are `TaskService`'s.
- Time, except as events that may happen anytime (deadlines), the order of a
  Trigger's instants, and the seconds in intent file names. The calendar arithmetic
  of `NextOccurrence` and clocks that differ between processes are left out, and so
  is the Schedule's creation time: `Due` asks for it too, and callers take it from a
  time that has passed.
- Creation and manual runs of a Routine; several Routines (they share nothing but
  the Vault's directory). Goals and Responsibilities in several scopes (the same,
  another directory). Operations called without a Command ID, which claim nothing.
- Employee IDs that were duplicated *and* are missing in Workspace State: such an
  inventory blocks sync and ID repair both and is none of the initial states.
- The older sequential Workflow, which no product path starts any more; Kernel and
  composition (start and stop of a fixed list of services, before anything runs
  concurrently); Execution Policy and approval flags (pure checks of one input);
  in-memory stores (test doubles); migration of a legacy Tasks.md; Notification and
  metrics subscribers (they feed nothing back); CLI parsing, web client, acceptance
  harnesses, Keychain and launch agents (input, output and operating system calls).

## What is left

In this order, should the models be extended: two Workflows on one Project with
branches abstracted to their Vault writes; the manual run of a Routine beside its
chain; Kernel start with rollback. A theorem worth trying next: `VerifiedIsApproved`,
which needs to know that what a Turn lists was revised within the same run.
