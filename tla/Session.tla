------------------------------- MODULE Session -------------------------------
(* One Interaction Session and the Commands that drive it (process/interaction*.go). *)
(* Nothing serialises the Commands: each reads the record, works on Projects, *)
(* Providers and publishers, and appends a Turn with a compare and set on the *)
(* record's version.  A Command runs once (CommandLedger) and undoes nothing, *)
(* so one that is refused, fails or crashes, before a step or just after it,  *)
(* is one that takes no further step: nobody resumes it, and nobody reads     *)
(* what it held in memory.                                                    *)
EXTENDS Interaction, FiniteSets, FiniteSetsExt

CONSTANTS
    Ops,            \* the operations the client sends
    MaxSuffix       \* maxProjectNameSuffix: a taken name is tried as "<name> (n)" up to it

ASSUME OpsAssumption ==
    /\ Ops \subseteq {"start", "generate", "answer", "apply", "approve", "workflow",
                      "recover", "action", "archive", "unarchive"}
    /\ MaxSuffix \in Nat \ {0}

VARIABLES
    session,        \* the stored record, or NoSession
    proc,           \* what each Command has read and is about to do
    claims,         \* approval reservations consumed in the Command Ledger
    projects,       \* the Projects of the Vault, by name
    calls,          \* the Commands that called the planning Provider
    runs,           \* the Commands that ran a Reviewed Workflow
    intents, posts, outcomes    \* publication: saved Intents, posts made, saved Outcomes

vars == <<session, proc, claims, projects, calls, runs, intents, posts, outcomes>>
effects == <<claims, projects, calls, runs, intents, posts, outcomes>>

NoSession == [profile |-> "none", turns |-> <<>>, state |-> "none"]
Idle == [pc |-> "idle", op |-> "none", at |-> 0, record |-> NoSession,
         turn |-> Turn("none", NoCommand), name |-> NoProject]

Init ==
    /\ session = NoSession
    /\ proc = [c \in Commands |-> Idle]
    /\ claims = {} /\ projects = <<>> /\ calls = {} /\ runs = {}
    /\ intents = {} /\ posts = {} /\ outcomes = {}

Exists == session # NoSession
Bounded(r) == r.profile = "bounded_acceptance"

\* The Command moves on, holding what h says.
To(c, pc) == proc' = [proc EXCEPT ![c].pc = pc]
Holds(c, pc, h) == proc' = [proc EXCEPT ![c] = [h EXCEPT !.pc = pc]]
\* The Command has decided on a Turn for the record it read, if the record allows it.
Decides(c, r, turn) ==
    IF May(r, turn) THEN Holds(c, "write", [proc[c] EXCEPT !.record = r, !.turn = turn])
    ELSE Holds(c, "refused", Idle)

\* The client sends a request against the version it has seen last.
Submit(c, op) ==
    /\ proc[c].pc = "idle"
    /\ op = "start" <=> ~Exists
    /\ Holds(c, "begin", [Idle EXCEPT !.op = op, !.at = IF Exists THEN Version(session) ELSE 0])
    /\ UNCHANGED <<session, effects>>

Begins(c, op) == proc[c].pc = "begin" /\ proc[c].op = op

\* Get found the version the request was made against.
Reads(c, state) == Exists /\ Version(session) = proc[c].at /\ session.state = state
-----------------------------------------------------------------------------
(* Planning *)

Create(c, profile) ==
    /\ Begins(c, "start")
    /\ ~Exists
    /\ session' = New(profile)
    /\ Holds(c, "generate", [proc[c] EXCEPT !.record = New(profile), !.at = 1])
    /\ UNCHANGED effects

GenerateUnreserved(c) ==
    /\ Begins(c, "generate") \/ proc[c].pc = "generate"
    /\ Reads(c, "plan_generation_approval_required")
    /\ Holds(c, "planner", [proc[c] EXCEPT !.record = session])
    /\ UNCHANGED <<session, effects>>

\* A bounded Session's single attempt is reserved before the Provider is called.
Generate(c) ==
    /\ Begins(c, "generate") \/ proc[c].pc = "generate"
    /\ Reads(c, "plan_generation_approval_required")
    /\ IF Bounded(session)
       THEN ~Reserved(session) /\ Decides(c, session, Reserve(c))
       ELSE Holds(c, "planner", [proc[c] EXCEPT !.record = session])
    /\ UNCHANGED <<session, effects>>

CallPlanner(c, plan) ==
    /\ proc[c].pc = "planner"
    /\ calls' = calls \cup {c}
    /\ Decides(c, proc[c].record, Generated(c, plan))
    /\ UNCHANGED <<session, claims, projects, runs, intents, posts, outcomes>>

Answer(c, n) ==
    /\ Begins(c, "answer")
    /\ Reads(c, "clarification_required")
    /\ ~Bounded(session)
    /\ Decides(c, session, Answered(c, n))
    /\ UNCHANGED <<session, effects>>
-----------------------------------------------------------------------------
(* Applying a Plan *)

OpenPlan(c) ==
    /\ Begins(c, "apply") \/ Begins(c, "approve")
    /\ Reads(c, "plan_approval_required")
    /\ IF Bounded(session)
       THEN /\ proc[c].op = "approve"
            /\ CurrentPlan(session).tasks = 1
            /\ Holds(c, "claim", [proc[c] EXCEPT !.record = session])
       ELSE Holds(c, "resolve", [proc[c] EXCEPT !.record = session])
    /\ UNCHANGED <<session, effects>>

\* The ID a bounded approval reserves (DeriveApprovalReservationID).
Target(c) == <<proc[c].at, CurrentPlan(proc[c].record)>>

Claim(c) ==
    /\ proc[c].pc = "claim"
    /\ Target(c) \notin claims
    /\ claims' = claims \cup {Target(c)}
    /\ To(c, "resolve")
    /\ UNCHANGED <<session, projects, calls, runs, intents, posts, outcomes>>

\* resolveProjectDirectoryName: the name itself, or its first free suffix.
Free(name) == name \notin DOMAIN projects
Suffixed(name) == {Append(name, n) : n \in 2 .. MaxSuffix}
Resolved(name) ==
    IF Free(name) THEN {name}
    ELSE {s \in Suffixed(name) :
             Free(s) /\ \A u \in Suffixed(name) : Last(u) < Last(s) => ~Free(u)}

Resolve(c) ==
    /\ proc[c].pc = "resolve"
    /\ \E name \in Resolved(<<1>>) : Holds(c, "bootstrap", [proc[c] EXCEPT !.name = name])
    /\ UNCHANGED <<session, effects>>

\* The name is resolved again, and the Project created where it is free.
Bootstrap(c) ==
    /\ proc[c].pc = "bootstrap"
    /\ \E name \in Resolved(proc[c].name) :
          projects' = [p \in DOMAIN projects \cup {name} |->
                          IF p = name THEN [owner |-> c, tasks |-> {}, dependencies |-> NoCommand]
                          ELSE projects[p]]
    /\ To(c, "tasks")
    /\ UNCHANGED <<session, claims, calls, runs, intents, posts, outcomes>>

TasksOf(c, name) == {t \in projects[name].tasks : t[1] = c}

CreateFirstTask(c) ==
    /\ proc[c].pc = "tasks"
    /\ projects' = [projects EXCEPT ![proc[c].name].tasks = @ \cup {<<c, 1>>}]
    /\ To(c, "dependencies")
    /\ UNCHANGED <<session, claims, calls, runs, intents, posts, outcomes>>

\* One Task of the Plan after the other, in the Project of the name resolved first.
CreateTask(c) ==
    LET name == proc[c].name
        done == Cardinality(TasksOf(c, name)) + 1 IN
    /\ proc[c].pc = "tasks"
    /\ projects' = [projects EXCEPT ![name].tasks = @ \cup {<<c, done>>}]
    /\ IF done = CurrentPlan(proc[c].record).tasks THEN To(c, "dependencies") ELSE UNCHANGED proc
    /\ UNCHANGED <<session, claims, calls, runs, intents, posts, outcomes>>

CreateDependencies(c) ==
    LET name == proc[c].name IN
    /\ proc[c].pc = "dependencies"
    /\ projects[name].dependencies = NoCommand
    /\ projects' = [projects EXCEPT ![name].dependencies = c]
    /\ Decides(c, proc[c].record, Applied(c, name, proc[c].op = "approve"))
    /\ UNCHANGED <<session, claims, calls, runs, intents, posts, outcomes>>
-----------------------------------------------------------------------------
(* The Reviewed Workflow, its recovery, and the publication of its result *)

\* The standalone operation is refused to a bounded Session.
PlanWorkflow(c) ==
    /\ \/ Begins(c, "workflow") /\ ~Bounded(session)
       \/ proc[c].pc = "plan_workflow"
    /\ Reads(c, "ready_to_execute")
    /\ Holds(c, "run", [proc[c] EXCEPT !.record = session])
    /\ UNCHANGED <<session, effects>>

\* ReviewedWorkflow models the run itself; a bounded contract forbids Revisions.
RunWorkflow(c, status) ==
    /\ proc[c].pc = "run"
    /\ Bounded(proc[c].record) => status \in {"completed", "blocked", "failed"}
    /\ runs' = runs \cup {c}
    /\ Decides(c, proc[c].record, Worked(c, AppliedProject(proc[c].record), status))
    /\ UNCHANGED <<session, claims, projects, calls, intents, posts, outcomes>>

Recover(c) ==
    /\ Begins(c, "recover")
    /\ Reads(c, "workflow_attention_required")
    /\ ~Bounded(session)
    /\ Offered(session) = "recover"
    /\ Decides(c, session, Turn("revision_recovery_started", c))
    /\ UNCHANGED <<session, effects>>

PlanAction(c) ==
    /\ Begins(c, "action")
    /\ Reads(c, "completed")
    /\ Holds(c, "intent", [proc[c] EXCEPT !.record = session])
    /\ UNCHANGED <<session, effects>>

SaveIntent(c) ==
    /\ proc[c].pc = "intent"
    /\ c \notin intents
    /\ intents' = intents \cup {c}
    /\ To(c, "publish")
    /\ UNCHANGED <<session, claims, projects, calls, runs, posts, outcomes>>

Publish(c) ==
    /\ proc[c].pc = "publish"
    /\ posts' = posts \cup {c}
    /\ To(c, "outcome")
    /\ UNCHANGED <<session, claims, projects, calls, runs, intents, outcomes>>

SaveOutcome(c) ==
    /\ proc[c].pc = "outcome"
    /\ c \in intents
    /\ outcomes' = outcomes \cup {c}
    /\ Decides(c, proc[c].record, Acted(c, AppliedProject(proc[c].record), "published"))
    /\ UNCHANGED <<session, claims, projects, calls, runs, intents, posts>>

\* Saving or posting failed, or was done and reported as failed: the failure is recorded.
ActionFails(c) ==
    LET did(pc, done) == IF proc[c].pc = pc THEN {done, done \cup {c}} ELSE {done} IN
    /\ proc[c].pc \in {"intent", "publish", "outcome"}
    /\ intents' \in did("intent", intents)
    /\ posts' \in did("publish", posts)
    /\ outcomes' \in did("outcome", outcomes)
    /\ Decides(c, proc[c].record, Acted(c, AppliedProject(proc[c].record), "action_failed"))
    /\ UNCHANGED <<session, claims, projects, calls, runs>>

Toggle(c) ==
    /\ Begins(c, "archive") \/ Begins(c, "unarchive")
    /\ Exists /\ Version(session) = proc[c].at
    /\ Decides(c, session, Turn(IF proc[c].op = "archive" THEN "archived" ELSE "unarchived", c))
    /\ UNCHANGED <<session, effects>>
-----------------------------------------------------------------------------
(* Appending the Turn *)

\* What the Command does once its Turn is stored in r.
Continues(op, r) ==
    LET kind == Last(r.turns).kind IN
    CASE kind = "plan_generation_reserved" -> "planner"
      [] kind = "clarification_answered" /\ r.state = "plan_generation_approval_required" -> "generate"
      [] kind = "plan_applied" /\ op = "approve" -> "plan_workflow"
      [] kind = "revision_recovery_started" -> "plan_workflow"
      [] OTHER -> "succeeded"

\* InteractionStore.Update, under the record's file lock.
Write(c) ==
    LET next == Appended(proc[c].record, proc[c].turn) IN
    /\ proc[c].pc = "write"
    /\ CanTransition(session, next, Version(proc[c].record))
    /\ session' = next
    /\ Holds(c, Continues(proc[c].op, next),
                [proc[c] EXCEPT !.record = next, !.at = Version(next),
                                !.turn = Idle.turn, !.name = NoProject])
    /\ UNCHANGED effects

Step(c) ==
    \/ \E op \in Ops : Submit(c, op)
    \/ \E profile \in Profiles : Create(c, profile)
    \/ Generate(c)
    \/ \E plan \in Plans : CallPlanner(c, plan)
    \/ \E plan \in Plans : \E n \in 1 .. plan.questions : Answer(c, n)
    \/ OpenPlan(c) \/ Claim(c) \/ Resolve(c) \/ Bootstrap(c) \/ CreateTask(c) \/ CreateDependencies(c)
    \/ PlanWorkflow(c)
    \/ \E status \in WorkflowStatuses : RunWorkflow(c, status)
    \/ Recover(c)
    \/ PlanAction(c) \/ SaveIntent(c) \/ Publish(c) \/ SaveOutcome(c) \/ ActionFails(c)
    \/ Toggle(c) \/ Write(c)

Next == \E c \in Commands : Step(c)
Spec == Init /\ [][Next]_vars
-----------------------------------------------------------------------------
(* Properties *)

Turns == {Turn(k, c) : k \in Kinds, c \in Commands}
         \cup {Generated(c, p) : c \in Commands, p \in Plans}
         \cup {Answered(c, n) : c \in Commands, n \in 1 .. 3}
         \cup {Worked(c, p, s) : c \in Commands, p \in DOMAIN projects, s \in WorkflowStatuses}
         \cup {Applied(c, p, b) : c \in Commands, p \in DOMAIN projects, b \in BOOLEAN}
         \cup {Acted(c, p, s) : c \in Commands, p \in DOMAIN projects, s \in ActionStatuses}

\* Type invariant: the stored record is valid, and every Command holds a valid one.
TypeOK ==
    /\ Exists => session.profile \in Profiles /\ session.state \in States /\ Valid(session)
    /\ \A c \in Commands :
          /\ proc[c].op \in Ops \cup {"none"}
          /\ proc[c].record = NoSession \/ Valid(proc[c].record)
    /\ \A name \in DOMAIN projects :
          /\ projects[name].owner \in Commands
          /\ projects[name].dependencies \in Commands \cup {NoCommand}
          /\ projects[name].tasks \subseteq Commands \X (Nat \ {0})
    /\ UNION {calls, runs, intents, posts, outcomes} \subseteq Commands

\* The Record methods append exactly the Turns that the replay on load accepts: no
\* history can be written that cannot be read back (the record would be lost), and
\* none is accepted that no method writes (interaction.go Validate against RecordX).
MethodsAgreeWithReplay ==
    Exists =>
        LET before == Replayed(session) IN
        \A t \in Turns :
            LET after == Replay(before, Stamped(session, t)) IN
            May(session, t) <=> after.ok /\ after.state = StateAfter(session, t)

\* A Command that answered success has its Turns in the Session for good: no
\* Command that read an older version overwrote them (InteractionStore.Update).
ToldIsRecorded ==
    \A c \in Commands :
        proc[c].pc = "succeeded" =>
            IsPrefix(proc[c].record.turns, session.turns)

\* The Session tells only what was done: an applied Plan has all its Tasks and its
\* dependencies, a bounded Plan was proposed by the reserving Command's one call, a
\* recorded Workflow ran, a publication has its Intent, its post and its Outcome.
RecordedIsDone ==
    \A i \in DOMAIN session.turns :
        LET t == session.turns[i]
            c == t.by
            before == [session EXCEPT !.turns = SubSeq(@, 1, i)] IN
        CASE t.kind = "plan_generated" -> c \in calls
          [] t.kind = "plan_applied" ->
               /\ Cardinality(TasksOf(c, t.project)) = CurrentPlan(before).tasks
               /\ projects[t.project].dependencies = c
          [] t.kind = "workflow_recorded" -> c \in runs
          [] t.status = "published" -> c \in intents \cap posts \cap outcomes
          [] OTHER -> TRUE

\* A bounded Session calls the planning Provider at most once, runs at most one
\* Reviewed Workflow, and each of its Projects used up an approval of its own,
\* whatever fails, races or is sent again, by any number of clients (ADR-0072).
BoundedOnce ==
    Exists /\ Bounded(session) =>
        /\ Cardinality(calls) <= 1 /\ Cardinality(runs) <= 1
        /\ Cardinality(DOMAIN projects) <= Cardinality(claims)

\* A Plan is written only into the Project its own Command created: "writing
\* Tasks/Dependencies against [another name] would silently target a pre-existing,
\* unrelated Project" (process/ceo_plan.go:208).
\* The code does not keep it (README, Observations).
TasksStayHome ==
    \A name \in DOMAIN projects :
        \A t \in projects[name].tasks : t[1] = projects[name].owner

\* A bounded Session is applied once: after an approval that stopped half way, new
\* reservations and new Tasks are refused for good (ADR-0072, section 4).
\* The code does not keep it (README, Observations).
BoundedAppliesOnce ==
    Exists /\ Bounded(session) => Cardinality(DOMAIN projects) <= 1
=============================================================================
