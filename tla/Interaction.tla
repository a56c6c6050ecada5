----------------------------- MODULE Interaction -----------------------------
(* An Interaction Session as the CEO's client sees it: an append-only history *)
(* of Turns (src/go/internal/interaction/interaction.go).  The Record methods *)
(* append a Turn when May allows it; Valid replays the whole history, as every *)
(* load and save of the record does.                                          *)
(*                                                                            *)
(* A Plan is the number of its proposed Tasks and of its questions to the     *)
(* CEO; two Plans with the same numbers have the same digest.  The statuses   *)
(* of a Workflow are grouped by what the Session does with them: "blocked"    *)
(* stands for blocked and limit_reached, in practice for limit_reached (the   *)
(* evidence of a blocked run names no Task to wait for and is refused), and   *)
(* failed and partial_failure are told apart by the target their evidence     *)
(* offers: "stalled" (Revision Limit or No Progress with a stalled source     *)
(* Task), "over_budget" (Budget stop with one pending Revision Task) and      *)
(* "failed" (no target).                                                      *)
EXTENDS Naturals, Sequences, SequencesExt

CONSTANTS
    Commands,       \* the Command IDs of the requests sent for this Session
    NoCommand,
    Plans           \* the Plans the Provider may propose

ASSUME PlansAssumption ==
    /\ Plans \subseteq [tasks: Nat \ {0}, questions: Nat]
    /\ NoCommand \notin Commands

Profiles == {"standard", "bounded_acceptance"}

States == {"plan_generation_approval_required", "clarification_required",
           "plan_approval_required", "ready_to_execute", "workflow_attention_required",
           "completed", "action_completed", "action_attention_required"}

Kinds == {"plan_generation_reserved", "plan_generated", "clarification_answered",
          "plan_applied", "workflow_recorded", "revision_recovery_started",
          "action_recorded", "archived", "unarchived"}

Failures == {"stalled", "over_budget", "failed"}    \* of a Reviewed Workflow
WorkflowStatuses == {"completed", "blocked"} \cup Failures
ActionStatuses == {"published", "action_failed"}

NoPlan == [tasks |-> 0, questions |-> 0]
NoProject == <<>>    \* a Project's name is <<1>>, a suffixed one <<1, 2>>

\* A Turn of a kind, of the Command whose ID or time stamp it carries.
Turn(kind, c) == [kind |-> kind, by |-> c, plan |-> NoPlan, answers |-> 0,
                  project |-> NoProject, preauth |-> FALSE, status |-> "none"]
Reserve(c) == Turn("plan_generation_reserved", c)
Generated(c, plan) == [Turn("plan_generated", c) EXCEPT !.plan = plan]
Answered(c, n) == [Turn("clarification_answered", c) EXCEPT !.answers = n]
Applied(c, name, preauth) ==
    [Turn("plan_applied", c) EXCEPT !.project = name, !.preauth = preauth]
Worked(c, name, status) ==
    [Turn("workflow_recorded", c) EXCEPT !.project = name, !.status = status]
Acted(c, name, status) ==
    [Turn("action_recorded", c) EXCEPT !.project = name, !.status = status]

NewAnswered(profile) == [profile |-> profile, turns |-> <<>>, state |-> "clarification_required"]
New(profile) == [profile |-> profile, turns |-> <<>>,
                 state |-> "plan_generation_approval_required"]
Version(r) == Len(r.turns) + 1
-----------------------------------------------------------------------------
(* What the history says. *)

LastIndex(r, kinds) == SelectLastInSeq(r.turns, LAMBDA t: t.kind \in kinds)
Has(r, kind) == LastIndex(r, {kind}) > 0

CurrentPlan(r) ==
    IF Has(r, "plan_generated") THEN r.turns[LastIndex(r, {"plan_generated"})].plan ELSE NoPlan

AnsweredEver(r) == FoldLeft(LAMBDA n, t: n + t.answers, 0, r.turns)

\* The CEO's answers recorded since the current Plan was generated.
AnsweredCount(r) ==
    FoldLeft(LAMBDA n, t: n + t.answers, 0,
             SubSeq(r.turns, LastIndex(r, {"plan_generated"}) + 1, Len(r.turns)))

Reserved(r) == Has(r, "plan_generation_reserved")
AppliedProject(r) ==
    IF Has(r, "plan_applied") THEN r.turns[LastIndex(r, {"plan_applied"})].project ELSE NoProject
LatestWorkflow(r) ==
    IF Has(r, "workflow_recorded") THEN r.turns[LastIndex(r, {"workflow_recorded"})].status ELSE "none"
IsArchived(r) ==
    LET i == LastIndex(r, {"archived", "unarchived"}) IN i > 0 /\ r.turns[i].kind = "archived"

\* The Reviewed Workflow is approved already, as the latest Turn says.
PendingWorkflowPreAuthorization(r) ==
    /\ r.state = "ready_to_execute"
    /\ Last(r.turns).kind = "plan_applied"
    /\ Last(r.turns).preauth

\* The operation Next() names for the client; "inspect" and "done" name none.
Offered(r) ==
    LET bounded == r.profile = "bounded_acceptance" IN
    CASE r.state = "plan_generation_approval_required" ->
           IF bounded /\ Reserved(r) THEN "inspect" ELSE "generate"
      [] r.state = "clarification_required" -> IF bounded THEN "inspect" ELSE "answer"
      [] r.state = "plan_approval_required" -> "approve"
      [] r.state = "ready_to_execute" ->
           IF PendingWorkflowPreAuthorization(r) THEN "inspect" ELSE "workflow"
      [] r.state = "workflow_attention_required" ->
           IF LatestWorkflow(r) \in {"stalled", "over_budget"} THEN "recover" ELSE "inspect"
      [] r.state = "completed" -> "action"
      [] r.state = "action_attention_required" -> "inspect"
      [] r.state = "action_completed" -> "done"
-----------------------------------------------------------------------------
(* Validate: the history replayed from its first Turn. *)

\* The state a Workflow or an Action outcome leads to.
AfterWorkflow(status) == CASE status = "completed" -> "completed"
                           [] status = "blocked" -> "ready_to_execute"
                           [] OTHER -> "workflow_attention_required"
AfterAction(status) ==
    IF status = "published" THEN "action_completed" ELSE "action_attention_required"

Fresh(profile) == [ok |-> TRUE, bounded |-> profile = "bounded_acceptance",
                   state |-> "plan_generation_approval_required", plan |-> NoPlan, answered |-> 0,
                   reservedBy |-> NoCommand, project |-> NoProject, worked |-> FALSE, archived |-> FALSE]

\* What the replay demands of a Turn, seen after the ones before it (a).
Fits(a, t) ==
    CASE t.kind = "plan_generation_reserved" ->
           a.bounded /\ a.state = "plan_generation_approval_required" /\ a.reservedBy = NoCommand
      [] t.kind = "plan_generated" ->
           /\ a.state = "plan_generation_approval_required"
           /\ a.bounded => a.reservedBy = t.by
      [] t.kind = "clarification_answered" ->
           /\ a.state = "clarification_required"
           /\ t.answers > 0
           /\ a.answered + t.answers <= a.plan.questions
      [] t.kind = "plan_applied" -> a.state = "plan_approval_required" /\ t.project # NoProject
      [] t.kind = "workflow_recorded" -> a.state = "ready_to_execute" /\ t.project = a.project
      [] t.kind = "revision_recovery_started" -> a.state = "workflow_attention_required"
      [] t.kind = "action_recorded" -> a.state = "completed" /\ a.worked /\ t.project = a.project
      [] t.kind = "archived" -> ~a.archived
      [] t.kind = "unarchived" -> a.archived

Replay(a, t) ==
    IF ~a.ok \/ ~Fits(a, t) THEN [a EXCEPT !.ok = FALSE]
    ELSE CASE t.kind = "plan_generation_reserved" -> [a EXCEPT !.reservedBy = t.by]
           [] t.kind = "plan_generated" ->
                [a EXCEPT !.plan = t.plan, !.answered = 0,
                          !.state = IF t.plan.questions > 0 THEN "clarification_required"
                                    ELSE "plan_approval_required"]
           [] t.kind = "clarification_answered" ->
                [a EXCEPT !.answered = @ + t.answers,
                          !.state = IF a.answered + t.answers = a.plan.questions
                                    THEN "plan_generation_approval_required" ELSE @]
           [] t.kind = "plan_applied" -> [a EXCEPT !.project = t.project, !.state = "ready_to_execute"]
           [] t.kind = "workflow_recorded" -> [a EXCEPT !.worked = TRUE, !.state = AfterWorkflow(t.status)]
           [] t.kind = "revision_recovery_started" -> [a EXCEPT !.state = "ready_to_execute"]
           [] t.kind = "action_recorded" -> [a EXCEPT !.state = AfterAction(t.status)]
           [] t.kind = "archived" -> [a EXCEPT !.archived = TRUE]
           [] t.kind = "unarchived" -> [a EXCEPT !.archived = FALSE]

Replayed(r) == FoldLeft(Replay, Fresh(r.profile), r.turns)
Valid(r) == Replayed(r).ok /\ Replayed(r).state = r.state
-----------------------------------------------------------------------------
(* The Record methods: when a Turn may be appended, and the record it makes. *)

May(r, t) ==
    CASE t.kind = "plan_generation_reserved" ->
           /\ r.profile = "bounded_acceptance"
           /\ r.state = "plan_generation_approval_required"
           /\ ~Reserved(r)
      [] t.kind = "plan_generated" ->
           /\ r.state = "plan_generation_approval_required"
           /\ r.profile = "bounded_acceptance" => Reserved(r)
      [] t.kind = "clarification_answered" ->
           /\ r.state = "clarification_required"
           /\ t.answers > 0
           /\ AnsweredCount(r) + t.answers <= CurrentPlan(r).questions
      [] t.kind = "plan_applied" -> r.state = "plan_approval_required" /\ t.project # NoProject
      [] t.kind = "workflow_recorded" -> r.state = "ready_to_execute" /\ t.project = AppliedProject(r)
      [] t.kind = "revision_recovery_started" -> r.state = "workflow_attention_required"
      [] t.kind = "action_recorded" ->
           /\ r.state = "completed"
           /\ LatestWorkflow(r) # "none"
           /\ t.project = AppliedProject(r)
      [] t.kind = "archived" -> ~IsArchived(r)
      [] t.kind = "unarchived" -> IsArchived(r)

StateAfter(r, t) ==
    CASE t.kind = "plan_generated" ->
           IF t.plan.questions > 0 THEN "clarification_required" ELSE "plan_approval_required"
      [] t.kind = "clarification_answered" ->
           IF AnsweredCount(r) + t.answers = CurrentPlan(r).questions
           THEN "plan_generation_approval_required" ELSE "clarification_required"
      [] t.kind \in {"plan_applied", "revision_recovery_started"} -> "ready_to_execute"
      [] t.kind = "workflow_recorded" -> AfterWorkflow(t.status)
      [] t.kind = "action_recorded" -> AfterAction(t.status)
      [] OTHER -> r.state

\* A bounded Session's Plan Turn carries the reserving Command, whoever calls.
Stamped(r, t) ==
    IF t.kind = "plan_generated" /\ Reserved(r)
    THEN [t EXCEPT !.by = r.turns[LastIndex(r, {"plan_generation_reserved"})].by] ELSE t

Appended(r, t) ==
    [r EXCEPT !.turns = Append(@, Stamped(r, t)), !.state = StateAfter(r, t)]

CanTransitionUnordered(current, next, expectedVersion) ==
    Valid(current) /\ Valid(next) /\ current.profile = next.profile

\* ValidateTransition: what the store demands before it replaces the record.
CanTransition(current, next, expectedVersion) ==
    /\ Valid(current) /\ Valid(next)
    /\ current.profile = next.profile
    /\ Version(current) = expectedVersion
    /\ Version(next) = Version(current) + 1
    /\ IsStrictPrefix(current.turns, next.turns)
=============================================================================
