-------------------------------- MODULE Views --------------------------------
(* What the CEO is shown of a Session: the attention feed, the conversation,  *)
(* the Work Report and the company activity (process/attention.go,            *)
(* conversation.go, work_report.go, company_activity.go).  No view keeps      *)
(* anything: each is computed anew from the Session's record, the Task        *)
(* evidence its Workflow Turns list, and what the Vault and the Command       *)
(* Ledger say of those Tasks now.                                             *)
EXTENDS SessionWork

(* The attention feed *)

Item(type, action, operation) == [type |-> type, action |-> action, operation |-> operation]
NoItem == Item("none", "none", "none")

\* Mutation: what is approved already is asked for again.
AttentionItemAsksAgain(r) ==
    CASE r.state = "plan_generation_approval_required" ->
           Item("approval_required", "approve", "generate")
      [] r.state = "clarification_required" -> Item("human_input_required", "answer", "answer")
      [] r.state = "plan_approval_required" -> Item("approval_required", "approve", "approve")
      [] r.state = "ready_to_execute" -> Item("approval_required", "approve", "workflow")
      [] r.state = "workflow_attention_required" ->
           IF Offered(r) = "recover" THEN Item("interaction_attention_required", "resume", "recover")
           ELSE Item("interaction_attention_required", "inspect", "none")
      [] r.state = "action_attention_required" ->
           Item("interaction_attention_required", "inspect", "none")
      [] OTHER -> NoItem

\* interactionAttentionItem.
AttentionItem(r) ==
    CASE r.state = "plan_generation_approval_required" ->
           Item("approval_required", "approve", "generate")
      [] r.state = "clarification_required" -> Item("human_input_required", "answer", "answer")
      [] r.state = "plan_approval_required" -> Item("approval_required", "approve", "approve")
      [] r.state = "ready_to_execute" /\ ~PendingWorkflowPreAuthorization(r) ->
           Item("approval_required", "approve", "workflow")
      [] r.state = "workflow_attention_required" ->
           IF Offered(r) = "recover" THEN Item("interaction_attention_required", "resume", "recover")
           ELSE Item("interaction_attention_required", "inspect", "none")
      [] r.state = "action_attention_required" ->
           Item("interaction_attention_required", "inspect", "none")
      [] OTHER -> NoItem

Feed == IF IsArchived(stored) THEN {} ELSE {AttentionItem(stored)} \ {NoItem}
-----------------------------------------------------------------------------
(* The conversation *)

Entry(kind) == [kind |-> kind, task |-> 0, number |-> 0, verdict |-> "none", review |-> "none"]
About(kind, t) == [Entry(kind) EXCEPT !.task = t]
Question(n) == [Entry("clarification_requested") EXCEPT !.number = n]
If(condition, entry) == IF condition THEN <<entry>> ELSE <<>>

\* latestPlanBefore: the index of the Plan's Turn, 0 for none.
LatestPlanBefore(turns, i) ==
    SelectLastInSeq(SubSeq(turns, 1, i - 1), LAMBDA t: t.kind = "plan_generated")

AnswersIn(turns, a, b) == FoldLeft(LAMBDA n, t: n + t.answers, 0, SubSeq(turns, a, b))

ClarificationRequestedEntries(turn) == If(turn.plan.questions > 0, Question(1))

\* clarificationAnswerEntries: the answers, then the next question if there is one.
ClarificationAnswerEntries(turns, i) ==
    LET p == LatestPlanBefore(turns, i)
        answeredThrough == AnswersIn(turns, p + 1, i) IN
    [n \in 1 .. turns[i].answers |-> Entry("ceo_clarification_answer")]
    \o If(p > 0 /\ answeredThrough < turns[p].plan.questions, Question(answeredThrough + 1))

TaskAssignedEntries(turns, i) ==
    [t \in 1 .. turns[LatestPlanBefore(turns, i)].plan.tasks |-> About("task_assigned", t)]

\* The verdict is the Turn's; what the Reviewer said is read from the Vault.
WorkflowTaskConversationEntries(e) ==
    LET t == e.task IN
    If(tasks[t].saved, About("deliverable_ready", t))
    \o If(e.targeted, About("revision_completed", t))
    \o If(e.verdict # "none",
          [About("review", t) EXCEPT !.verdict = e.verdict, !.review = tasks[t].verdict])
    \o If(tasks[t].status = "completed", About("task_completed", t))

TurnEntries(turns, i) ==
    LET turn == turns[i] IN
    CASE turn.kind = "plan_generated" -> ClarificationRequestedEntries(turn)
      [] turn.kind = "clarification_answered" -> ClarificationAnswerEntries(turns, i)
      [] turn.kind = "plan_applied" -> TaskAssignedEntries(turns, i)
      [] turn.kind = "workflow_recorded" ->
           FlattenSeq([j \in DOMAIN worked[turn.by] |->
                          WorkflowTaskConversationEntries(worked[turn.by][j])])
           \o If(turn.status \in Failures, Entry("failure"))
      [] turn.kind = "action_recorded" -> If(turn.status = "action_failed", Entry("failure"))
      [] OTHER -> <<>>

Conversation ==
    <<Entry("ceo_request")>>
    \o FlattenSeq([i \in DOMAIN stored.turns |-> TurnEntries(stored.turns, i)])
    \o If(stored.state \in {"completed", "action_completed"}, Entry("request_completed"))
-----------------------------------------------------------------------------
(* The Work Report: of each Task, the evidence that was recorded first. *)

\* The evidence of the Workflow Turns, in the order in which they were recorded.
Evidence ==
    FlattenSeq([i \in DOMAIN stored.turns |->
                   IF stored.turns[i].kind = "workflow_recorded" THEN worked[stored.turns[i].by] ELSE <<>>])
Reported == {Evidence[i].task : i \in DOMAIN Evidence}
First(t) == Evidence[SelectInSeq(Evidence, LAMBDA e: e.task = t)]

ChildCommands(t) ==
    LET e == First(t) IN
    {<<e.by, "execute", t>>}
    \cup IF e.review THEN {<<e.by, "review", t>>} ELSE {}
    \cup IF e.revise THEN {<<e.by, "revise", t>>} ELSE {}

Occurred(t) == RevisionsOf(t) # {} \/ First(t).revision # 0
IntentCommitted(t) == RevisionsOf(t) # {}

\* populateTaskProof.
Verified(t) ==
    /\ tasks[t].status = "completed" /\ tasks[t].saved
    /\ \/ tasks[t].verdict = "approve"
       \/ tasks[t].verdict = "request_changes" /\ IntentCommitted(t)
    /\ Cardinality(ChildCommands(t)) >= 2 /\ ChildCommands(t) \subseteq succeeded
    /\ Occurred(t) => IntentCommitted(t)

RecoveryAttention ==
    Cardinality({i \in DOMAIN stored.turns :
                    stored.turns[i].status \in Failures \cup {"action_failed"}})

\* externalActionProof, of the last Action.
ExternalActionVerified ==
    Has(stored, "action_recorded") =>
        stored.turns[LastIndex(stored, {"action_recorded"})].status = "published"

FullyVerified ==
    /\ Reported # {} /\ \A t \in Reported : Verified(t)
    /\ RecoveryAttention = 0
    /\ ExternalActionVerified

\* Mutation: the Session need not have come to its end.
NoActionNeededEarly == FullyVerified

NoActionNeeded == stored.state \in {"completed", "action_completed"} /\ FullyVerified
-----------------------------------------------------------------------------
(* The company activity: of the Maker and of the Reviewer, the status of the  *)
(* highest priority.  The child Commands of a recorded Turn have ended, so    *)
(* the statuses for running ones never show.                                  *)

Shows(priority, status) == [priority |-> priority, status |-> status]

MakerActivity(t) ==
    CASE tasks[t].status = "in_progress" -> Shows(50, "working")
      [] Occurred(t) /\ tasks[t].status \notin {"in_progress", "completed"} -> Shows(35, "revising")
      [] tasks[t].status = "completed" /\ tasks[t].verdict = "none" -> Shows(20, "working")
      [] tasks[t].status = "completed" -> Shows(10, "completed")
      [] OTHER -> Shows(0, "standby")

ReviewerActivity(t) ==
    CASE tasks[t].saved /\ tasks[t].verdict = "none" -> Shows(30, "reviewing")
      [] tasks[t].verdict = "request_changes" -> Shows(15, "reviewing")
      [] tasks[t].verdict = "approve" -> Shows(10, "completed")
      [] OTHER -> Shows(0, "standby")

\* considerEmployee, over the Tasks of the report.
DisplayStatus(activity) ==
    IF Reported = {} THEN "standby"
    ELSE LET t == CHOOSE t \in Reported : \A u \in Reported :
                      activity[u].priority <= activity[t].priority
         IN  activity[t].status
-----------------------------------------------------------------------------
(* Properties *)

\* The state is typed, and the Session's record can be read back.
WorkTypeOK ==
    /\ Valid(stored)
    /\ stored.profile \in Profiles /\ stored.state \in States
    /\ \A c \in Commands : \A i \in DOMAIN worked[c] :
          worked[c][i] \in [by : Commands, task : Ids, targeted : BOOLEAN, review : BOOLEAN,
                            verdict : Verdicts, revise : BOOLEAN, revision : {0} \cup Ids]
    /\ tasks \in [Ids -> [status : Statuses, saved : BOOLEAN, verdict : Verdicts, source : {0} \cup Ids]]
    /\ succeeded \subseteq Commands \X {"execute", "review", "revise"} \X Ids
    /\ run.pc \in Points /\ run.end \in Ends /\ run.queue \subseteq Ids
    /\ used \in {0} \cup Commands
    /\ lost \in BOOLEAN

\* The feed's own switch over the states and Next() classify a standard
\* Session alike, whatever its history: the CEO is asked for what Next()
\* offers, and for nothing where Next() asks for nothing (attention.go says
\* that the operation is copied from the record).
FeedFollowsNext ==
    ~IsBounded /\ ~IsArchived(stored) =>
        LET offered == Offered(stored)
            item == AttentionItem(stored) IN
        CASE offered \in {"done", "action"} -> Feed = {}
          [] offered = "inspect" -> item = NoItem \/ item.action = "inspect"
          [] OTHER -> item.operation = offered

\* The same of bounded Sessions, whose one attempt must never be offered a
\* second time (interaction.go, ADR-0072).
\* The code does not keep it (README, Observations).
BoundedFeedFollowsNext ==
    IsBounded /\ Offered(stored) = "inspect" => \A item \in Feed : item.action = "inspect"

\* The question the conversation ends on is the one that Next() asks for,
\* however the answers came in batches and whatever Plans came before.
OpenQuestionIsNexts ==
    LET asked == SelectSeq(Conversation, LAMBDA e: e.kind \in {"clarification_requested",
                                                               "ceo_clarification_answer"})
        open == IF asked = <<>> THEN 0 ELSE asked[Len(asked)].number IN
    open = IF stored.state = "clarification_required" THEN AnsweredCount(stored) + 1 ELSE 0

\* What the conversation tells of a Review is what the Review in the Vault
\* says, although one comes from the Turn and the other from the Vault
\* (workflowTaskConversationEntries), unless it tells of a failure along with
\* it; work that was reviewed is there and completed.
VerdictIsTheReviews ==
    \A i \in DOMAIN stored.turns :
        LET shown == ToSet(TurnEntries(stored.turns, i)) IN
        \A e \in shown :
            e.kind = "review" =>
                /\ e.verdict = e.review \/ Entry("failure") \in shown
                /\ {About("deliverable_ready", e.task), About("task_completed", e.task)} \subseteq shown

\* The conversation invents no facts (ADR-0047): not even after a failure.
\* The code does not keep it (README, Observations).
NoVerdictIsInvented ==
    \A e \in ToSet(Conversation) : e.kind = "review" => e.verdict = e.review

Root(t) ==
    LET root[u \in Ids] == IF tasks[u].source = 0 THEN u ELSE root[tasks[u].source]
    IN  root[t]

\* The Task, or a later Revision of it.
ApprovedAtLast(t) == \E r \in Rows : r >= t /\ Root(r) = Root(t) /\ tasks[r].verdict = "approve"

\* A fully verified report means that every Task it lists, or its last
\* Revision, was approved: no Revision that is still to be worked off hides
\* behind the intent that verifies its source (populateTaskProof).
VerifiedIsApproved == FullyVerified => \A t \in Reported : ApprovedAtLast(t)

\* "No action needed" means that all of the Plan was approved, unless a run
\* went unrecorded: the report knows only the Tasks that some Turn lists.
NoActionMeansDone ==
    NoActionNeeded /\ ~lost => \A t \in 1 .. CurrentPlan(stored).tasks : ApprovedAtLast(t)

\* "Missing evidence, a partial failure or an unfinished Command is never
\* taken for success" (ADR-0035): so even after a crash.
\* The code does not keep it (README, Observations).
NoActionAlwaysMeansDone ==
    NoActionNeeded => \A t \in 1 .. CurrentPlan(stored).tasks : ApprovedAtLast(t)

\* A Maker is shown done only with no Task in progress or awaiting Review, and
\* a Reviewer only with nothing to review, whatever else they finished.
DoneHidesNothing ==
    LET Maker == [t \in Reported |-> MakerActivity(t)]
        Reviewer == [t \in Reported |-> ReviewerActivity(t)]
    IN  \A t \in Reported :
          /\ DisplayStatus(Maker) = "completed" =>
                /\ tasks[t].status # "in_progress"
                /\ (tasks[t].status = "completed" => tasks[t].verdict # "none")
          /\ DisplayStatus(Reviewer) = "completed" =>
                (tasks[t].saved => tasks[t].verdict # "none")

\* The outcome of every run that comes to its end is recorded as a Turn, so
\* that the Session lists each Task whose work the Command Ledger has as
\* succeeded (ADR-0029: of every run, evidence is appended).
EveryOutcomeIsRecorded ==
    run = NoRun /\ ~Crashes => \A child \in succeeded : child[3] \in Reported

\* A Workflow that the CEO is offered can be planned.
\* The code does not keep it (README, Observations).
OfferedWorkflowCanRun ==
    ~IsArchived(stored) /\ run = NoRun /\ Offered(stored) = "workflow" => Plannable
=============================================================================
