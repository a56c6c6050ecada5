------------------------------ MODULE Planning ------------------------------
(***************************************************************************)
(* A CEO Plan from the request to its Tasks: the Provider's Intent parsed  *)
(* (ceoplan/intent.go), turned by rule into a Plan                         *)
(* (ceoplan/intent_normalizer.go, ceoplan/plan.go, organization/           *)
(* assignment.go), and validated once more when the approved Plan is       *)
(* applied (process/ceo_plan.go), by then perhaps beside other Employees.  *)
(*                                                                         *)
(* The two readings of the Organization are days apart if the CEO likes:   *)
(* people are hired in between, and a role that had one holder has two.    *)
(* Of a Plan the model keeps the name, the summary and, of each Task, its  *)
(* title, role, assignee and dependencies; departments, risks, questions   *)
(* and the wording are left out, and a rationale is the title again.       *)
(***************************************************************************)
EXTENDS Provider

CONSTANTS
  Employees,   \* Employee IDs
  Roles,       \* role titles as they are written
  Fold,        \* [Roles -> Roles]: the title without its letter case
  Preferred,   \* the role of kindPreferredRoles for a step that writes
  MaxGeneratedTasks,
  Rosters,     \* the Organizations the model starts from
  Answers,     \* what the Provider may answer
  Written,     \* Plans that somebody wrote by hand
  Nobody       \* no assignee

\* What a JSON or YAML list is, whatever it holds.
IsList(s) == s \in Seq(Range(s))

ASSUME PlanningAssumption ==
  /\ Fold \in [Roles -> Roles]
  /\ Preferred \in Roles
  /\ MaxGeneratedTasks \in Nat
  /\ \A known \in Rosters : known \subseteq [id : Employees, role : Roles] /\ IsFiniteSet(known)
  /\ \A given \in Written : given.assigned \subseteq Employees /\ IsList(given.tasks)
  /\ \A answer \in Answers.plan : answer.kind \in {"error", "status", "garbled"} \/ IsList(answer.says.steps)
  /\ Nobody \notin Employees /\ "" \notin Roles

VARIABLES
  roster,    \* the Employees: a set of [id, role]; IDs may be taken twice
  stage,     \* where the Plan is
  seen,      \* the Employees that were there when the Provider was asked
  work,      \* the steps of the Intent that became Tasks
  plan,      \* the Plan, generated or written
  applied,   \* what applying it made
  told       \* what the last Command recorded of its Provider call

vars == <<roster, stage, seen, work, plan, applied, told>>

-----------------------------------------------------------------------------
(***************************************************************************)
(* Assignment                                                              *)
(***************************************************************************)

IDs(employees) == {e.id : e \in employees}

\* employeeIndex: no ID twice.
Indexed(employees) == \A e, f \in employees : e.id = f.id => e = f

Holders(role, employees) == {e \in employees : Fold[e.role] = Fold[role]}

\* ResolveTaskAssignment for a role and a proposed Employee, if any.
Resolve(role, proposed, employees) ==
  LET named   == {e \in employees : e.id = proposed}
      actual  == IF proposed = Nobody \/ named = {} THEN role ELSE (CHOOSE e \in named : TRUE).role
      holders == IF actual = "" THEN {} ELSE Holders(actual, employees)
      result(status, title, id) == [status |-> status, role |-> title, id |-> id]
  IN IF proposed # Nobody /\ named = {} THEN result("error", "", Nobody)
     ELSE IF proposed # Nobody /\ role # "" /\ Fold[actual] # Fold[role] THEN result("error", "", Nobody)
     ELSE IF actual = "" THEN result("missing", "", Nobody)
     ELSE IF holders = {} THEN result("no_match", actual, Nobody)
     ELSE IF Cardinality(holders) > 1 THEN result("ambiguous", actual, Nobody)
     ELSE LET only == CHOOSE e \in holders : TRUE
          IN  result("resolved", only.role, only.id)

-----------------------------------------------------------------------------
(***************************************************************************)
(* From what the Provider said to an Intent                                *)
(***************************************************************************)

StepKinds == {"write", "research", "analyze", "implement", "review"}

\* The first thing wrong with a step; "" if it can be used.
StepFault(step) ==
  IF step.kind = "" THEN "missing_required_field"
  ELSE IF step.kind \notin StepKinds THEN "unknown_step_kind"
  ELSE IF step.desc = "" THEN "missing_required_field"
  ELSE IF step.role = "null" THEN "json_decode_failed"
  ELSE IF step.kind # "review" /\ step.role \in {"absent", ""} THEN "missing_required_field"
  ELSE IF step.kind = "review" /\ step.role = "" THEN "missing_required_field"
  ELSE ""

\* The first entry of a sequence of faults that is one.
FirstFault(faults) ==
  IF \E i \in DOMAIN faults : faults[i] # ""
  THEN faults[CHOOSE i \in DOMAIN faults : faults[i] # "" /\ \A j \in 1 .. i - 1 : faults[j] = ""]
  ELSE ""

\* ParseIntent: "" if what was said is an Intent.
IntentFault(said) ==
  IF said.unknown THEN "unknown_field"
  ELSE IF said.name = "null" THEN "json_decode_failed"
  ELSE IF said.steps = <<>> THEN "missing_required_field"
  ELSE LET fault == FirstFault([i \in DOMAIN said.steps |-> StepFault(said.steps[i])])
       IN  IF fault = "" /\ ~said.questions THEN "missing_required_field" ELSE fault

-----------------------------------------------------------------------------
(***************************************************************************)
(* From an Intent to a candidate                                           *)
(***************************************************************************)

\* A Review is part of every Task's run already: such a step becomes none.
WithStep(kept, step) == IF step.kind = "review" THEN kept ELSE Append(kept, step)

Work(steps) == FoldLeft(WithStep, <<>>, steps)

\* The role the step names; a step that writes and finds nobody of that role
\* is tried once more with the preferred one.
ResolveStep(step, employees) ==
  LET named == Resolve(step.role, Nobody, employees) IN
  IF named.status = "no_match" /\ step.kind = "write" /\ step.role # Preferred
  THEN Resolve(Preferred, Nobody, employees)
  ELSE named

\* Mutation: a step that waits joins the open group all the same.
GrowOneGroup(graph, step) ==
  LET id    == Len(graph.deps) + 1
      joins == step.parallel /\ graph.members # <<>>
      deps  == IF joins THEN graph.upstream ELSE graph.members
  IN [deps     |-> Append(graph.deps, deps),
      upstream |-> deps,
      members  |-> Append(graph.members, id)]

\* One more Task, numbered by its place.  A step that may run beside the
\* previous one joins the open group and waits for what its members wait
\* for; any other waits for every member and opens a group of its own.
Grow(graph, step) ==
  LET id    == Len(graph.deps) + 1
      joins == step.parallel /\ graph.members # <<>>
      deps  == IF joins THEN graph.upstream ELSE graph.members
  IN [deps     |-> Append(graph.deps, deps),
      upstream |-> deps,
      members  |-> IF joins THEN Append(graph.members, id) ELSE <<id>>]

Dependencies(steps) ==
  FoldLeft(Grow, [deps |-> <<>>, upstream |-> <<>>, members |-> <<>>], steps).deps

\* What lets NormalizeIntent build a candidate: some work, not too much of
\* it, and for every step a role that one Employee holds.
Normalizable(said, employees) ==
  LET steps == Work(said.steps) IN
  /\ steps # <<>> /\ Len(steps) <= MaxGeneratedTasks
  /\ \A i \in DOMAIN steps : ResolveStep(steps[i], employees).status = "resolved"

Candidate(said, employees) ==
  LET steps == Work(said.steps)
      deps  == Dependencies(steps)
      task(i) == LET assigned == ResolveStep(steps[i], employees) IN
                 [title |-> steps[i].desc, role |-> assigned.role, assignee |-> assigned.id, deps |-> deps[i]]
  IN [name     |-> IF said.name \in {"", "absent"} THEN "derived" ELSE said.name,
      summary  |-> said.summary,
      roles    |-> <<>>,
      assigned |-> {ResolveStep(steps[i], employees).id : i \in DOMAIN steps},
      tasks    |-> [i \in DOMAIN steps |-> task(i)],
      numbered |-> TRUE]

-----------------------------------------------------------------------------
(***************************************************************************)
(* From a candidate to a Plan                                              *)
(***************************************************************************)

TitleFault(title) ==
  CASE title \in {"", "lines"} -> "invalid_task_shape"
    [] title = "placeholder"   -> "placeholder_value"
    [] OTHER                   -> ""

\* Mutation: a role with two holders is a fault.
TaskFaultAmbiguous(task, employees) ==
  IF TitleFault(task.title) # "" THEN TitleFault(task.title)
  ELSE IF Resolve(task.role, task.assignee, employees).status \in {"error", "ambiguous"} THEN "invalid_assignee"
  ELSE ""

TaskFault(task, employees) ==
  IF TitleFault(task.title) # "" THEN TitleFault(task.title)
  ELSE IF Resolve(task.role, task.assignee, employees).status = "error" THEN "invalid_assignee" ELSE ""

\* Every dependency is another Task of the Plan, named once.
DependenciesKnown(deps) ==
  \A i \in DOMAIN deps : /\ Range(deps[i]) \subseteq DOMAIN deps \ {i}
                         /\ Cardinality(Range(deps[i])) = Len(deps[i])

\* Mutation: only the direct dependencies.
LeadsDirectly(deps, i) == Range(deps[i])

ClosedUnder(deps, S) == \A j \in S : Range(deps[j]) \subseteq S

\* The search of validateDependencyGraph comes back to a Task it is still
\* visiting: the Task is among those that its dependencies lead to, the least
\* set that holds them and, with a Task, what that depends on.
LeadsTo(deps, i) ==
  {j \in DOMAIN deps :
     \A S \in SUBSET DOMAIN deps : Range(deps[i]) \subseteq S /\ ClosedUnder(deps, S) => j \in S}

Cyclic(deps) == \E i \in DOMAIN deps : i \in LeadsTo(deps, i)

GraphFault(deps) ==
  IF ~DependenciesKnown(deps) THEN "invalid_dependency"
  ELSE IF Cyclic(deps) THEN "dependency_cycle"
  ELSE ""

\* NormalizeCandidate's refusals, in its order.
CandidateFault(candidate, employees) ==
  IF ~Indexed(employees) THEN "organization"
  ELSE IF candidate.name \in {"", "a/b"} THEN "invalid_project_name"
  ELSE IF candidate.summary = "placeholder" THEN "placeholder_value"
  ELSE IF ~(candidate.assigned \subseteq IDs(employees)) THEN "invalid_assignee"
  ELSE IF candidate.tasks = <<>> THEN "missing_required_field"
  ELSE LET fault == FirstFault([i \in DOMAIN candidate.tasks |-> TaskFault(candidate.tasks[i], employees)])
       IN  IF fault # "" THEN fault
           ELSE GraphFault([i \in DOMAIN candidate.tasks |-> candidate.tasks[i].deps])

\* A role joins the list unless it is there under some letter case.
AddRole(roles, role) ==
  IF role = "" \/ \E i \in DOMAIN roles : Fold[roles[i]] = Fold[role] THEN roles ELSE Append(roles, role)

\* The Plan of a candidate nothing is wrong with.  What Resolve answers is
\* taken as it comes: a Task whose role has no holder, or more than one, has
\* no assignee, whoever it named.
Normalized(candidate, employees) ==
  LET task(i)  == LET given == candidate.tasks[i]
                      found == Resolve(given.role, given.assignee, employees)
                  IN  [title |-> given.title, role |-> found.role, assignee |-> found.id, deps |-> given.deps]
      tasks    == [i \in DOMAIN candidate.tasks |-> task(i)]
  IN [name     |-> candidate.name,
      summary  |-> candidate.summary,
      roles    |-> FoldLeft(AddRole, candidate.roles, [i \in DOMAIN tasks |-> tasks[i].role]),
      assigned |-> candidate.assigned \cup ({tasks[i].assignee : i \in DOMAIN tasks} \ {Nobody}),
      tasks    |-> tasks,
      numbered |-> candidate.numbered]

\* The roles no Employee holds.
Missing(roles, employees) == {r \in Range(roles) : Holders(r, employees) = {}}

\* ValidateApprovedPlan: a Plan says that it is one and numbers its Tasks by
\* their place; then it is a candidate again.
ApprovalFault(given, employees) ==
  IF ~given.numbered THEN "invalid_plan" ELSE CandidateFault(given, employees)

-----------------------------------------------------------------------------
(***************************************************************************)
(* The Commands                                                            *)
(***************************************************************************)

NoPlan == [name |-> "", summary |-> "", roles |-> <<>>, assigned |-> {}, tasks |-> <<>>, numbered |-> TRUE]

Nothing == [tasks |-> <<>>, unassigned |-> {}, missing |-> {}]

\* op "": no Provider call was recorded yet.
Silence == [op |-> "", own |-> "live", cut |-> FALSE, stage |-> "", code |-> ""]

Init ==
  /\ roster \in Rosters
  /\ stage = "request"
  /\ seen = {} /\ work = <<>> /\ plan = NoPlan /\ applied = Nothing
  /\ told = Silence

\* Someone joins, with an ID of their own.
Hire(id, role) ==
  /\ id \notin IDs(roster)
  /\ roster' = roster \cup {[id |-> id, role |-> role]}
  /\ UNCHANGED <<stage, seen, work, plan, applied, told>>

\* GenerateCEOPlan up to the Provider call.  An Organization whose IDs clash
\* or that has no roles to offer is not asked about.
Ask ==
  /\ stage = "request"
  /\ IF Indexed(roster) /\ roster # {}
     THEN stage' = "asked" /\ told' = told
     ELSE stage' = "refused" /\ told' = [Silence EXCEPT !.op = "plan", !.stage = "ceo_plan_prompt",
                                                        !.code = "INTERACTION_PLAN_FAILED"]
  /\ seen' = roster
  /\ UNCHANGED <<roster, work, plan, applied>>

\* Where Generate stops with this answer; "" where it has a Plan.
GenerateStage(own, answer, employees) ==
  LET result == Run(own, TRUE, answer) IN
  IF ~result.ok THEN PlanStage(own)
  ELSE IF result.stop = "max_tokens" THEN "ceo_plan_output_incomplete"
  ELSE IF IntentFault(answer.says) # "" THEN "ceo_plan_intent"
  ELSE IF ~Normalizable(answer.says, employees) THEN "ceo_plan_normalization"
  ELSE IF CandidateFault(Candidate(answer.says, employees), employees) # "" THEN "ceo_plan_parser"
  ELSE ""

\* The answer is half of one: it names its model, its JSON can be read, and
\* its author ran out of tokens.
Cut(answer) == IF answer.kind = "message" THEN answer.stop = "max_tokens" /\ answer.model ELSE FALSE

\* CEOPlanService.Generate after the call, with the Employees it was given,
\* and what finishInteractionPlan records of a failure.
Generate(own, answer) ==
  LET failed   == GenerateStage(own, answer, seen)
      category == IF failed = "ceo_plan_runner_failed" THEN Run(own, TRUE, answer).category ELSE ""
  IN /\ stage = "asked"
     /\ told' = [op |-> "plan", own |-> own, cut |-> Cut(answer), stage |-> failed,
                 code |-> IF failed = "" THEN "" ELSE PlanCode(failed, category)]
     /\ IF failed = ""
        THEN /\ stage' = "planned"
             /\ plan' = Normalized(Candidate(answer.says, seen), seen)
             /\ work' = Work(answer.says.steps)
        ELSE stage' = "refused" /\ UNCHANGED <<plan, work>>
     /\ UNCHANGED <<roster, seen, applied>>

\* ceo_plan.apply also takes a Plan from its payload.
Submit(given) ==
  /\ stage = "request"
  /\ stage' = "planned"
  /\ plan' = given
  /\ UNCHANGED <<roster, seen, work, applied, told>>

\* Mutation: the unassigned Tasks are those of the approved Plan.
ApplyCountingApproved ==
  LET fault == ApprovalFault(plan, roster)
      valid == Normalized(plan, roster)
  IN /\ stage = "planned"
     /\ IF fault = ""
        THEN /\ stage' = "applied"
             /\ applied' = [tasks      |-> valid.tasks,
                            unassigned |-> {i \in DOMAIN plan.tasks : plan.tasks[i].assignee = Nobody},
                            missing    |-> Missing(valid.roles, roster)]
        ELSE stage' = "refused" /\ UNCHANGED applied
     /\ UNCHANGED <<roster, seen, work, plan, told>>

\* The approved Plan is applied to the Organization as it is now: PlanCEOPlan-
\* Apply validates it, executeClaimedCEOPlanApply creates its Tasks.
Apply ==
  LET fault == ApprovalFault(plan, roster)
      valid == Normalized(plan, roster)
  IN /\ stage = "planned"
     /\ IF fault = ""
        THEN /\ stage' = "applied"
             /\ applied' = [tasks      |-> valid.tasks,
                            unassigned |-> {i \in DOMAIN valid.tasks : valid.tasks[i].assignee = Nobody},
                            missing    |-> Missing(valid.roles, roster)]
        ELSE stage' = "refused" /\ UNCHANGED applied
     /\ UNCHANGED <<roster, seen, work, plan, told>>

\* A Task of the Plan is executed, its Deliverable reviewed: the Provider is
\* called twice more.  Readiness keeps a Task without assignee from either.
Execute(own, answer) ==
  /\ stage = "applied"
  /\ \E i \in DOMAIN applied.tasks : applied.tasks[i].deps = <<>> /\ i \notin applied.unassigned
  /\ LET code == ExecutionCode(own, answer) IN
     /\ told' = [op |-> "execute", own |-> own, cut |-> Cut(answer), stage |-> "", code |-> code]
     /\ stage' = IF code = "" THEN "executed" ELSE "refused"
  /\ UNCHANGED <<roster, seen, work, plan, applied>>

Review(own, answer) ==
  /\ stage = "executed"
  /\ LET code == ReviewCode(own, answer) IN
     /\ told' = [op |-> "review", own |-> own, cut |-> Cut(answer), stage |-> "", code |-> code]
     /\ stage' = IF code = "" THEN "reviewed" ELSE "refused"
  /\ UNCHANGED <<roster, seen, work, plan, applied>>

Contexts == {"live", "canceled", "deadline"}

Next ==
  \/ \E id \in Employees, role \in Roles : Hire(id, role)
  \/ Ask \/ Apply
  \/ \E given \in Written : Submit(given)
  \/ \E own \in Contexts, answer \in Answers.plan : Generate(own, answer)
  \/ \E own \in Contexts, answer \in Answers.plain : Execute(own, answer)
  \/ \E own \in Contexts, answer \in Answers.review : Review(own, answer)

Spec == Init /\ [][Next]_vars

-----------------------------------------------------------------------------
(***************************************************************************)
(* Properties                                                              *)
(***************************************************************************)

\* Every variable has its type, and what was applied numbers its own Tasks.
TypeOK ==
  /\ roster \subseteq [id : Employees, role : Roles]
  /\ seen \subseteq roster
  /\ stage \in {"request", "asked", "planned", "applied", "executed", "reviewed", "refused"}
  /\ plan.assigned \subseteq Employees
  /\ DOMAIN applied.tasks \in {{}, DOMAIN plan.tasks}
  /\ applied.unassigned \subseteq DOMAIN applied.tasks
  /\ told.own \in Contexts

\* The place of a step in the order of work: how many groups are open by
\* then.  The first step opens one, and every step that waits opens another.
Layer(i) == Cardinality({k \in 1 .. i : k = 1 \/ ~work[k].parallel})

\* The graph NormalizeIntent builds one step at a time is the one its comment
\* describes as a whole: steps side by side share a layer and never wait for
\* each other, and each waits for every step of the layer before, and for no
\* other.
PlanIsLayered ==
  work # <<>> =>
    \A i \in DOMAIN plan.tasks :
      Range(plan.tasks[i].deps) = {j \in DOMAIN plan.tasks : Layer(j) + 1 = Layer(i)}

\* A generated Plan stays one that can be approved, whoever is hired before
\* it is: the validation at apply finds nothing wrong with it beside the
\* Employees of that day.  Beside those it was made for it also changes
\* nothing in it.
GeneratedStands ==
  work # <<>> => /\ ApprovalFault(plan, roster) = ""
                 /\ Normalized(plan, seen) = plan

\* However the Plan came about, and whatever it says, the Tasks made from it
\* can all be worked off: there is an order in which each finds everything
\* it depends on done.
TasksCanBeWorkedOff ==
  LET n == Len(applied.tasks) IN
  n # 0 => \E turn \in [1 .. n -> 1 .. n] :
             \A i \in 1 .. n : \A j \in Range(applied.tasks[i].deps) : j \in 1 .. n /\ turn[j] < turn[i]

\* Of a Plan that is applied no Task, title or dependency is lost, a role that
\* was given is kept, and no Task goes from one Employee to another.  Who had
\* none may get one, who holds the role; who had one loses them only where the
\* role has a second holder, and in a generated Plan only where that holder
\* was hired since.  The Tasks without one are those the answer names.
OnlyAmbiguityUnassigns ==
  applied # Nothing =>
    /\ DOMAIN applied.tasks = DOMAIN plan.tasks
    /\ \A i \in DOMAIN plan.tasks :
         LET before == plan.tasks[i]
             after  == applied.tasks[i]
         IN /\ after.title = before.title /\ after.deps = before.deps
            /\ before.role # "" => Fold[after.role] = Fold[before.role]
            /\ i \in applied.unassigned <=> after.assignee = Nobody
            /\ after.assignee # Nobody =>
                 /\ before.assignee \in {Nobody, after.assignee}
                 /\ \E e \in Holders(after.role, roster) : e.id = after.assignee
            /\ (after.assignee = Nobody /\ before.assignee # Nobody) =>
                 /\ Cardinality(Holders(after.role, roster)) > 1
                 /\ work # <<>> => Cardinality(Holders(after.role, roster)) > Cardinality(Holders(after.role, seen))

\* An answer that the Provider cut off is work nowhere: it becomes no Plan,
\* no Deliverable and no Review.  Where JSON was asked for the record says
\* OUTPUT_INCOMPLETE, unless the caller was gone: never what a parser thinks of
\* half a document.
CutOffIsNeverWork ==
  told.cut =>
    /\ told.code # ""
    /\ (told.own = "live" /\ told.op \in {"plan", "review"}) => told.code = "OUTPUT_INCOMPLETE"
    /\ stage = "refused"

\* Planning that is recorded as timed out or canceled was, by its own caller;
\* and what its own caller ended is never put down to the Provider.  A time
\* out of the transport, which wraps the same error, is the Provider's.  Nor
\* is an answer used that arrives when its caller is gone.
OwnClockIsNotTheProviders ==
  /\ told.op = "plan" =>
       /\ told.stage = "ceo_plan_timeout" => told.own = "deadline"
       /\ told.stage = "ceo_plan_canceled" => told.own = "canceled"
       /\ told.own # "live" => told.stage # "ceo_plan_runner_failed"
  /\ (told.op \in {"execute", "review"} /\ told.own # "live") => told.code # "" /\ stage = "refused"

\* What is recorded of a Provider call, and what comes of it, tell apart an
\* answer, half an answer and none in time.
CallIsTold == CutOffIsNeverWork /\ OwnClockIsNotTheProviders

\* "Plan itself is never mutated, so the approved plan digest stays valid"
\* (process/ceo_plan.go): the Tasks are those of the generated Plan that was
\* approved.
\* The code does not keep it (README, Observations).
ApprovedAsWritten ==
  (work # <<>> /\ applied # Nothing) => applied.tasks = plan.tasks
=============================================================================
