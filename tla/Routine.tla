------------------------------- MODULE Routine -------------------------------
(***************************************************************************)
(* One Routine and its chain of occurrences: the versioned Routine record, *)
(* activation, deactivation and reconciliation by operators, and the       *)
(* "routine.plan" Command every occurrence dispatches through Scheduler.   *)
(*                                                                         *)
(* Occurrence k is the k-th instant of the Trigger; the clock stands at k  *)
(* from that instant until the next one, so NextOccurrence(k) is k + 1.    *)
(* The Schedule ID and the target Command ID of an occurrence are both its *)
(* number: they are derived from nothing else.                             *)
(***************************************************************************)
EXTENDS Scheduler

CONSTANTS Others,        \* Schedule IDs that are not an occurrence's
          Clients,       \* operators that schedule other Commands only
          Taken,         \* occurrences whose Command ID another Schedule may take
          RepairIds,     \* Command IDs operators bring to a reconciliation
          Fallible,      \* processes that may fail or die
          Unwritable,    \* Schedules whose claims may fail for ever
          MaxVersion,    \* bound of the Routine's version
          MaxFaults      \* bound of the failures and crashes

Occurrences == 1 .. MaxTime + 1

ASSUME RoutineAssumption ==
    /\ Schedules = Occurrences \cup Others /\ Occurrences \cap Others = {}
    /\ Targets = Occurrences /\ Taken \subseteq 1 .. MaxTime
    /\ Clients \subseteq Operators /\ Fallible \subseteq Processes /\ Unwritable \subseteq Schedules
    /\ Payloads = {"routine.plan", "other"}
    /\ CreateIds = Occurrences \cup RepairIds /\ Occurrences \cap RepairIds = {}
    /\ Moments = 0 .. MaxVersion
    /\ MaxVersion \in Nat \ {0} /\ MaxFaults \in Nat

VARIABLES routine,       \* the Routine record
          job,           \* where each daemon's routine.plan handler is
          op,            \* what each operator asked for, and was told
          disturbed,     \* history: somebody failed, crashed or was refused
          faults         \* failures and crashes so far

routineVars == <<routine, job, op, disturbed, faults>>
vars == <<schedulerVars, routineVars>>

-----------------------------------------------------------------------------
Statuses == {"active", "inactive"}

NoJob == [place |-> "none", result |-> "none"]

NoOp == [kind |-> "none", place |-> "idle", expected |-> 0, asOf |-> 0, id |-> NoRequest,
         committed |-> FALSE, told |-> "none"]

\* scheduleNextRoutineOccurrence's request for occurrence k.  Its time is the
\* nominal one of the occurrence before it (0), or that of the activation of
\* a version; two activations never agree on it.
RequestFor(k, asOf) ==
    [schedule |-> k,
     def |-> [due |-> k, target |-> k, payload |-> "routine.plan"],
     asOf |-> asOf]

Live(s) == schedule[s].state \in {"pending", "dispatching"}

\* InspectRoutineScheduleHealth.
Healthy ==
    \/ routine.status = "inactive"
    \/ \E s \in Schedules : Live(s) /\ schedule[s].def.payload = "routine.plan"

\* Trigger.NextOccurrence: strictly after its argument.
NextOccurrence(asOf) == asOf + 1

\* The operator is told "scheduled", or something else ("none"); a Command
\* that leaves nothing to repeat or to rely on is forgotten.
After(request, told) ==
    IF request.committed \/ (told = "scheduled" /\ request.kind # "other")
      THEN [request EXCEPT !.place = "idle", !.told = told]
      ELSE NoOp

Answer(o, told) == op' = [op EXCEPT ![o] = After(@, told)]

\* Somebody is refused or told of a failure.
Disturbed == disturbed' = TRUE /\ UNCHANGED faults

\* A file operation of process p fails, or p dies.
Fault(p) ==
    /\ p \in Fallible /\ faults < MaxFaults
    /\ faults' = faults + 1 /\ disturbed' = TRUE

Undisturbed == UNCHANGED <<disturbed, faults>>

-----------------------------------------------------------------------------
RoutineInit ==
    /\ SchedulerInit
    /\ routine = [status |-> "inactive", version |-> 1]
    /\ job = [d \in Daemons |-> NoJob]
    /\ op = [o \in Operators |-> NoOp]
    /\ disturbed = FALSE /\ faults = 0

-----------------------------------------------------------------------------
(* Operators.                                                              *)

Free(o) == op[o].place = "idle"

\* routine.activate and routine.deactivate: the version and the time are the
\* ones the operator looked at.
Ask(o, kind) ==
    /\ Free(o)
    /\ routine.version < MaxVersion
    /\ op' = [op EXCEPT ![o] = [NoOp EXCEPT !.kind = kind, !.place = "update",
                                            !.expected = routine.version, !.asOf = now]]
    /\ UNCHANGED <<schedulerVars, routine, job, disturbed, faults>>

\* transition and ValidateTransition: the expected version, a real change.
Accepted(o) ==
    /\ routine.version = op[o].expected
    /\ routine.status = IF op[o].kind = "activate" THEN "inactive" ELSE "active"

Committed(o) ==
    routine' = [status |-> IF op[o].kind = "activate" THEN "active" ELSE "inactive",
                version |-> routine.version + 1]

\* The transition commits and its Command is recorded; an activation goes on
\* to its first occurrence.
Transition(o) ==
    /\ op[o].place = "update"
    /\ \/ /\ Accepted(o)
          /\ Committed(o)
          /\ IF op[o].kind = "activate"
               THEN op' = [op EXCEPT ![o].place = "schedule", ![o].committed = TRUE]
               ELSE Answer(o, "none")
       \/ /\ ~Accepted(o)
          /\ Answer(o, "none")
          /\ UNCHANGED routine
    /\ UNCHANGED <<schedulerVars, job, disturbed, faults>>

\* The store, its Markdown projection, the Event or the Ledger fails: the
\* activation ends there although it may have been committed.
TransitionFails(o) ==
    /\ op[o].place = "update"
    /\ \/ UNCHANGED routine
       \/ Accepted(o) /\ Committed(o)
    /\ Answer(o, "none")
    /\ Fault(o)
    /\ UNCHANGED <<schedulerVars, job>>

\* The same routine.activate again: its Ledger replays the transition.
Retry(o) ==
    /\ Free(o) /\ op[o].committed
    /\ op' = [op EXCEPT ![o].place = "schedule", ![o].told = "none"]
    /\ UNCHANGED <<schedulerVars, routine, job, disturbed, faults>>

\* routine-reconcile of an active Routine.
Reconcile(o, id) ==
    /\ Free(o)
    /\ routine.status = "active"
    /\ op' = [op EXCEPT ![o] = [NoOp EXCEPT !.kind = "reconcile", !.place = "health",
                                            !.asOf = now, !.id = id]]
    /\ UNCHANGED <<schedulerVars, routine, job, disturbed, faults>>

Inspect(o) ==
    /\ op[o].place = "health"
    /\ IF Healthy THEN Answer(o, "none") ELSE op' = [op EXCEPT ![o].place = "schedule"]
    /\ UNCHANGED <<schedulerVars, routine, job, disturbed, faults>>

\* The next occurrence exists, is spent, or is created by schedule.create
\* under the default Command ID or the one the operator brought.
ScheduleNext(o) ==
    LET k == NextOccurrence(op[o].asOf)
        c == IF op[o].kind = "reconcile" THEN op[o].id ELSE k
    IN /\ op[o].place = "schedule"
       /\ \/ /\ Live(k)
             /\ Answer(o, "scheduled")
             /\ UNCHANGED schedulerVars /\ Undisturbed
          \/ /\ schedule[k].state \in Terminal
             /\ Answer(o, "none")
             /\ UNCHANGED schedulerVars /\ Disturbed
          \/ /\ schedule[k] = Absent
             /\ Submit(o, c, RequestFor(k, op[o].expected))
             /\ op' = [op EXCEPT ![o].place = "create"]
             /\ Undisturbed
       /\ UNCHANGED <<routine, job>>

\* An operator schedules a Command of its own, under a Command ID that may be
\* an occurrence's.
ScheduleOther(o, c, s, def) ==
    /\ Free(o)
    /\ Submit(o, c, [schedule |-> s, def |-> def, asOf |-> 0])
    /\ op' = [op EXCEPT ![o] = [NoOp EXCEPT !.kind = "other", !.place = "create"]]
    /\ Disturbed
    /\ UNCHANGED <<routine, job>>

Created(o) ==
    /\ op[o].place = "create"
    /\ Told(o)
    /\ IF creator[o].verdict = "succeeded"
         THEN Answer(o, "scheduled") /\ Undisturbed
         ELSE Answer(o, "none") /\ Disturbed
    /\ UNCHANGED <<routine, job>>

-----------------------------------------------------------------------------
(* The routine.plan handler of daemon d: executeClaimedRoutinePlan.         *)

\* The target Command is claimed: its handler starts.
HandlerStarts(d) ==
    /\ DispatchClaims(d)
    /\ job' = [job EXCEPT ![d] =
                  [place |-> IF Payload(d) = "routine.plan" THEN "read" ELSE "end",
                   result |-> "succeeded"]]
    /\ UNCHANGED <<routine, op, disturbed, faults>>

At(d, place) == phase[d] = "handling" /\ job[d].place = place

Step(d, place) == job' = [job EXCEPT ![d].place = place]

\* The Routine as it is at dispatch: an inactive one is skipped, and nothing
\* is chained.
ReadRoutine(d) ==
    /\ At(d, "read")
    /\ Step(d, IF routine.status = "active" THEN "plan" ELSE "end")
    /\ UNCHANGED <<schedulerVars, routine, op, disturbed, faults>>

ReadRoutineFails(d) ==
    /\ At(d, "read")
    /\ job' = [job EXCEPT ![d] = [place |-> "end", result |-> "failed"]]
    /\ Fault(d)
    /\ UNCHANGED <<schedulerVars, routine, op>>

\* Mutation: only a successful Planning chains the next occurrence.
PlanChainsOnSuccess(d, result) ==
    /\ At(d, "plan")
    /\ job' = [job EXCEPT ![d] =
                  [place |-> IF result = "succeeded" THEN "chain" ELSE "end", result |-> result]]
    /\ UNCHANGED <<schedulerVars, routine, op, disturbed, faults>>

\* GenerateResponsibilityPlan, which may fail, as every Planning may.
Plan(d, result) ==
    /\ At(d, "plan")
    /\ job' = [job EXCEPT ![d] = [place |-> "chain", result |-> result]]
    /\ UNCHANGED <<schedulerVars, routine, op, disturbed, faults>>

\* The next occurrence is taken from this one's own instant, which its payload
\* carries; a conflict or a failure is not this Command's.
Chain(d) ==
    LET k == NextOccurrence(Target(d)) IN
    /\ At(d, "chain")
    /\ \/ /\ schedule[k] # Absent
          /\ Step(d, "end")
          /\ UNCHANGED schedulerVars
       \/ /\ schedule[k] = Absent
          /\ Submit(d, k, RequestFor(k, 0))
          /\ Step(d, "chained")
    /\ Undisturbed
    /\ UNCHANGED <<routine, op>>

Chained(d) ==
    /\ At(d, "chained")
    /\ Told(d)
    /\ Step(d, "end")
    /\ disturbed' = (disturbed \/ creator[d].verdict = "failed") /\ UNCHANGED faults
    /\ UNCHANGED <<routine, op>>

\* The handler returns; the other operations may end in any way.
HandlerEnds(d) ==
    /\ At(d, "end")
    /\ \E r \in Results :
          /\ Payload(d) = "routine.plan" => r = job[d].result
          /\ \/ HandlerReturns(d, r) /\ Undisturbed
             \/ HandlerUnrecorded(d, r) /\ Fault(d)
    /\ job' = [job EXCEPT ![d] = NoJob]
    /\ UNCHANGED <<routine, op>>

-----------------------------------------------------------------------------
(* Steps of the Scheduler that do not concern the Routine, and its faults.  *)

CreationWork(p) == ClaimCreation(p) \/ PlanCreation(p) \/ StoreSchedule(p) \/ FinishCreation(p)

TickWork(d) == Tick(d) \/ Claim(d) \/ Skip(d) \/ Finish(d)

\* A record that cannot be locked, read or replaced: no daemon claims it, and
\* every tick may end there.
ClaimUnwritten(d, s) ==
    /\ s \in Unwritable /\ NextDue(d, s)
    /\ UNCHANGED schedule
    /\ ClaimFails(d)

Works ==
    /\ \/ Advance
       \/ \E d \in Daemons : Start(d) \/ TickWork(d)
       \/ \E d \in Daemons, s \in Schedules : ClaimUnwritten(d, s)
       \/ \E p \in Processes : CreationWork(p)
    /\ UNCHANGED routineVars

\* The target Command was known before: no handler runs.
Answers(d) == DispatchAnswered(d) /\ Disturbed /\ UNCHANGED <<routine, job, op>>

Faults ==
    /\ \/ \E d \in Daemons :
             (ClaimFails(d) \/ DispatchFails(d) \/ FinishFails(d)) /\ Fault(d)
       \/ \E p \in Processes :
             (ClaimCreationFails(p) \/ StoreFails(p) \/ FinishCreationFails(p)) /\ Fault(p)
    /\ UNCHANGED <<routine, job, op>>

\* An operator's Command dies with its process; the operator remembers it.
Crash(p) ==
    /\ \/ Dies(p)
       \/ p \in Operators /\ op[p].place # "idle" /\ creator[p] = Idle /\ UNCHANGED schedulerVars
    /\ Fault(p)
    /\ job' = [d \in Daemons |-> IF d = p THEN NoJob ELSE job[d]]
    /\ op' = [o \in Operators |-> IF o = p THEN After(op[o], "none") ELSE op[o]]
    /\ UNCHANGED <<routine>>

Operates(o) ==
    \/ Ask(o, "activate") \/ Ask(o, "deactivate")
    \/ Transition(o) \/ TransitionFails(o) \/ Retry(o)
    \/ \E id \in RepairIds : Reconcile(o, id)
    \/ Inspect(o) \/ ScheduleNext(o) \/ Created(o)

\* Bound: a client does not repeat itself.
ActsAsClient(o) ==
    \/ \E c \in RepairIds, s \in Others, k \in Taken, p \in Payloads :
          /\ creation[c] = Unclaimed
          /\ ScheduleOther(o, c, s, [due |-> 0, target |-> k, payload |-> p])
    \/ Created(o)

Handles(d) ==
    \/ HandlerStarts(d) \/ Answers(d)
    \/ ReadRoutine(d) \/ ReadRoutineFails(d)
    \/ \E r \in {"succeeded", "failed"} : Plan(d, r)
    \/ Chain(d) \/ Chained(d) \/ HandlerEnds(d)

Next ==
    \/ Works \/ Faults
    \/ \E o \in Operators \ Clients : Operates(o)
    \/ \E o \in Clients : ActsAsClient(o)
    \/ \E d \in Daemons : Handles(d)
    \/ \E p \in Processes : Crash(p)

Spec == RoutineInit /\ [][Next]_vars

\* The loop of a daemon ticks while it runs, and a Command it runs comes back
\* (the Provider answers or times out).  Nobody need start a dead daemon
\* again where some daemon is not Fallible.
FairSpec ==
    Spec /\ \A d \in Daemons :
                WF_vars(\/ (TickWork(d) \/ CreationWork(d)) /\ UNCHANGED routineVars
                        \/ Handles(d))

-----------------------------------------------------------------------------
(* Properties.                                                             *)

TypeOK ==
    /\ SchedulerTypeOK
    /\ routine \in [status : Statuses, version : 1 .. MaxVersion]
    /\ job \in [Daemons -> [place : {"none", "read", "plan", "chain", "chained", "end"},
                            result : Results \cup {"none"}]]
    /\ op \in [Operators ->
                  [kind : {"none", "activate", "deactivate", "reconcile", "other"},
                   place : {"idle", "update", "health", "schedule", "create"},
                   expected : 0 .. MaxVersion, asOf : 0 .. MaxTime,
                   id : RepairIds \cup {NoRequest}, committed : BOOLEAN,
                   told : {"none", "scheduled"}]]
    /\ disturbed \in BOOLEAN /\ faults \in 0 .. MaxFaults

\* Nobody is in the middle of anything.
AtRest ==
    /\ \A d \in Daemons : phase[d] \in {"off", "ready"}
    /\ \A o \in Operators : Free(o)

\* Whoever is told that the next occurrence is scheduled has its Schedule in
\* the Vault, replays and crashes included: "success only when the Routine is
\* durably Active and its next occurrence is durably represented".
ToldMeansScheduled ==
    \A o \in Operators :
        op[o].kind \in {"activate", "reconcile"} /\ op[o].told = "scheduled" =>
            schedule[NextOccurrence(op[o].asOf)].state # "none"

\* The chain of a Routine that was activated once does not stop, although
\* Plannings fail and daemons overlap: if nothing else went wrong, at rest
\* there is a pending occurrence.
FirstChainGoesOn ==
    AtRest /\ ~disturbed /\ routine = [status |-> "active", version |-> 2]
        => \E k \in Occurrences : schedule[k].state = "pending"

Overdue(s) == schedule[s].state = "pending" /\ schedule[s].def.due <= now

\* The tick of d ends at a claim that fails, of s or of one due no later.
HoldsUp(d, s) ==
    /\ Overdue(s)
    /\ \E u \in todo[d] : schedule[u].def.due <= schedule[s].def.due /\ ClaimUnwritten(d, u)

\* No Schedule stays due and pending for ever, however late it is noticed and
\* whatever fails on the way: dead daemons, Commands that end badly, records
\* claimed by others, and Schedules due later whose claims fail at every tick
\* do not hold it up.  Only one that is due no later can, and only while each
\* daemon that stays alive goes on failing on it.
DueIsClaimed ==
    \A s \in Schedules :
        \/ []<>~Overdue(s)
        \/ \A d \in Daemons \ Fallible : []<><<HoldsUp(d, s)>>_vars

\* Every Active Routine has a future occurrence durably represented: the
\* Continuity invariant in the comment of ExecuteRoutineReconcile.  An
\* activation that is told of success does not establish it.
\* The code does not keep it (README, Observations).
Continuity ==
    AtRest /\ ~disturbed /\ routine.status = "active"
        => \E k \in Occurrences : schedule[k].state = "pending"
=============================================================================
