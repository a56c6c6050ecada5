------------------------------ MODULE Scheduler ------------------------------
(***************************************************************************)
(* One-shot Schedules: scheduler.Record, the Vault store that keeps one    *)
(* file per Schedule ID, SchedulerService.RunDue as the tick of a daemon,  *)
(* the Dispatcher that sends the target Command through its Command        *)
(* Ledger, and ExecuteScheduleCreation with the Ledger claim of its own.   *)
(*                                                                         *)
(* Several daemons and operators share one Vault.  The two Ledgers appear  *)
(* here as what CommandLedger promises (OnceOnly): a Command is claimed    *)
(* once, and later attempts are answered from its record.  A process may   *)
(* die between any two steps, and a file operation may report an error     *)
(* although it took effect.                                                *)
(***************************************************************************)
EXTENDS Naturals

CONSTANTS Daemons,      \* processes that tick
          Operators,    \* processes that create Schedules on request
          Schedules,    \* Schedule IDs
          Targets,      \* Command IDs of target Commands
          Payloads,     \* what a target Command asks for
          CreateIds,    \* Command IDs of schedule.create Commands
          Moments,      \* the times at which requests are made
          MaxTime,      \* bound of the clock
          NoRequest     \* no request, no definition, no Schedule

Processes == Daemons \cup Operators

Definitions == [due : 0 .. MaxTime + 1, target : Targets, payload : Payloads]

Requests == [schedule : Schedules, def : Definitions, asOf : Moments]

ASSUME SchedulerAssumption ==
    /\ MaxTime \in Nat
    /\ Daemons \cap Operators = {}
    /\ NoRequest \notin Schedules \cup Definitions \cup Requests \cup Payloads

VARIABLES now,          \* the clock all processes read
          schedule,     \* the Schedule files
          command,      \* Ledger records of the target Commands
          creation,     \* Ledger records of the schedule.create Commands
          phase,        \* where each daemon's tick is
          todo,         \* due Schedules the tick listed and has not come to
          current,      \* the Schedule it has claimed
          outcome,      \* what the Dispatcher answered
          creator,      \* where each process is in ExecuteScheduleCreation
          dispatches,   \* history: how often each Schedule was dispatched
          runs          \* history: how often each target Command's effect ran

stores == <<schedule, command, creation>>
ticks == <<phase, todo, current, outcome>>
history == <<dispatches, runs>>
schedulerVars == <<now, stores, ticks, creator, history>>

-----------------------------------------------------------------------------
Terminal == {"succeeded", "failed", "recovery_required"}

\* Pending is version 1 of a record, dispatching 2, a terminal state 3.
States == {"none", "pending", "dispatching"} \cup Terminal

Results == {"succeeded", "failed", "partial_failure"}

Absent == [state |-> "none", def |-> NoRequest]

\* NewPending: the definition of a Schedule never changes afterwards.
Pending(def) == [state |-> "pending", def |-> def]

Unclaimed == [state |-> "unclaimed", request |-> NoRequest]

Claimed(r) == [state |-> "running", request |-> r]

Idle == [place |-> "idle", id |-> NoRequest, request |-> NoRequest, verdict |-> "none"]

\* Record.Due: List computes it for the records it reads.  A record another
\* daemon claims during the listing is one whose claim conflicts later on.
DueAt(t) == {s \in Schedules : schedule[s].state = "pending" /\ schedule[s].def.due <= t}

\* Mutation: the list is left in the order the directory gives.
NextUnsorted(d, s) == phase[d] = "ready" /\ s \in todo[d]

\* The tick comes to s next: Schedules are sorted by due time (ties, which
\* the code sorts by ID, in any order).
NextDue(d, s) ==
    /\ phase[d] = "ready"
    /\ s \in todo[d]
    /\ \A u \in todo[d] : schedule[s].def.due <= schedule[u].def.due

\* RunDue returns an error: the rest of its list is dropped.
Abort(d) ==
    /\ phase' = [phase EXCEPT ![d] = "ready"]
    /\ todo' = [todo EXCEPT ![d] = {}]
    /\ current' = [current EXCEPT ![d] = NoRequest]
    /\ outcome' = [outcome EXCEPT ![d] = "none"]

\* mapCommandError: what a Command's recorded result makes of its Schedule.
\* A recorded failure, partial or not, says itself whether it needs recovery.
OutcomesOf(result) ==
    CASE result = "succeeded" -> {"succeeded"}
      [] result = "running" -> {"recovery_required"}
      [] OTHER -> {"failed", "recovery_required"}

Target(d) == schedule[current[d]].def.target

Payload(d) == schedule[current[d]].def.payload

-----------------------------------------------------------------------------
SchedulerInit ==
    /\ now = 0
    /\ schedule = [s \in Schedules |-> Absent]
    /\ command = [t \in Targets |-> Unclaimed]
    /\ creation = [c \in CreateIds |-> Unclaimed]
    /\ phase = [d \in Daemons |-> "ready"]
    /\ todo = [d \in Daemons |-> {}]
    /\ current = [d \in Daemons |-> NoRequest]
    /\ outcome = [d \in Daemons |-> "none"]
    /\ creator = [p \in Processes |-> Idle]
    /\ dispatches = [s \in Schedules |-> 0]
    /\ runs = [t \in Targets |-> 0]

Advance ==
    /\ now < MaxTime
    /\ now' = now + 1
    /\ UNCHANGED <<stores, ticks, creator, history>>

-----------------------------------------------------------------------------
(* The tick of a daemon: SchedulerService.run and RunDue.                   *)

Start(d) ==
    /\ phase[d] = "off"
    /\ phase' = [phase EXCEPT ![d] = "ready"]
    /\ UNCHANGED <<now, stores, todo, current, outcome, creator, history>>

\* A tick lists the records once; a listing that fails is a tick that does
\* nothing.
Tick(d) ==
    /\ phase[d] = "ready" /\ todo[d] = {}
    /\ todo' = [todo EXCEPT ![d] = DueAt(now)]
    /\ UNCHANGED <<now, stores, phase, current, outcome, creator, history>>

\* Start and Update: pending to dispatching by compare and set, under the
\* lock of the record, before the Command is dispatched.
Claim(d) ==
    \E s \in todo[d] :
        /\ NextDue(d, s)
        /\ schedule[s].state = "pending"
        /\ schedule' = [schedule EXCEPT ![s].state = "dispatching"]
        /\ phase' = [phase EXCEPT ![d] = "dispatch"]
        /\ current' = [current EXCEPT ![d] = s]
        /\ todo' = [todo EXCEPT ![d] = @ \ {s}]
        /\ UNCHANGED <<now, command, creation, outcome, creator, history>>

\* ErrVersionConflict: somebody else claimed it, the tick goes on.
Skip(d) ==
    \E s \in todo[d] :
        /\ NextDue(d, s)
        /\ schedule[s].state # "pending"
        /\ todo' = [todo EXCEPT ![d] = @ \ {s}]
        /\ UNCHANGED <<now, stores, phase, current, outcome, creator, history>>

\* Update fails, before or after its rename; the tick ends there.
ClaimFails(d) ==
    \E s \in todo[d] :
        /\ NextDue(d, s)
        /\ Abort(d)
        /\ \/ UNCHANGED schedule
           \/ /\ schedule[s].state = "pending"
              /\ schedule' = [schedule EXCEPT ![s].state = "dispatching"]
        /\ UNCHANGED <<now, command, creation, creator, history>>

-----------------------------------------------------------------------------
(* Dispatcher.Dispatch: the target Command under its Command Ledger.        *)

Dispatched(d) == dispatches' = [dispatches EXCEPT ![current[d]] = @ + 1]

Answered(d, o) ==
    /\ phase' = [phase EXCEPT ![d] = "finish"]
    /\ outcome' = [outcome EXCEPT ![d] = o]
    /\ UNCHANGED <<todo, current>>

\* Mutation: a running target Command is run again.
DispatchRuns(d) ==
    /\ phase[d] = "dispatch"
    /\ command[Target(d)].state \in {"unclaimed", "running"}
    /\ command' = [command EXCEPT ![Target(d)] = Claimed(Payload(d))]
    /\ runs' = [runs EXCEPT ![Target(d)] = @ + 1]
    /\ Dispatched(d)
    /\ phase' = [phase EXCEPT ![d] = "handling"]
    /\ UNCHANGED <<now, schedule, creation, todo, current, outcome, creator>>

\* Begin claims the target Command and its handler runs.
DispatchClaims(d) ==
    /\ phase[d] = "dispatch"
    /\ command[Target(d)] = Unclaimed
    /\ command' = [command EXCEPT ![Target(d)] = Claimed(Payload(d))]
    /\ runs' = [runs EXCEPT ![Target(d)] = @ + 1]
    /\ Dispatched(d)
    /\ phase' = [phase EXCEPT ![d] = "handling"]
    /\ UNCHANGED <<now, schedule, creation, todo, current, outcome, creator>>

\* The Command is known: another request is a conflict, a running Command
\* needs recovery, a recorded one is replayed.
DispatchAnswered(d) ==
    LET rec == command[Target(d)] IN
    /\ phase[d] = "dispatch"
    /\ rec # Unclaimed
    /\ Dispatched(d)
    /\ \/ rec.request # Payload(d) /\ Answered(d, "failed")
       \/ rec.request = Payload(d) /\ \E o \in OutcomesOf(rec.state) : Answered(d, o)
    /\ UNCHANGED <<now, stores, creator, runs>>

\* The Ledger cannot be read or written; the claim may have taken effect.
DispatchFails(d) ==
    /\ phase[d] = "dispatch"
    /\ Dispatched(d)
    /\ \E o \in {"failed", "recovery_required"} : Answered(d, o)
    /\ \/ UNCHANGED command
       \/ /\ command[Target(d)] = Unclaimed
          /\ command' = [command EXCEPT ![Target(d)] = Claimed(Payload(d))]
    /\ UNCHANGED <<now, schedule, creation, creator, runs>>

\* The handler returned and its result is recorded.
HandlerReturns(d, result) ==
    /\ phase[d] = "handling" /\ creator[d] = Idle
    /\ command' = [command EXCEPT ![Target(d)].state = result]
    /\ \E o \in OutcomesOf(result) : Answered(d, o)
    /\ UNCHANGED <<now, schedule, creation, creator, history>>

\* The Ledger's Finish fails, before or after its rename: the answer is
\* COMMAND_LEDGER_PARTIAL, whatever the result.
HandlerUnrecorded(d, result) ==
    /\ phase[d] = "handling" /\ creator[d] = Idle
    /\ \/ UNCHANGED command
       \/ command' = [command EXCEPT ![Target(d)].state = result]
    /\ Answered(d, "recovery_required")
    /\ UNCHANGED <<now, schedule, creation, creator, history>>

\* Finish and Update with a context of their own: dispatching to terminal.
Finish(d) ==
    /\ phase[d] = "finish"
    /\ schedule[current[d]].state = "dispatching"
    /\ schedule' = [schedule EXCEPT ![current[d]].state = outcome[d]]
    /\ phase' = [phase EXCEPT ![d] = "ready"]
    /\ current' = [current EXCEPT ![d] = NoRequest]
    /\ outcome' = [outcome EXCEPT ![d] = "none"]
    /\ UNCHANGED <<now, command, creation, todo, creator, history>>

\* The outcome is not saved, or saved with an error; the tick ends there.
FinishFails(d) ==
    /\ phase[d] = "finish"
    /\ \/ UNCHANGED schedule
       \/ schedule' = [schedule EXCEPT ![current[d]].state = outcome[d]]
    /\ Abort(d)
    /\ UNCHANGED <<now, command, creation, creator, history>>

-----------------------------------------------------------------------------
(* ExecuteScheduleCreation by process p.                                    *)

Goto(p, place) == creator' = [creator EXCEPT ![p].place = place]

\* It returns; the verdict is what the caller is told.
CreationReturns(p, verdict) == creator' = [creator EXCEPT ![p] = [Idle EXCEPT !.verdict = verdict]]

\* Process p calls it under Command ID c.
Submit(p, c, r) ==
    /\ creator[p] = Idle
    /\ creator' = [creator EXCEPT ![p] =
                      [place |-> "claim", id |-> c, request |-> r, verdict |-> "none"]]
    /\ UNCHANGED <<now, stores, ticks, history>>

\* The caller has the answer.
Told(p) ==
    /\ creator[p].place = "idle" /\ creator[p] # Idle
    /\ creator' = [creator EXCEPT ![p] = Idle]
    /\ UNCHANGED <<now, stores, ticks, history>>

\* claimWorkspaceCommand: a known Command is answered from its record.
ClaimCreation(p) ==
    LET c == creator[p].id
        r == creator[p].request
    IN /\ creator[p].place = "claim"
       /\ \/ /\ creation[c] = Unclaimed
             /\ creation' = [creation EXCEPT ![c] = Claimed(r)]
             /\ Goto(p, "plan")
          \/ /\ creation[c] = [state |-> "succeeded", request |-> r]
             /\ CreationReturns(p, "succeeded")
             /\ UNCHANGED creation
          \/ /\ creation[c] \notin {Unclaimed, [state |-> "succeeded", request |-> r]}
             /\ CreationReturns(p, "failed")
             /\ UNCHANGED creation
       /\ UNCHANGED <<now, schedule, command, ticks, history>>

ClaimCreationFails(p) ==
    LET c == creator[p].id IN
    /\ creator[p].place = "claim"
    /\ CreationReturns(p, "failed")
    /\ \/ UNCHANGED creation
       \/ /\ creation[c] = Unclaimed
          /\ creation' = [creation EXCEPT ![c] = Claimed(creator[p].request)]
    /\ UNCHANGED <<now, schedule, command, ticks, history>>

\* PlanScheduleCreation: the Schedule ID or its target is already taken.
Blocked(r) ==
    \/ schedule[r.schedule] # Absent
    \/ \E s \in Schedules \ {r.schedule} :
          schedule[s] # Absent /\ schedule[s].def.target = r.def.target

ToFinish(p, verdict) ==
    creator' = [creator EXCEPT ![p].place = "finish", ![p].verdict = verdict]

\* The preflight; its list may be out of date when the record is created.
PlanCreation(p) ==
    /\ creator[p].place = "plan"
    /\ \/ ~Blocked(creator[p].request) /\ Goto(p, "create")
       \/ Blocked(creator[p].request) /\ ToFinish(p, "failed")
    /\ UNCHANGED <<now, stores, ticks, history>>

\* ScheduleRegistryService.Create: the exclusive create, or the record of the
\* same definition that is already there.
StoreSchedule(p) ==
    LET r == creator[p].request IN
    /\ creator[p].place = "create"
    /\ \/ /\ schedule[r.schedule] = Absent
          /\ schedule' = [schedule EXCEPT ![r.schedule] = Pending(r.def)]
          /\ ToFinish(p, "succeeded")
       \/ /\ schedule[r.schedule] # Absent
          /\ ToFinish(p, IF schedule[r.schedule].def = r.def THEN "succeeded" ELSE "failed")
          /\ UNCHANGED schedule
    /\ UNCHANGED <<now, command, creation, ticks, history>>

\* The preflight or the create fails; the file may exist nevertheless.
StoreFails(p) ==
    LET r == creator[p].request IN
    /\ creator[p].place \in {"plan", "create"}
    /\ ToFinish(p, "failed")
    /\ \/ UNCHANGED schedule
       \/ /\ creator[p].place = "create"
          /\ schedule[r.schedule] = Absent
          /\ schedule' = [schedule EXCEPT ![r.schedule] = Pending(r.def)]
    /\ UNCHANGED <<now, command, creation, ticks, history>>

\* finishDurableCommand of schedule.create.
FinishCreation(p) ==
    /\ creator[p].place = "finish"
    /\ creation' = [creation EXCEPT ![creator[p].id].state = creator[p].verdict]
    /\ CreationReturns(p, creator[p].verdict)
    /\ UNCHANGED <<now, schedule, command, ticks, history>>

\* The outcome cannot be recorded: an error, although the Schedule may exist.
FinishCreationFails(p) ==
    /\ creator[p].place = "finish"
    /\ CreationReturns(p, "failed")
    /\ UNCHANGED <<now, stores, ticks, history>>

\* Process p dies, or a daemon is stopped.
Dies(p) ==
    /\ \/ creator[p] # Idle
       \/ p \in Daemons /\ phase[p] # "off"
    /\ creator' = [creator EXCEPT ![p] = Idle]
    /\ phase' = [d \in Daemons |-> IF d = p THEN "off" ELSE phase[d]]
    /\ todo' = [d \in Daemons |-> IF d = p THEN {} ELSE todo[d]]
    /\ current' = [d \in Daemons |-> IF d = p THEN NoRequest ELSE current[d]]
    /\ outcome' = [d \in Daemons |-> IF d = p THEN "none" ELSE outcome[d]]
    /\ UNCHANGED <<now, stores, history>>

-----------------------------------------------------------------------------
DaemonStep(d) ==
    \/ Start(d) \/ Tick(d) \/ Claim(d) \/ Skip(d) \/ ClaimFails(d)
    \/ DispatchClaims(d) \/ DispatchAnswered(d) \/ DispatchFails(d)
    \/ \E r \in Results : HandlerReturns(d, r) \/ HandlerUnrecorded(d, r)
    \/ Finish(d) \/ FinishFails(d)

CreationStep(p) ==
    \/ ClaimCreation(p) \/ ClaimCreationFails(p)
    \/ PlanCreation(p) \/ StoreSchedule(p) \/ StoreFails(p)
    \/ FinishCreation(p) \/ FinishCreationFails(p) \/ Told(p)

SchedulerNext ==
    \/ Advance
    \/ \E d \in Daemons : DaemonStep(d)
    \/ \E p \in Processes :
          \/ \E c \in CreateIds, r \in Requests : Submit(p, c, r)
          \/ CreationStep(p)
          \/ Dies(p)

SchedulerSpec == SchedulerInit /\ [][SchedulerNext]_schedulerVars

-----------------------------------------------------------------------------
(* Properties.                                                             *)

SchedulerTypeOK ==
    /\ now \in 0 .. MaxTime
    /\ schedule \in [Schedules -> [state : States, def : Definitions \cup {NoRequest}]]
    /\ command \in [Targets -> [state : Results \cup {"unclaimed", "running"},
                                request : Payloads \cup {NoRequest}]]
    /\ creation \in [CreateIds -> [state : Results \cup {"unclaimed", "running"},
                                   request : Requests \cup {NoRequest}]]
    /\ phase \in [Daemons -> {"off", "ready", "dispatch", "handling", "finish"}]
    /\ todo \in [Daemons -> SUBSET Schedules]
    /\ current \in [Daemons -> Schedules \cup {NoRequest}]
    /\ outcome \in [Daemons -> Terminal \cup {"none"}]
    /\ creator \in [Processes -> [place : {"idle", "claim", "plan", "create", "finish"},
                                  id : CreateIds \cup {NoRequest},
                                  request : Requests \cup {NoRequest},
                                  verdict : {"none", "succeeded", "failed"}]]
    /\ dispatches \in [Schedules -> Nat]
    /\ runs \in [Targets -> Nat]

\* A Schedule is dispatched at most once, by any daemon, whatever ticks
\* overlap, fail or restart (the claim comes before the dispatch).
DispatchedOnce == \A s \in Schedules : dispatches[s] <= 1

\* The effect of a target Command runs at most once, although two Schedules
\* with the same target can get past the preflight side by side.
TargetRunsOnce == \A t \in Targets : runs[t] <= 1

\* A Schedule recorded as succeeded is one whose own Command ran and was
\* recorded as succeeded.
SucceededMeansRan ==
    \A s \in Schedules : schedule[s].state = "succeeded" =>
        /\ runs[schedule[s].def.target] = 1
        /\ command[schedule[s].def.target] =
              [state |-> "succeeded", request |-> schedule[s].def.payload]

\* However many daemons, clients, answers and crashes there are, a Schedule stands
\* for one run of its Command, and its record says how that run ended.
RunsAsScheduled == DispatchedOnce /\ TargetRunsOnce /\ SucceededMeansRan

\* A Schedule left dispatching by a daemon that died, or whose claim or
\* outcome reported an error, is left alone: no tick resumes it.
OrphanScheduleStays ==
    [][\A s \in Schedules :
          schedule[s].state = "dispatching" /\ (\A d \in Daemons : current[d] # s)
            => /\ schedule'[s] = schedule[s] /\ dispatches'[s] = dispatches[s]
               /\ \A d \in Daemons : current'[d] # s]_schedulerVars
=============================================================================
