---------------------------- MODULE RoutineProofs ----------------------------
(***************************************************************************)
(* Proofs about Scheduler, and about Routine which uses it, for any number *)
(* of daemons, operators, Schedules, occurrences, repairs and failures.    *)
(*                                                                         *)
(* The Scheduler by itself: a daemon between its claim and its outcome     *)
(* holds a dispatching Schedule alone, and a handler holds a running       *)
(* Command alone.  Creation only adds files, so it disturbs neither.       *)
(*                                                                         *)
(* A Routine only ever uses the Scheduler as the Scheduler allows: every   *)
(* behaviour of Routine is one of Scheduler, so what is proved of the      *)
(* Scheduler holds of its Schedules.  The one thing to show is that what   *)
(* is submitted is a request, and that takes the reason why the chain      *)
(* stays within the clock: an occurrence is chained from one that was due. *)
(*                                                                         *)
(* The last part is about the chain itself.  While nobody failed, crashed  *)
(* or was refused, every occurrence that is no longer pending has its      *)
(* successor, or a daemon that will see to it; and until there is a first  *)
(* occurrence, the operator that activated the Routine sees to that one.   *)
(***************************************************************************)
EXTENDS Routine, WellFoundedInduction, TLAPS

Holding(d) == phase[d] \in {"dispatch", "handling", "finish"}

\* A file that exists has a definition.
Defined == \A s \in Schedules : schedule[s].state # "none" => schedule[s].def \in Definitions

\* What a daemon holds is dispatching, and nobody else holds it.
HeldAlone ==
    /\ \A d \in Daemons :
          IF Holding(d) THEN current[d] \in Schedules /\ schedule[current[d]].state = "dispatching"
                        ELSE current[d] = NoRequest
    /\ \A d, e \in Daemons : current[d] = current[e] /\ current[d] # NoRequest => d = e

\* A Schedule is not dispatched before it is claimed.
ClaimedFirst ==
    /\ \A s \in Schedules :
          /\ dispatches[s] <= 1
          /\ schedule[s].state = "pending" => dispatches[s] = 0
          /\ schedule[s].state = "none" => dispatches[s] = 0
    /\ \A d \in Daemons : phase[d] = "dispatch" => dispatches[current[d]] = 0

\* A Command that was never claimed did not run, one with a result ran once.
RunsCounted ==
    \A t \in Targets :
        /\ runs[t] <= 1
        /\ command[t].state = "unclaimed" => runs[t] = 0
        /\ command[t].state \in Results => runs[t] = 1

\* A handler runs the Command of its own Schedule, and runs it alone.
HandledAlone ==
    /\ \A d \in Daemons : phase[d] = "handling" =>
          command[Target(d)] = Claimed(Payload(d)) /\ runs[Target(d)] = 1
    /\ \A d, e \in Daemons :
          phase[d] = "handling" /\ phase[e] = "handling" /\ Target(d) = Target(e) => d = e

Succeeded(def) == command[def.target] = [state |-> "succeeded", request |-> def.payload]

\* An outcome of success is that of the Schedule's own Command.
OutcomesReal ==
    /\ \A d \in Daemons : phase[d] = "finish" =>
          /\ outcome[d] \in Terminal
          /\ outcome[d] = "succeeded" => Succeeded(schedule[current[d]].def)
    /\ \A s \in Schedules : schedule[s].state = "succeeded" => Succeeded(schedule[s].def)

\* A creation under way has its Command and its request.
CreatorsReady ==
    \A p \in Processes : creator[p].place # "idle" =>
        /\ creator[p].id \in CreateIds /\ creator[p].request \in Requests
        /\ creator[p].place = "finish" => creator[p].verdict \in {"succeeded", "failed"}

IInv ==
    /\ SchedulerTypeOK
    /\ Defined
    /\ HeldAlone
    /\ ClaimedFirst
    /\ RunsCounted
    /\ HandledAlone
    /\ OutcomesReal
    /\ CreatorsReady

-----------------------------------------------------------------------------
(* What an assignment to one file or one Ledger record changes.             *)

Files == [state : States, def : Definitions \cup {NoRequest}]

Records == [state : Results \cup {"unclaimed", "running"}, request : Payloads \cup {NoRequest}]

\* Update of a Schedule: only its state changes.
LEMMA MoveSchedule ==
    ASSUME SchedulerTypeOK, NEW s \in Schedules, NEW x \in States,
           schedule' = [schedule EXCEPT ![s].state = x]
    PROVE  /\ schedule' \in [Schedules -> Files]
           /\ \A u \in Schedules :
                 /\ schedule'[u].def = schedule[u].def
                 /\ schedule'[u].state = IF u = s THEN x ELSE schedule[u].state
<1>1. schedule \in [Schedules -> Files]
  BY DEF SchedulerTypeOK, Files
<1>2. schedule'[s] = [state |-> x, def |-> schedule[s].def]
  BY <1>1 DEF Files
<1>3. \A u \in Schedules : u # s => schedule'[u] = schedule[u]
  BY <1>1
<1>4. schedule'[s] \in Files
  BY <1>1, <1>2 DEF Files
<1>5. schedule' \in [Schedules -> Files]
  BY <1>1, <1>3, <1>4
<1>6. QED
  BY <1>2, <1>3, <1>5

\* Create of a Schedule: its file is pending.
LEMMA AddSchedule ==
    ASSUME SchedulerTypeOK, NEW s \in Schedules, NEW def \in Definitions,
           schedule' = [schedule EXCEPT ![s] = Pending(def)]
    PROVE  /\ schedule' \in [Schedules -> Files]
           /\ \A u \in Schedules : u # s => schedule'[u] = schedule[u]
           /\ schedule'[s].state = "pending" /\ schedule'[s].def = def
<1>1. schedule \in [Schedules -> Files]
  BY DEF SchedulerTypeOK, Files
<1>2. Pending(def) \in Files
  BY DEF Files, Pending, States
<1>3. schedule'[s] = Pending(def) /\ \A u \in Schedules : u # s => schedule'[u] = schedule[u]
  BY <1>1
<1>4. QED
  BY <1>1, <1>2, <1>3 DEF Pending

\* Finish of a target Command: only its state changes.
LEMMA MoveCommand ==
    ASSUME SchedulerTypeOK, NEW t \in Targets, NEW x \in Results,
           command' = [command EXCEPT ![t].state = x]
    PROVE  /\ command' \in [Targets -> Records]
           /\ command'[t] = [state |-> x, request |-> command[t].request]
           /\ \A u \in Targets : u # t => command'[u] = command[u]
<1>1. command \in [Targets -> Records]
  BY DEF SchedulerTypeOK, Records
<1>2. command'[t] = [state |-> x, request |-> command[t].request]
  BY <1>1 DEF Records
<1>3. \A u \in Targets : u # t => command'[u] = command[u]
  BY <1>1
<1>4. command'[t] \in Records
  BY <1>1, <1>2 DEF Records
<1>5. QED
  BY <1>1, <1>2, <1>3, <1>4

\* Begin of a target Command: it is running.
LEMMA ClaimCommand ==
    ASSUME SchedulerTypeOK, NEW t \in Targets, NEW p \in Payloads,
           command' = [command EXCEPT ![t] = Claimed(p)]
    PROVE  /\ command' \in [Targets -> Records]
           /\ command'[t] = Claimed(p)
           /\ \A u \in Targets : u # t => command'[u] = command[u]
<1>1. command \in [Targets -> Records]
  BY DEF SchedulerTypeOK, Records
<1>2. Claimed(p) \in Records
  BY DEF Records, Claimed
<1>3. QED
  BY <1>1, <1>2

\* What a daemon holds has a target Command.
LEMMA HeldTyped ==
    ASSUME SchedulerTypeOK, Defined, HeldAlone, NEW d \in Daemons, Holding(d)
    PROVE  /\ current[d] \in Schedules /\ schedule[current[d]].def \in Definitions
           /\ schedule[current[d]].state = "dispatching"
           /\ Target(d) \in Targets /\ Payload(d) \in Payloads
<1>1. current[d] \in Schedules /\ schedule[current[d]].state = "dispatching"
  BY DEF HeldAlone
<1>2. schedule[current[d]].def \in Definitions
  BY <1>1 DEF Defined
<1>3. QED
  BY <1>1, <1>2 DEF Definitions, Target, Payload

\* A handler's Command is running.
LEMMA HandledRuns ==
    ASSUME HandledAlone, NEW d \in Daemons, phase[d] = "handling"
    PROVE  command[Target(d)].state = "running"
<1>1. command[Target(d)] = Claimed(Payload(d))
  BY DEF HandledAlone
<1>2. QED
  BY <1>1 DEF Claimed

-----------------------------------------------------------------------------
LEMMA InitIInv == SchedulerInit => IInv
<1> SUFFICES ASSUME SchedulerInit PROVE IInv
  OBVIOUS
<1>1. SchedulerTypeOK
  BY SchedulerAssumption DEF SchedulerInit, SchedulerTypeOK, Absent, Unclaimed, Idle, States, Terminal
<1>2. Defined /\ HeldAlone /\ ClaimedFirst /\ RunsCounted /\ HandledAlone /\ OutcomesReal
  BY DEF SchedulerInit, Absent, Unclaimed, Defined, HeldAlone, Holding, ClaimedFirst, RunsCounted,
         HandledAlone, OutcomesReal, Results
<1>3. CreatorsReady
  BY DEF SchedulerInit, CreatorsReady, Idle
<1>4. QED
  BY <1>1, <1>2, <1>3 DEF IInv

-----------------------------------------------------------------------------
(* The tick of a daemon.                                                    *)

\* The clock, a start and a listing change nothing the invariant is about.
LEMMA TickKeeps ==
    ASSUME IInv, Advance \/ \E d \in Daemons : Start(d) \/ Tick(d) \/ Skip(d)
    PROVE  IInv'
<1>1. UNCHANGED <<stores, current, outcome, creator, history>>
  BY DEF Advance, Start, Tick, Skip, stores, ticks, history
<1>2. \A e \in Daemons : phase'[e] = phase[e] \/ (phase[e] = "off" /\ phase'[e] = "ready")
  BY DEF IInv, SchedulerTypeOK, Advance, Start, Tick, Skip, ticks
<1>3. SchedulerTypeOK'
  <2>1. now' \in 0 .. MaxTime
    BY SchedulerAssumption DEF IInv, SchedulerTypeOK, Advance, Start, Tick, Skip
  <2>2. phase' \in [Daemons -> {"off", "ready", "dispatch", "handling", "finish"}]
    BY DEF IInv, SchedulerTypeOK, Advance, Start, Tick, Skip, ticks
  <2>3. todo' \in [Daemons -> SUBSET Schedules]
    BY DEF IInv, SchedulerTypeOK, Advance, Start, Tick, Skip, DueAt, ticks
  <2>4. QED
    BY <1>1, <2>1, <2>2, <2>3 DEF IInv, SchedulerTypeOK, stores, history
<1>4. Defined' /\ RunsCounted' /\ CreatorsReady'
  BY <1>1 DEF IInv, Defined, RunsCounted, CreatorsReady, stores, history
<1>5. HeldAlone' /\ ClaimedFirst'
  BY <1>1, <1>2 DEF IInv, SchedulerTypeOK, HeldAlone, Holding, ClaimedFirst, stores, history
<1>6. HandledAlone'
  BY <1>1, <1>2 DEF IInv, HandledAlone, Target, Payload, stores, history
<1>7. OutcomesReal'
  BY <1>1, <1>2 DEF IInv, OutcomesReal, Succeeded, stores, history
<1>8. QED
  BY <1>3, <1>4, <1>5, <1>6, <1>7 DEF IInv

LEMMA ClaimKeeps ==
    ASSUME IInv, NEW d \in Daemons, Claim(d)
    PROVE  IInv'
<1>1. PICK s \in todo[d] :
          /\ phase[d] = "ready" /\ schedule[s].state = "pending"
          /\ schedule' = [schedule EXCEPT ![s].state = "dispatching"]
          /\ phase' = [phase EXCEPT ![d] = "dispatch"]
          /\ current' = [current EXCEPT ![d] = s]
          /\ todo' = [todo EXCEPT ![d] = @ \ {s}]
          /\ UNCHANGED <<now, command, creation, outcome, creator, history>>
  BY DEF Claim, NextDue
<1>2. s \in Schedules /\ current[d] = NoRequest /\ dispatches[s] = 0
  BY <1>1 DEF IInv, SchedulerTypeOK, HeldAlone, Holding, ClaimedFirst
<1>3. /\ schedule' \in [Schedules -> Files]
      /\ \A u \in Schedules :
            /\ schedule'[u].def = schedule[u].def
            /\ schedule'[u].state = IF u = s THEN "dispatching" ELSE schedule[u].state
  BY <1>1, <1>2, MoveSchedule DEF IInv, States
<1>4. /\ \A e \in Daemons : phase'[e] = IF e = d THEN "dispatch" ELSE phase[e]
      /\ \A e \in Daemons : current'[e] = IF e = d THEN s ELSE current[e]
  BY <1>1 DEF IInv, SchedulerTypeOK
<1>5. \A e \in Daemons : current[e] # s
  BY <1>1, <1>2, SchedulerAssumption DEF IInv, HeldAlone
<1>6. SchedulerTypeOK'
  BY <1>1, <1>2, <1>3 DEF IInv, SchedulerTypeOK, Files, history
<1>7. Defined'
  BY <1>1, <1>3 DEF IInv, Defined
<1>8. HeldAlone'
  BY <1>2, <1>3, <1>4, <1>5 DEF IInv, HeldAlone, Holding
<1>9. ClaimedFirst' /\ RunsCounted'
  BY <1>1, <1>2, <1>3, <1>4 DEF IInv, ClaimedFirst, RunsCounted, HeldAlone, Holding, history
<1>10. HandledAlone'
  <2>1. \A e \in Daemons : phase'[e] = "handling" =>
            /\ phase[e] = "handling" /\ e # d /\ current[e] \in Schedules /\ current'[e] = current[e]
            /\ Target(e)' = Target(e) /\ Payload(e)' = Payload(e)
    BY <1>3, <1>4 DEF IInv, HeldAlone, Holding, Target, Payload
  <2>2. QED
    BY <1>1, <2>1 DEF IInv, HandledAlone, history
<1>11. OutcomesReal'
  <2>1. \A def : Succeeded(def)' <=> Succeeded(def)
    BY <1>1 DEF Succeeded
  <2>2. \A e \in Daemons : phase'[e] = "finish" =>
            /\ phase[e] = "finish" /\ outcome'[e] = outcome[e]
            /\ schedule'[current'[e]].def = schedule[current[e]].def
    BY <1>1, <1>3, <1>4 DEF IInv, HeldAlone, Holding
  <2>3. \A s1 \in Schedules : schedule'[s1].state = "succeeded" =>
            schedule[s1].state = "succeeded" /\ schedule'[s1].def = schedule[s1].def
    BY <1>3
  <2>4. QED
    BY <2>1, <2>2, <2>3 DEF IInv, OutcomesReal
<1>12. CreatorsReady'
  BY <1>1 DEF IInv, CreatorsReady
<1>13. QED
  BY <1>6, <1>7, <1>8, <1>9, <1>10, <1>11, <1>12 DEF IInv

LEMMA ClaimFailsKeeps ==
    ASSUME IInv, NEW d \in Daemons, ClaimFails(d)
    PROVE  IInv'
<1>1. PICK s \in todo[d] :
          /\ phase[d] = "ready"
          /\ Abort(d)
          /\ \/ UNCHANGED schedule
             \/ /\ schedule[s].state = "pending"
                /\ schedule' = [schedule EXCEPT ![s].state = "dispatching"]
          /\ UNCHANGED <<now, command, creation, creator, history>>
  BY DEF ClaimFails, NextDue
<1>2. s \in Schedules /\ current[d] = NoRequest
  BY <1>1 DEF IInv, SchedulerTypeOK, HeldAlone, Holding
<1>3. /\ schedule' \in [Schedules -> Files]
      /\ \A u \in Schedules :
            /\ schedule'[u].def = schedule[u].def
            /\ \/ schedule'[u].state = schedule[u].state
               \/ schedule[u].state = "pending" /\ schedule'[u].state = "dispatching"
  <2>1. CASE UNCHANGED schedule
    BY <2>1 DEF IInv, SchedulerTypeOK, Files
  <2>2. CASE schedule[s].state = "pending" /\ schedule' = [schedule EXCEPT ![s].state = "dispatching"]
    <3>1. /\ schedule' \in [Schedules -> Files]
          /\ \A u \in Schedules :
                /\ schedule'[u].def = schedule[u].def
                /\ schedule'[u].state = IF u = s THEN "dispatching" ELSE schedule[u].state
      BY <1>2, <2>2, MoveSchedule DEF IInv, States
    <3>2. QED
      BY <2>2, <3>1
  <2>3. QED
    BY <1>1, <2>1, <2>2
<1>4. \A e \in Daemons : phase'[e] = phase[e] /\ current'[e] = current[e]
  BY <1>1, <1>2 DEF Abort, IInv, SchedulerTypeOK
<1>5. \A e \in Daemons : outcome'[e] = IF e = d THEN "none" ELSE outcome[e]
  BY <1>1 DEF Abort, IInv, SchedulerTypeOK
<1>6. SchedulerTypeOK'
  BY <1>1, <1>3 DEF Abort, IInv, SchedulerTypeOK, Files, history
<1>7. Defined'
  BY <1>3 DEF IInv, Defined
<1>8. HeldAlone'
  BY <1>3, <1>4 DEF IInv, HeldAlone, Holding
<1>9. ClaimedFirst' /\ RunsCounted'
  BY <1>1, <1>3, <1>4 DEF IInv, ClaimedFirst, RunsCounted, history
<1>10. HandledAlone'
  <2>1. \A e \in Daemons : phase'[e] = "handling" =>
            /\ phase[e] = "handling"
            /\ Target(e)' = Target(e) /\ Payload(e)' = Payload(e)
    BY <1>3, <1>4 DEF IInv, HeldAlone, Holding, Target, Payload
  <2>2. QED
    BY <1>1, <2>1 DEF IInv, HandledAlone, history
<1>11. OutcomesReal'
  <2>1. \A def : Succeeded(def)' <=> Succeeded(def)
    BY <1>1 DEF Succeeded
  <2>2. \A e \in Daemons : phase'[e] = "finish" =>
            /\ phase[e] = "finish" /\ outcome'[e] = outcome[e]
            /\ schedule'[current'[e]].def = schedule[current[e]].def
    BY <1>1, <1>3, <1>4, <1>5 DEF IInv, HeldAlone, Holding
  <2>3. \A u \in Schedules : schedule'[u].state = "succeeded" =>
            schedule[u].state = "succeeded" /\ schedule'[u].def = schedule[u].def
    BY <1>3
  <2>4. QED
    BY <2>1, <2>2, <2>3 DEF IInv, OutcomesReal
<1>12. CreatorsReady'
  BY <1>1 DEF IInv, CreatorsReady
<1>13. QED
  BY <1>6, <1>7, <1>8, <1>9, <1>10, <1>11, <1>12 DEF IInv

-----------------------------------------------------------------------------
(* The target Command.                                                      *)

LEMMA DispatchClaimsKeeps ==
    ASSUME IInv, NEW d \in Daemons, DispatchClaims(d)
    PROVE  IInv'
<1> DEFINE t == Target(d)
<1>1. /\ phase[d] = "dispatch" /\ command[t] = Unclaimed
      /\ command' = [command EXCEPT ![t] = Claimed(Payload(d))]
      /\ runs' = [runs EXCEPT ![t] = @ + 1]
      /\ dispatches' = [dispatches EXCEPT ![current[d]] = @ + 1]
      /\ phase' = [phase EXCEPT ![d] = "handling"]
      /\ UNCHANGED <<now, schedule, creation, todo, current, outcome, creator>>
  BY DEF DispatchClaims, Dispatched
<1>2. /\ current[d] \in Schedules /\ schedule[current[d]].state = "dispatching"
      /\ t \in Targets /\ Payload(d) \in Payloads
  BY <1>1, HeldTyped DEF IInv, Holding
<1>3. /\ command' \in [Targets -> Records]
      /\ command'[t] = Claimed(Payload(d))
      /\ \A u \in Targets : u # t => command'[u] = command[u]
  BY <1>1, <1>2, ClaimCommand DEF IInv
<1>4. runs[t] = 0 /\ dispatches[current[d]] = 0
  BY <1>1, <1>2 DEF IInv, RunsCounted, ClaimedFirst, Unclaimed
<1>5. /\ \A u \in Targets : runs'[u] = IF u = t THEN 1 ELSE runs[u]
      /\ \A u \in Schedules : dispatches'[u] = IF u = current[d] THEN 1 ELSE dispatches[u]
  BY <1>1, <1>2, <1>4 DEF IInv, SchedulerTypeOK
<1>6. \A e \in Daemons : phase'[e] = IF e = d THEN "handling" ELSE phase[e]
  BY <1>1 DEF IInv, SchedulerTypeOK
<1>7. SchedulerTypeOK'
  BY <1>1, <1>2, <1>3 DEF IInv, SchedulerTypeOK, Records
<1>8. Defined' /\ CreatorsReady'
  BY <1>1 DEF IInv, Defined, CreatorsReady
<1>9. HeldAlone'
  BY <1>1, <1>6 DEF IInv, HeldAlone, Holding
<1>10. ClaimedFirst'
  <2>1. \A e \in Daemons : e # d /\ phase[e] = "dispatch" =>
            current[e] # current[d] /\ current[e] \in Schedules
    BY <1>1, <1>2, SchedulerAssumption DEF IInv, HeldAlone, Holding
  <2>2. QED
    BY <1>1, <1>2, <1>5, <1>6, <2>1 DEF IInv, ClaimedFirst
<1>11. RunsCounted'
  BY <1>3, <1>5 DEF IInv, RunsCounted, Claimed, Results
<1>12. HandledAlone'
  <2>1. \A e \in Daemons : Target(e)' = Target(e) /\ Payload(e)' = Payload(e)
    BY <1>1 DEF Target, Payload
  <2>2. \A e \in Daemons : phase[e] = "handling" => Target(e) # t
    <3>1. command[t].state = "unclaimed"
      BY <1>1 DEF Unclaimed
    <3>2. \A e \in Daemons : phase[e] = "handling" => command[Target(e)].state = "running"
      BY HandledRuns DEF IInv
    <3>3. QED
      BY <3>1, <3>2
  <2>3. \A e \in Daemons : phase[e] = "handling" => Target(e) \in Targets
    BY HeldTyped DEF IInv, Holding
  <2>4. ASSUME NEW e \in Daemons, phase'[e] = "handling"
        PROVE  command'[Target(e)'] = Claimed(Payload(e)') /\ runs'[Target(e)'] = 1
    <3>1. CASE e = d
      BY <1>2, <1>3, <1>5, <2>1, <3>1
    <3>2. CASE e # d
      BY <1>3, <1>5, <1>6, <2>1, <2>2, <2>3, <2>4, <3>2 DEF IInv, HandledAlone
    <3>3. QED
      BY <3>1, <3>2
  <2>5. \A e, f \in Daemons :
            phase'[e] = "handling" /\ phase'[f] = "handling" /\ Target(e)' = Target(f)' => e = f
    BY <1>6, <2>1, <2>2 DEF IInv, HandledAlone
  <2>6. QED
    BY <2>4, <2>5 DEF HandledAlone
<1>13. OutcomesReal'
  <2>1. \A def \in Definitions : Succeeded(def) => Succeeded(def)'
    BY <1>1, <1>2, <1>3 DEF Succeeded, Unclaimed, Definitions
  <2>2. \A e \in Daemons : phase'[e] = "finish" =>
            /\ phase[e] = "finish" /\ schedule[current[e]].def \in Definitions
    BY <1>6, HeldTyped DEF IInv, Holding
  <2>3. QED
    BY <1>1, <2>1, <2>2 DEF IInv, OutcomesReal, Defined
<1>14. QED
  BY <1>7, <1>8, <1>9, <1>10, <1>11, <1>12, <1>13 DEF IInv

\* An answer from the record, or none: nothing runs.
LEMMA AnsweredKeeps ==
    ASSUME IInv, NEW d \in Daemons, DispatchAnswered(d) \/ DispatchFails(d)
    PROVE  IInv'
<1> DEFINE t == Target(d)
<1>1. /\ phase[d] = "dispatch"
      /\ dispatches' = [dispatches EXCEPT ![current[d]] = @ + 1]
      /\ UNCHANGED <<now, schedule, creation, todo, current, creator, runs>>
  BY DEF DispatchAnswered, DispatchFails, Dispatched, Answered, stores
<1>2. /\ current[d] \in Schedules /\ schedule[current[d]].state = "dispatching"
      /\ schedule[current[d]].def \in Definitions
      /\ t \in Targets /\ Payload(d) \in Payloads
  BY <1>1, HeldTyped DEF IInv, Holding
<1>3. PICK o \in Terminal :
          /\ phase' = [phase EXCEPT ![d] = "finish"]
          /\ outcome' = [outcome EXCEPT ![d] = o]
          /\ \/ UNCHANGED command /\ (o = "succeeded" => Succeeded(schedule[current[d]].def))
             \/ /\ command[t] = Unclaimed /\ o # "succeeded"
                /\ command' = [command EXCEPT ![t] = Claimed(Payload(d))]
  <2>1. CASE DispatchFails(d)
    BY <2>1 DEF DispatchFails, Answered, Terminal
  <2>2. CASE DispatchAnswered(d)
    <3>1. UNCHANGED command /\ command[t] # Unclaimed
      BY <2>2 DEF DispatchAnswered, stores
    <3>2. CASE Answered(d, "failed")
      BY <3>1, <3>2 DEF Answered, Terminal
    <3>3. CASE ~Answered(d, "failed")
      <4>1. PICK o \in OutcomesOf(command[t].state) :
                command[t].request = Payload(d) /\ Answered(d, o)
        BY <2>2, <3>3 DEF DispatchAnswered
      <4>2. command[t] \in Records
        BY <1>2 DEF IInv, SchedulerTypeOK, Records
      <4>3. o \in Terminal /\ (o = "succeeded" => command[t].state = "succeeded")
        BY <4>1 DEF OutcomesOf, Terminal
      <4>4. o = "succeeded" => Succeeded(schedule[current[d]].def)
        BY <4>1, <4>2, <4>3 DEF Succeeded, Records, Target, Payload
      <4>5. QED
        BY <3>1, <4>1, <4>3, <4>4 DEF Answered
    <3>4. QED
      BY <3>2, <3>3
  <2>3. QED
    BY <2>1, <2>2
<1>4. /\ command' \in [Targets -> Records]
      /\ \A u \in Targets :
            \/ command'[u] = command[u]
            \/ command[u] = Unclaimed /\ command'[u] = Claimed(Payload(d))
  <2>1. CASE UNCHANGED command
    BY <2>1 DEF IInv, SchedulerTypeOK, Records
  <2>2. CASE command[t] = Unclaimed /\ command' = [command EXCEPT ![t] = Claimed(Payload(d))]
    <3>1. /\ command' \in [Targets -> Records]
          /\ command'[t] = Claimed(Payload(d))
          /\ \A u \in Targets : u # t => command'[u] = command[u]
      BY <1>2, <2>2, ClaimCommand DEF IInv
    <3>2. QED
      BY <2>2, <3>1
  <2>3. QED
    BY <1>3, <2>1, <2>2
<1>5. dispatches[current[d]] = 0
  BY <1>1 DEF IInv, ClaimedFirst
<1>6. \A u \in Schedules : dispatches'[u] = IF u = current[d] THEN 1 ELSE dispatches[u]
  BY <1>1, <1>2, <1>5 DEF IInv, SchedulerTypeOK
<1>7. /\ \A e \in Daemons : phase'[e] = IF e = d THEN "finish" ELSE phase[e]
      /\ \A e \in Daemons : outcome'[e] = IF e = d THEN o ELSE outcome[e]
  BY <1>3 DEF IInv, SchedulerTypeOK
<1>8. SchedulerTypeOK'
  BY <1>1, <1>2, <1>3, <1>4 DEF IInv, SchedulerTypeOK, Records
<1>9. Defined' /\ CreatorsReady'
  BY <1>1 DEF IInv, Defined, CreatorsReady
<1>10. HeldAlone'
  BY <1>1, <1>7 DEF IInv, HeldAlone, Holding
<1>11. ClaimedFirst'
  <2>1. \A e \in Daemons : e # d /\ phase[e] = "dispatch" =>
            current[e] # current[d] /\ current[e] \in Schedules
    BY <1>1, <1>2, SchedulerAssumption DEF IInv, HeldAlone, Holding
  <2>2. QED
    BY <1>1, <1>2, <1>6, <1>7, <2>1 DEF IInv, ClaimedFirst
<1>12. RunsCounted'
  BY <1>1, <1>4 DEF IInv, RunsCounted, Claimed, Unclaimed, Results
<1>13. HandledAlone'
  <2>1. \A e \in Daemons : Target(e)' = Target(e) /\ Payload(e)' = Payload(e)
    BY <1>1 DEF Target, Payload
  <2>2. \A e \in Daemons : phase'[e] = "handling" => phase[e] = "handling" /\ Target(e) \in Targets
    BY <1>7, HeldTyped DEF IInv, Holding
  <2>3. \A e \in Daemons : phase[e] = "handling" => command[Target(e)].state = "running"
    BY HandledRuns DEF IInv
  <2>4. Unclaimed.state = "unclaimed"
    BY DEF Unclaimed
  <2>5. \A e \in Daemons : phase'[e] = "handling" => command'[Target(e)] = command[Target(e)]
    BY <1>4, <2>2, <2>3, <2>4
  <2>6. QED
    BY <1>1, <2>1, <2>2, <2>5 DEF IInv, HandledAlone
<1>14. OutcomesReal'
  <2>1. Unclaimed.state = "unclaimed"
    BY DEF Unclaimed
  <2>2. \A def \in Definitions : Succeeded(def) => Succeeded(def)'
    BY <1>4, <2>1 DEF Succeeded, Definitions
  <2>3. \A e \in Daemons : Holding(e) => schedule[current[e]].def \in Definitions
    BY HeldTyped DEF IInv
  <2>4. ASSUME NEW e \in Daemons, phase'[e] = "finish"
        PROVE  /\ outcome'[e] \in Terminal
               /\ outcome'[e] = "succeeded" => Succeeded(schedule[current[e]].def)'
    <3>1. CASE e = d
      BY <1>1, <1>2, <1>3, <1>7, <2>2, <3>1
    <3>2. CASE e # d
      BY <1>1, <1>7, <2>2, <2>3, <2>4, <3>2 DEF IInv, OutcomesReal, Holding
    <3>3. QED
      BY <3>1, <3>2
  <2>5. \A u \in Schedules : schedule'[u].state = "succeeded" => Succeeded(schedule[u].def)'
    BY <1>1, <2>2 DEF IInv, OutcomesReal, Defined
  <2>6. QED
    BY <2>4, <2>5 DEF OutcomesReal
<1>15. QED
  BY <1>8, <1>9, <1>10, <1>11, <1>12, <1>13, <1>14 DEF IInv

\* The handler's Command is its own, whatever becomes of its result.
LEMMA HandledKeeps ==
    ASSUME IInv, NEW d \in Daemons, NEW r \in Results,
           HandlerReturns(d, r) \/ HandlerUnrecorded(d, r)
    PROVE  IInv'
<1> DEFINE t == Target(d)
<1>1. /\ phase[d] = "handling"
      /\ UNCHANGED <<now, schedule, creation, todo, current, creator, history>>
  BY DEF HandlerReturns, HandlerUnrecorded, Answered
<1>2. /\ current[d] \in Schedules /\ schedule[current[d]].def \in Definitions
      /\ t \in Targets /\ Payload(d) \in Payloads
  BY <1>1, HeldTyped DEF IInv, Holding
<1>3. command[t] = Claimed(Payload(d)) /\ runs[t] = 1
  BY <1>1 DEF IInv, HandledAlone
<1>4. PICK o \in Terminal :
          /\ phase' = [phase EXCEPT ![d] = "finish"]
          /\ outcome' = [outcome EXCEPT ![d] = o]
          /\ \/ UNCHANGED command /\ o # "succeeded"
             \/ /\ command' = [command EXCEPT ![t].state = r]
                /\ o = "succeeded" => r = "succeeded"
  <2>1. CASE HandlerUnrecorded(d, r)
    BY <2>1 DEF HandlerUnrecorded, Answered, Terminal
  <2>2. CASE HandlerReturns(d, r)
    <3>1. PICK o \in OutcomesOf(r) : Answered(d, o)
      BY <2>2 DEF HandlerReturns
    <3>2. o \in Terminal /\ (o = "succeeded" => r = "succeeded")
      BY DEF OutcomesOf, Terminal
    <3>3. QED
      BY <2>2, <3>1, <3>2 DEF HandlerReturns, Answered
  <2>3. QED
    BY <2>1, <2>2
<1>5. /\ command' \in [Targets -> Records]
      /\ \A u \in Targets : u # t => command'[u] = command[u]
      /\ command'[t].state \in Results \cup {"running"}
      /\ o = "succeeded" => command'[t] = [state |-> "succeeded", request |-> Payload(d)]
  <2>1. CASE UNCHANGED command /\ o # "succeeded"
    BY <1>3, <2>1 DEF IInv, SchedulerTypeOK, Records, Claimed
  <2>2. CASE command' = [command EXCEPT ![t].state = r] /\ (o = "succeeded" => r = "succeeded")
    <3>1. /\ command' \in [Targets -> Records]
          /\ command'[t] = [state |-> r, request |-> command[t].request]
          /\ \A u \in Targets : u # t => command'[u] = command[u]
      BY <1>2, <2>2, MoveCommand DEF IInv
    <3>2. command[t].request = Payload(d)
      BY <1>3 DEF Claimed
    <3>3. QED
      BY <2>2, <3>1, <3>2
  <2>3. QED
    BY <1>4, <2>1, <2>2
<1>6. /\ \A e \in Daemons : phase'[e] = IF e = d THEN "finish" ELSE phase[e]
      /\ \A e \in Daemons : outcome'[e] = IF e = d THEN o ELSE outcome[e]
  BY <1>4 DEF IInv, SchedulerTypeOK
<1>7. SchedulerTypeOK'
  BY <1>1, <1>4, <1>5 DEF IInv, SchedulerTypeOK, Records, history
<1>8. Defined' /\ CreatorsReady'
  BY <1>1 DEF IInv, Defined, CreatorsReady
<1>9. HeldAlone'
  BY <1>1, <1>6 DEF IInv, HeldAlone, Holding
<1>10. ClaimedFirst'
  BY <1>1, <1>6 DEF IInv, ClaimedFirst, history
<1>11. RunsCounted'
  BY <1>1, <1>3, <1>5 DEF IInv, RunsCounted, Results, history
<1>12. HandledAlone'
  <2>1. \A e \in Daemons : Target(e)' = Target(e) /\ Payload(e)' = Payload(e)
    BY <1>1 DEF Target, Payload
  <2>2. \A e \in Daemons : phase'[e] = "handling" =>
            phase[e] = "handling" /\ Target(e) \in Targets /\ Target(e) # t
    BY <1>1, <1>6, HeldTyped DEF IInv, Holding, HandledAlone
  <2>3. QED
    BY <1>1, <1>5, <2>1, <2>2 DEF IInv, HandledAlone, history
<1>13. OutcomesReal'
  <2>1. \A def \in Definitions : Succeeded(def) => Succeeded(def)'
    <3>1. command[t].state = "running"
      BY <1>3 DEF Claimed
    <3>2. QED
      BY <1>5, <3>1 DEF Succeeded, Definitions
  <2>2. \A e \in Daemons : Holding(e) => schedule[current[e]].def \in Definitions
    BY HeldTyped DEF IInv
  <2>3. o = "succeeded" => Succeeded(schedule[current[d]].def)'
    BY <1>1, <1>5 DEF Succeeded, Target, Payload
  <2>4. ASSUME NEW e \in Daemons, phase'[e] = "finish"
        PROVE  /\ outcome'[e] \in Terminal
               /\ outcome'[e] = "succeeded" => Succeeded(schedule[current[e]].def)'
    <3>1. CASE e = d
      BY <1>4, <1>6, <2>3, <3>1
    <3>2. CASE e # d
      BY <1>1, <1>6, <2>1, <2>2, <2>4, <3>2 DEF IInv, OutcomesReal, Holding
    <3>3. QED
      BY <3>1, <3>2
  <2>5. \A u \in Schedules : schedule'[u].state = "succeeded" => Succeeded(schedule[u].def)'
    BY <1>1, <2>1 DEF IInv, OutcomesReal, Defined
  <2>6. QED
    BY <2>4, <2>5 DEF OutcomesReal
<1>14. QED
  BY <1>7, <1>8, <1>9, <1>10, <1>11, <1>12, <1>13 DEF IInv

\* The outcome is saved, or the Schedule stays dispatching, held by nobody.
LEMMA FinishedKeeps ==
    ASSUME IInv, NEW d \in Daemons, Finish(d) \/ FinishFails(d)
    PROVE  IInv'
<1>1. /\ phase[d] = "finish"
      /\ UNCHANGED schedule \/ schedule' = [schedule EXCEPT ![current[d]].state = outcome[d]]
      /\ phase' = [phase EXCEPT ![d] = "ready"]
      /\ current' = [current EXCEPT ![d] = NoRequest]
      /\ outcome' = [outcome EXCEPT ![d] = "none"]
      /\ todo' \in [Daemons -> SUBSET Schedules]
      /\ UNCHANGED <<now, command, creation, creator, history>>
  BY DEF Finish, FinishFails, Abort, IInv, SchedulerTypeOK
<1>2. /\ current[d] \in Schedules /\ schedule[current[d]].state = "dispatching"
      /\ outcome[d] \in Terminal
      /\ outcome[d] = "succeeded" => Succeeded(schedule[current[d]].def)
  BY <1>1 DEF IInv, HeldAlone, Holding, OutcomesReal
<1>3. /\ schedule' \in [Schedules -> Files]
      /\ \A u \in Schedules :
            /\ schedule'[u].def = schedule[u].def
            /\ \/ schedule'[u].state = schedule[u].state
               \/ u = current[d] /\ schedule'[u].state = outcome[d]
  <2>1. CASE UNCHANGED schedule
    BY <2>1 DEF IInv, SchedulerTypeOK, Files
  <2>2. CASE schedule' = [schedule EXCEPT ![current[d]].state = outcome[d]]
    <3>1. outcome[d] \in States
      BY <1>2 DEF States
    <3>2. /\ schedule' \in [Schedules -> Files]
          /\ \A u \in Schedules :
                /\ schedule'[u].def = schedule[u].def
                /\ schedule'[u].state = IF u = current[d] THEN outcome[d] ELSE schedule[u].state
      BY <1>2, <2>2, <3>1, MoveSchedule DEF IInv
    <3>3. QED
      BY <3>2
  <2>3. QED
    BY <1>1, <2>1, <2>2
<1>4. /\ \A e \in Daemons : phase'[e] = IF e = d THEN "ready" ELSE phase[e]
      /\ \A e \in Daemons : current'[e] = IF e = d THEN NoRequest ELSE current[e]
      /\ \A e \in Daemons : outcome'[e] = IF e = d THEN "none" ELSE outcome[e]
  BY <1>1 DEF IInv, SchedulerTypeOK
<1>5. \A e \in Daemons : Holding(e) /\ e # d => current[e] \in Schedules /\ current[e] # current[d]
  BY <1>2, SchedulerAssumption DEF IInv, HeldAlone
<1>6. SchedulerTypeOK'
  BY <1>1, <1>3 DEF IInv, SchedulerTypeOK, Files, history
<1>7. Defined'
  BY <1>2, <1>3 DEF IInv, Defined
<1>8. HeldAlone'
  BY <1>3, <1>4, <1>5 DEF IInv, HeldAlone, Holding
<1>9. ClaimedFirst' /\ RunsCounted'
  BY <1>1, <1>2, <1>3, <1>4 DEF IInv, ClaimedFirst, RunsCounted, Terminal, history
<1>10. HandledAlone'
  <2>1. \A e \in Daemons : phase'[e] = "handling" =>
            /\ phase[e] = "handling"
            /\ Target(e)' = Target(e) /\ Payload(e)' = Payload(e)
    BY <1>3, <1>4, <1>5 DEF Holding, Target, Payload
  <2>2. QED
    BY <1>1, <2>1 DEF IInv, HandledAlone, history
<1>11. OutcomesReal'
  <2>1. \A def : Succeeded(def)' <=> Succeeded(def)
    BY <1>1 DEF Succeeded
  <2>2. \A e \in Daemons : phase'[e] = "finish" =>
            /\ phase[e] = "finish" /\ outcome'[e] = outcome[e]
            /\ schedule'[current'[e]].def = schedule[current[e]].def
    BY <1>3, <1>4, <1>5 DEF Holding
  <2>3. \A u \in Schedules : schedule'[u].state = "succeeded" => Succeeded(schedule'[u].def)
    BY <1>2, <1>3 DEF IInv, OutcomesReal
  <2>4. QED
    BY <2>1, <2>2, <2>3 DEF IInv, OutcomesReal
<1>12. CreatorsReady'
  BY <1>1 DEF IInv, CreatorsReady
<1>13. QED
  BY <1>6, <1>7, <1>8, <1>9, <1>10, <1>11, <1>12 DEF IInv

LEMMA DiesKeeps ==
    ASSUME IInv, NEW p \in Processes, Dies(p)
    PROVE  IInv'
<1>1. /\ creator' = [creator EXCEPT ![p] = Idle]
      /\ UNCHANGED <<now, stores, history>>
      /\ \A d \in Daemons :
            /\ phase'[d] = IF d = p THEN "off" ELSE phase[d]
            /\ current'[d] = IF d = p THEN NoRequest ELSE current[d]
            /\ outcome'[d] = IF d = p THEN "none" ELSE outcome[d]
  BY DEF Dies
<1>2. SchedulerTypeOK'
  <2>1. Idle \in [place : {"idle", "claim", "plan", "create", "finish"},
                  id : CreateIds \cup {NoRequest}, request : Requests \cup {NoRequest},
                  verdict : {"none", "succeeded", "failed"}]
    BY DEF Idle
  <2>2. QED
    BY <1>1, <2>1 DEF Dies, IInv, SchedulerTypeOK, stores, history
<1>3. Defined' /\ RunsCounted'
  BY <1>1 DEF IInv, Defined, RunsCounted, stores, history
<1>4. HeldAlone'
  BY <1>1 DEF IInv, HeldAlone, Holding, stores
<1>5. ClaimedFirst'
  BY <1>1 DEF IInv, ClaimedFirst, stores, history
<1>6. HandledAlone'
  <2>1. \A e \in Daemons : phase'[e] = "handling" =>
            phase[e] = "handling" /\ Target(e)' = Target(e) /\ Payload(e)' = Payload(e)
    BY <1>1 DEF Target, Payload, stores
  <2>2. QED
    BY <1>1, <2>1 DEF IInv, HandledAlone, stores, history
<1>7. OutcomesReal'
  <2>1. \A def : Succeeded(def)' <=> Succeeded(def)
    BY <1>1 DEF Succeeded, stores
  <2>2. \A e \in Daemons : phase'[e] = "finish" =>
            phase[e] = "finish" /\ outcome'[e] = outcome[e] /\ current'[e] = current[e]
    BY <1>1
  <2>3. QED
    BY <1>1, <2>1, <2>2 DEF IInv, OutcomesReal, stores
<1>8. CreatorsReady'
  BY <1>1 DEF IInv, SchedulerTypeOK, CreatorsReady, Idle
<1>9. QED
  BY <1>2, <1>3, <1>4, <1>5, <1>6, <1>7, <1>8 DEF IInv

-----------------------------------------------------------------------------
(* Creation only adds pending Schedules.                                    *)

Creators == [place : {"idle", "claim", "plan", "create", "finish"},
             id : CreateIds \cup {NoRequest},
             request : Requests \cup {NoRequest},
             verdict : {"none", "succeeded", "failed"}]

CreatorOK(c) ==
    /\ c \in Creators
    /\ c.place # "idle" => c.id \in CreateIds /\ c.request \in Requests
    /\ c.place = "finish" => c.verdict \in {"succeeded", "failed"}

\* Every assignment to a creator leaves a typed one behind.
LEMMA SetCreator ==
    ASSUME SchedulerTypeOK, CreatorsReady, NEW p \in Processes, NEW c, CreatorOK(c),
           creator' = [creator EXCEPT ![p] = c]
    PROVE  creator' \in [Processes -> Creators] /\ CreatorsReady'
<1>1. creator \in [Processes -> Creators]
  BY DEF SchedulerTypeOK, Creators
<1>2. c \in Creators
  BY DEF CreatorOK
<1>3. creator' \in [Processes -> Creators]
  BY <1>1, <1>2
<1>4. \A q \in Processes : creator'[q] = IF q = p THEN c ELSE creator[q]
  BY <1>1
<1>5. QED
  BY <1>3, <1>4 DEF CreatorsReady, CreatorOK

LEMMA GotoCreator ==
    ASSUME SchedulerTypeOK, CreatorsReady, NEW p \in Processes, creator[p].place # "idle",
           NEW place \in {"plan", "create"}, Goto(p, place)
    PROVE  creator' \in [Processes -> Creators] /\ CreatorsReady'
<1> DEFINE c == [place |-> place, id |-> creator[p].id, request |-> creator[p].request,
                 verdict |-> creator[p].verdict]
<1>1. creator \in [Processes -> Creators]
  BY DEF SchedulerTypeOK, Creators
<1>2. creator' = [creator EXCEPT ![p] = c]
  <2>1. [creator[p] EXCEPT !.place = place] = c
    BY <1>1 DEF Creators
  <2>2. creator' = [creator EXCEPT ![p] = [creator[p] EXCEPT !.place = place]]
    BY DEF Goto
  <2>3. QED
    BY <2>1, <2>2
<1>3. CreatorOK(c)
  BY <1>1 DEF CreatorOK, Creators, CreatorsReady
<1>4. QED
  BY <1>2, <1>3, SetCreator

LEMMA FinishCreator ==
    ASSUME SchedulerTypeOK, CreatorsReady, NEW p \in Processes, creator[p].place # "idle",
           NEW verdict \in {"succeeded", "failed"}, ToFinish(p, verdict)
    PROVE  creator' \in [Processes -> Creators] /\ CreatorsReady'
<1> DEFINE c == [place |-> "finish", id |-> creator[p].id, request |-> creator[p].request,
                 verdict |-> verdict]
<1>1. creator \in [Processes -> Creators]
  BY DEF SchedulerTypeOK, Creators
<1>2. creator' = [creator EXCEPT ![p] = c]
  <2>1. creator \in [Processes -> [place : {"idle", "claim", "plan", "create", "finish"},
                                   id : CreateIds \cup {NoRequest},
                                   request : Requests \cup {NoRequest},
                                   verdict : {"none", "succeeded", "failed"}]]
    BY DEF SchedulerTypeOK
  <2>2. creator'[p] = c
    BY <2>1 DEF ToFinish
  <2>3. creator' \in [Processes -> Creators]
    BY <2>1 DEF ToFinish, Creators
  <2>4. \A q \in Processes : q # p => creator'[q] = creator[q]
    BY <2>1 DEF ToFinish
  <2>5. QED
    BY <1>1, <2>2, <2>3, <2>4
<1>3. CreatorOK(c)
  BY <1>1 DEF CreatorOK, Creators, CreatorsReady
<1>4. QED
  BY <1>2, <1>3, SetCreator

LEMMA ReturnCreator ==
    ASSUME SchedulerTypeOK, CreatorsReady, NEW p \in Processes,
           NEW verdict \in {"none", "succeeded", "failed"}, CreationReturns(p, verdict)
    PROVE  creator' \in [Processes -> Creators] /\ CreatorsReady'
<1> DEFINE c == [place |-> "idle", id |-> NoRequest, request |-> NoRequest, verdict |-> verdict]
<1>1. creator' = [creator EXCEPT ![p] = c]
  <2>1. [Idle EXCEPT !.verdict = verdict] = c
    BY DEF Idle
  <2>2. QED
    BY <2>1 DEF CreationReturns
<1>2. CreatorOK(c)
  BY DEF CreatorOK, Creators
<1>3. QED
  BY <1>1, <1>2, SetCreator

\* Whatever creation does, the daemons' part of the invariant holds on.
LEMMA AddedKeeps ==
    ASSUME IInv,
           UNCHANGED <<now, command, ticks, history>>,
           schedule' \in [Schedules -> Files],
           \A u \in Schedules :
              \/ schedule'[u] = schedule[u]
              \/ /\ schedule[u] = Absent
                 /\ schedule'[u].state = "pending" /\ schedule'[u].def \in Definitions,
           creation' \in [CreateIds -> [state : Results \cup {"unclaimed", "running"},
                                        request : Requests \cup {NoRequest}]],
           creator' \in [Processes -> Creators] /\ CreatorsReady'
    PROVE  IInv'
<1>1. Absent.state = "none"
  BY DEF Absent
<1>2. \A e \in Daemons : Holding(e) =>
          current[e] \in Schedules /\ schedule'[current[e]] = schedule[current[e]]
  BY <1>1 DEF IInv, HeldAlone
<1>3. SchedulerTypeOK'
  BY DEF IInv, SchedulerTypeOK, Files, Creators, ticks, history
<1>4. Defined'
  BY <1>1 DEF IInv, Defined
<1>5. HeldAlone'
  BY <1>2 DEF IInv, HeldAlone, Holding, ticks
<1>6. ClaimedFirst' /\ RunsCounted'
  BY <1>1 DEF IInv, ClaimedFirst, RunsCounted, ticks, history
<1>7. HandledAlone'
  <2>1. \A e \in Daemons : phase'[e] = "handling" =>
            phase[e] = "handling" /\ Target(e)' = Target(e) /\ Payload(e)' = Payload(e)
    BY <1>2 DEF Holding, Target, Payload, ticks
  <2>2. QED
    BY <2>1 DEF IInv, HandledAlone, history
<1>8. OutcomesReal'
  <2>1. \A def : Succeeded(def)' <=> Succeeded(def)
    BY DEF Succeeded
  <2>2. \A e \in Daemons : phase'[e] = "finish" =>
            /\ phase[e] = "finish" /\ outcome'[e] = outcome[e]
            /\ schedule'[current'[e]].def = schedule[current[e]].def
    BY <1>2 DEF Holding, ticks
  <2>3. \A u \in Schedules : schedule'[u].state = "succeeded" => schedule'[u] = schedule[u]
    OBVIOUS
  <2>4. QED
    BY <2>1, <2>2, <2>3 DEF IInv, OutcomesReal
<1>9. QED
  BY <1>3, <1>4, <1>5, <1>6, <1>7, <1>8 DEF IInv

LEMMA CreationKeeps ==
    ASSUME IInv, NEW p \in Processes, CreationStep(p)
    PROVE  IInv'
<1> DEFINE c == creator[p].id
           r == creator[p].request
           Known == [CreateIds -> [state : Results \cup {"unclaimed", "running"},
                                   request : Requests \cup {NoRequest}]]
           Ready == creator[p].place # "idle" => c \in CreateIds /\ r \in Requests
           Added == \A u \in Schedules :
                       \/ schedule'[u] = schedule[u]
                       \/ /\ schedule[u] = Absent
                          /\ schedule'[u].state = "pending" /\ schedule'[u].def \in Definitions
<1>1. Ready /\ creation \in Known /\ schedule \in [Schedules -> Files]
  BY DEF IInv, CreatorsReady, SchedulerTypeOK, Files
<1>2. UNCHANGED schedule => schedule' \in [Schedules -> Files] /\ Added
  BY <1>1
<1>3. ASSUME creator[p].place # "idle", schedule[r.schedule] = Absent,
             schedule' = [schedule EXCEPT ![r.schedule] = Pending(r.def)]
      PROVE  schedule' \in [Schedules -> Files] /\ Added
  <2>1. r.schedule \in Schedules /\ r.def \in Definitions
    BY <1>1, <1>3 DEF Requests
  <2>2. /\ schedule' \in [Schedules -> Files]
        /\ \A u \in Schedules : u # r.schedule => schedule'[u] = schedule[u]
        /\ schedule'[r.schedule].state = "pending" /\ schedule'[r.schedule].def = r.def
    BY <1>3, <2>1, AddSchedule DEF IInv
  <2>3. QED
    BY <1>3, <2>1, <2>2
<1>4. UNCHANGED <<now, command, ticks, history>>
  BY DEF CreationStep, ClaimCreation, ClaimCreationFails, PlanCreation, StoreSchedule, StoreFails,
         FinishCreation, FinishCreationFails, Told, stores
<1>5. schedule' \in [Schedules -> Files] /\ Added
  <2>1. CASE UNCHANGED schedule
    BY <1>2, <2>1
  <2>2. CASE /\ creator[p].place # "idle" /\ schedule[r.schedule] = Absent
             /\ schedule' = [schedule EXCEPT ![r.schedule] = Pending(r.def)]
    BY <1>3, <2>2
  <2>3. QED
    BY <2>1, <2>2 DEF CreationStep, ClaimCreation, ClaimCreationFails, PlanCreation, StoreSchedule,
       StoreFails, FinishCreation, FinishCreationFails, Told, stores
<1>6. creation' \in Known
  <2>1. CASE UNCHANGED creation
    BY <1>1, <2>1
  <2>2. CASE creator[p].place # "idle" /\ creation' = [creation EXCEPT ![c] = Claimed(r)]
    <3>1. Claimed(r) \in [state : Results \cup {"unclaimed", "running"}, request : Requests \cup {NoRequest}]
      BY <1>1, <2>2 DEF Claimed
    <3>2. QED
      BY <1>1, <2>2, <3>1
  <2>3. CASE /\ creator[p].place # "idle" /\ creator[p].verdict \in {"succeeded", "failed"}
             /\ creation' = [creation EXCEPT ![c].state = creator[p].verdict]
    BY <1>1, <2>3 DEF Results
  <2>4. CASE FinishCreation(p)
    BY <2>3, <2>4 DEF FinishCreation, IInv, CreatorsReady
  <2>5. QED
    BY <2>1, <2>2, <2>4 DEF CreationStep, ClaimCreation, ClaimCreationFails, PlanCreation,
       StoreSchedule, StoreFails, FinishCreationFails, Told, stores
<1>7. creator' \in [Processes -> Creators] /\ CreatorsReady'
  <2> DEFINE Typed == creator' \in [Processes -> Creators] /\ CreatorsReady'
  <2>1. ASSUME NEW verdict \in {"none", "succeeded", "failed"}, CreationReturns(p, verdict) PROVE Typed
    BY <2>1, ReturnCreator DEF IInv
  <2>2. ASSUME creator[p].place # "idle", NEW place \in {"plan", "create"}, Goto(p, place) PROVE Typed
    BY <2>2, GotoCreator DEF IInv
  <2>3. ASSUME creator[p].place # "idle", NEW verdict \in {"succeeded", "failed"}, ToFinish(p, verdict)
        PROVE  Typed
    BY <2>3, FinishCreator DEF IInv
  <2>4. CASE ClaimCreation(p) \/ ClaimCreationFails(p)
    BY <2>1, <2>2, <2>4 DEF ClaimCreation, ClaimCreationFails
  <2>5. CASE PlanCreation(p) \/ StoreSchedule(p) \/ StoreFails(p)
    BY <2>2, <2>3, <2>5 DEF PlanCreation, StoreSchedule, StoreFails
  <2>6. CASE FinishCreation(p) \/ FinishCreationFails(p)
    BY <2>1, <2>6 DEF FinishCreation, FinishCreationFails, IInv, CreatorsReady
  <2>7. CASE Told(p)
    <3>1. CreationReturns(p, "none")
      <4>1. [Idle EXCEPT !.verdict = "none"] = Idle
        BY DEF Idle
      <4>2. QED
        BY <2>7, <4>1 DEF Told, CreationReturns
    <3>2. QED
      BY <2>1, <3>1
  <2>8. QED
    BY <2>4, <2>5, <2>6, <2>7 DEF CreationStep
<1>8. QED
  BY <1>4, <1>5, <1>6, <1>7, AddedKeeps

LEMMA SubmitKeeps ==
    ASSUME IInv, NEW p \in Processes, NEW id \in CreateIds, NEW req \in Requests, Submit(p, id, req)
    PROVE  IInv'
<1> DEFINE c == [place |-> "claim", id |-> id, request |-> req, verdict |-> "none"]
<1>1. UNCHANGED <<now, stores, ticks, history>> /\ creator' = [creator EXCEPT ![p] = c]
  BY DEF Submit
<1>2. CreatorOK(c)
  BY DEF CreatorOK, Creators
<1>3. creator' \in [Processes -> Creators] /\ CreatorsReady'
  BY <1>1, <1>2, SetCreator DEF IInv
<1>4. schedule' \in [Schedules -> Files] /\ UNCHANGED schedule
  BY <1>1 DEF IInv, SchedulerTypeOK, Files, stores
<1>5. creation' \in [CreateIds -> [state : Results \cup {"unclaimed", "running"},
                                   request : Requests \cup {NoRequest}]]
  BY <1>1 DEF IInv, SchedulerTypeOK, stores
<1>6. QED
  BY <1>1, <1>3, <1>4, <1>5, AddedKeeps DEF stores

-----------------------------------------------------------------------------
LEMMA NextIInv == IInv /\ [SchedulerNext]_schedulerVars => IInv'
<1> SUFFICES ASSUME IInv, [SchedulerNext]_schedulerVars PROVE IInv'
  OBVIOUS
<1>1. CASE UNCHANGED schedulerVars
  BY <1>1 DEF schedulerVars, stores, ticks, history, IInv, SchedulerTypeOK, Defined, HeldAlone, Holding,
     ClaimedFirst, RunsCounted, HandledAlone, OutcomesReal, Succeeded, Target, Payload, CreatorsReady
<1>2. CASE Advance
  BY <1>2, TickKeeps
<1>3. ASSUME NEW d \in Daemons, DaemonStep(d) PROVE IInv'
  <2>1. CASE Start(d) \/ Tick(d) \/ Skip(d)
    BY <2>1, TickKeeps
  <2>2. CASE Claim(d)
    BY <2>2, ClaimKeeps
  <2>3. CASE ClaimFails(d)
    BY <2>3, ClaimFailsKeeps
  <2>4. CASE DispatchClaims(d)
    BY <2>4, DispatchClaimsKeeps
  <2>5. CASE DispatchAnswered(d) \/ DispatchFails(d)
    BY <2>5, AnsweredKeeps
  <2>6. CASE \E r \in Results : HandlerReturns(d, r) \/ HandlerUnrecorded(d, r)
    BY <2>6, HandledKeeps
  <2>7. CASE Finish(d) \/ FinishFails(d)
    BY <2>7, FinishedKeeps
  <2>8. QED
    BY <1>3, <2>1, <2>2, <2>3, <2>4, <2>5, <2>6, <2>7 DEF DaemonStep
<1>4. ASSUME NEW p \in Processes, NEW c \in CreateIds, NEW r \in Requests, Submit(p, c, r) PROVE IInv'
  BY <1>4, SubmitKeeps
<1>5. ASSUME NEW p \in Processes, CreationStep(p) PROVE IInv'
  BY <1>5, CreationKeeps
<1>6. ASSUME NEW p \in Processes, Dies(p) PROVE IInv'
  BY <1>6, DiesKeeps
<1>7. QED
  BY <1>1, <1>2, <1>3, <1>4, <1>5, <1>6 DEF SchedulerNext

LEMMA Invariance == SchedulerSpec => []IInv
<1>1. QED
  BY InitIInv, NextIInv, PTL DEF SchedulerSpec

\* Every reachable state of the Scheduler is typed.
THEOREM SchedulerTypeCorrect == SchedulerSpec => []SchedulerTypeOK
<1>1. IInv => SchedulerTypeOK
  BY DEF IInv
<1>2. QED
  BY <1>1, Invariance, PTL

\* However many daemons tick, overlap, fail, die and come back, no Schedule is
\* dispatched twice.
THEOREM ScheduleDispatchedOnce == SchedulerSpec => []DispatchedOnce
<1>1. IInv => DispatchedOnce
  BY DEF IInv, ClaimedFirst, DispatchedOnce
<1>2. QED
  BY <1>1, Invariance, PTL

\* The effect of a target Command runs at most once, whichever Schedules name it.
THEOREM TargetCommandRunsOnce == SchedulerSpec => []TargetRunsOnce
<1>1. IInv => TargetRunsOnce
  BY DEF IInv, RunsCounted, TargetRunsOnce
<1>2. QED
  BY <1>1, Invariance, PTL

\* A Schedule that reports success has had its own Command run and succeed.
THEOREM SuccessIsReal == SchedulerSpec => []SucceededMeansRan
<1>1. ASSUME IInv PROVE SucceededMeansRan
  <2>1. ASSUME NEW s \in Schedules, schedule[s].state = "succeeded"
        PROVE  /\ runs[schedule[s].def.target] = 1
               /\ command[schedule[s].def.target] =
                     [state |-> "succeeded", request |-> schedule[s].def.payload]
    <3>1. schedule[s].def \in Definitions /\ Succeeded(schedule[s].def)
      BY <1>1, <2>1 DEF IInv, Defined, OutcomesReal
    <3>2. schedule[s].def.target \in Targets
      BY <3>1 DEF Definitions
    <3>3. command[schedule[s].def.target] =
              [state |-> "succeeded", request |-> schedule[s].def.payload]
      BY <3>1 DEF Succeeded
    <3>4. command[schedule[s].def.target].state \in Results
      BY <3>3 DEF Results
    <3>5. QED
      BY <1>1, <3>2, <3>3, <3>4 DEF IInv, RunsCounted
  <2>2. QED
    BY <2>1 DEF SucceededMeansRan
<1>2. QED
  BY <1>1, Invariance, PTL

\* A dispatching Schedule that no daemon holds stays as it is, and no daemon
\* ever takes it up again.
THEOREM OrphansStay == SchedulerSpec => OrphanScheduleStays
<1> DEFINE Stays(s) == /\ schedule'[s] = schedule[s] /\ dispatches'[s] = dispatches[s]
                       /\ \A d \in Daemons : current'[d] # s
<1>1. ASSUME IInv, [SchedulerNext]_schedulerVars, NEW s \in Schedules,
             schedule[s].state = "dispatching", \A d \in Daemons : current[d] # s
      PROVE  Stays(s)
  <2>1. s # NoRequest /\ schedule[s] # Absent
    BY <1>1, SchedulerAssumption DEF Absent
  <2>2. CASE UNCHANGED schedulerVars
    BY <1>1, <2>2 DEF schedulerVars, stores, ticks, history
  <2>3. CASE Advance
    BY <1>1, <2>3 DEF Advance, stores, ticks, history
  <2>4. ASSUME NEW d \in Daemons, DaemonStep(d) PROVE Stays(s)
    <3>1. CASE Start(d) \/ Tick(d) \/ Skip(d)
      BY <1>1, <3>1 DEF Start, Tick, Skip, stores, history
    <3>2. CASE Claim(d) \/ ClaimFails(d)
      <4>1. /\ UNCHANGED schedule
               \/ \E u \in todo[d] : /\ schedule[u].state = "pending"
                                     /\ schedule' = [schedule EXCEPT ![u].state = "dispatching"]
            /\ \A e \in Daemons : \/ current'[e] = current[e] \/ current'[e] = NoRequest
                                  \/ schedule[current'[e]].state = "pending"
            /\ UNCHANGED dispatches
        BY <1>1, <3>2 DEF Claim, ClaimFails, Abort, history, IInv, SchedulerTypeOK
      <4>2. schedule'[s] = schedule[s]
        BY <1>1, <4>1 DEF IInv, SchedulerTypeOK
      <4>3. QED
        BY <1>1, <2>1, <4>1, <4>2
    <3>3. CASE DispatchClaims(d) \/ DispatchAnswered(d) \/ DispatchFails(d)
      BY <1>1, <3>3 DEF DispatchClaims, DispatchAnswered, DispatchFails, Answered, Dispatched, stores,
         IInv, SchedulerTypeOK
    <3>4. CASE \E r \in Results : HandlerReturns(d, r) \/ HandlerUnrecorded(d, r)
      BY <1>1, <3>4 DEF HandlerReturns, HandlerUnrecorded, Answered, history
    <3>5. CASE Finish(d) \/ FinishFails(d)
      <4>1. /\ UNCHANGED schedule \/ schedule' = [schedule EXCEPT ![current[d]].state = outcome[d]]
            /\ \A e \in Daemons : current'[e] = current[e] \/ current'[e] = NoRequest
            /\ UNCHANGED dispatches
        <5>1. UNCHANGED schedule \/ schedule' = [schedule EXCEPT ![current[d]].state = outcome[d]]
          BY <3>5 DEF Finish, FinishFails
        <5>2. current' = [current EXCEPT ![d] = NoRequest] /\ UNCHANGED dispatches
          BY <3>5 DEF Finish, FinishFails, Abort, history
        <5>3. QED
          BY <5>1, <5>2 DEF IInv, SchedulerTypeOK
      <4>2. schedule'[s] = schedule[s]
        BY <1>1, <4>1 DEF IInv, SchedulerTypeOK
      <4>3. QED
        BY <1>1, <2>1, <4>1, <4>2
    <3>6. QED
      BY <2>4, <3>1, <3>2, <3>3, <3>4, <3>5 DEF DaemonStep
  <2>5. ASSUME NEW p \in Processes, CreationStep(p) \/ \E c \in CreateIds, r \in Requests : Submit(p, c, r)
        PROVE  Stays(s)
    <3>1. UNCHANGED <<ticks, history>>
      BY <2>5 DEF CreationStep, Submit, ClaimCreation, ClaimCreationFails, PlanCreation, StoreSchedule,
         StoreFails, FinishCreation, FinishCreationFails, Told
    <3>2. \/ UNCHANGED schedule
          \/ LET r == creator[p].request IN
             /\ schedule[r.schedule] = Absent
             /\ schedule' = [schedule EXCEPT ![r.schedule] = Pending(r.def)]
      BY <2>5 DEF CreationStep, Submit, ClaimCreation, ClaimCreationFails, PlanCreation, StoreSchedule,
         StoreFails, FinishCreation, FinishCreationFails, Told, stores
    <3>3. schedule'[s] = schedule[s]
      BY <1>1, <2>1, <3>2 DEF IInv, SchedulerTypeOK
    <3>4. QED
      BY <1>1, <3>1, <3>3 DEF ticks, history
  <2>6. ASSUME NEW p \in Processes, Dies(p) PROVE Stays(s)
    BY <1>1, <2>1, <2>6 DEF Dies, stores, history
  <2>7. QED
    BY <1>1, <2>2, <2>3, <2>4, <2>5, <2>6 DEF SchedulerNext
<1>2. IInv /\ [SchedulerNext]_schedulerVars =>
          [\A s \in Schedules :
              schedule[s].state = "dispatching" /\ (\A d \in Daemons : current[d] # s)
                 => Stays(s)]_schedulerVars
  BY <1>1
<1>3. QED
  BY <1>2, Invariance, PTL DEF SchedulerSpec, OrphanScheduleStays

-----------------------------------------------------------------------------
(* Routine                                                                 *)


\* A routine.plan Schedule is due at its occurrence, or stands in for one.
OfRoutine(def) ==
    def.payload = "routine.plan" => def.target = def.due \/ def.target \in Taken

DefinedForRoutine ==
    /\ \A s \in Schedules : schedule[s].state # "none" => OfRoutine(schedule[s].def)
    /\ \A p \in Processes : creator[p].place # "idle" => OfRoutine(creator[p].request.def)

\* What a tick listed or holds was due.
HeldWasDue ==
    \A d \in Daemons :
        /\ \A s \in todo[d] : schedule[s].state # "none" /\ schedule[s].def.due <= now
        /\ Holding(d) => schedule[current[d]].def.due <= now

RoutineTypes ==
    /\ routine \in [status : Statuses, version : 1 .. MaxVersion]
    /\ job \in [Daemons -> [place : {"none", "read", "plan", "chain", "chained", "end"},
                            result : Results \cup {"none"}]]
    /\ op \in [Operators ->
                  [kind : {"none", "activate", "deactivate", "reconcile", "other"},
                   place : {"idle", "update", "health", "schedule", "create"},
                   expected : 0 .. MaxVersion, asOf : 0 .. MaxTime,
                   id : RepairIds \cup {NoRequest}, committed : BOOLEAN,
                   told : {"none", "scheduled"}]]
    /\ disturbed \in BOOLEAN /\ faults \in 0 .. MaxFaults

\* Operators work with versions and times they have seen.
OperatorsSane ==
    \A o \in Operators :
        /\ op[o].asOf <= now
        /\ op[o].place = "update" => op[o].expected < MaxVersion
        /\ op[o].kind = "reconcile" => op[o].id \in RepairIds

JobsOfRoutine ==
    \A d \in Daemons : phase[d] = "handling" /\ job[d].place \in {"read", "plan", "chain"}
        => Payload(d) = "routine.plan"

RInv ==
    /\ IInv
    /\ DefinedForRoutine
    /\ HeldWasDue
    /\ RoutineTypes
    /\ OperatorsSane
    /\ JobsOfRoutine

\* Steps of the Scheduler whose requests are the Routine's or harmless.
RoutineSubmits(p) ==
    \E c \in CreateIds, r \in Requests : Submit(p, c, r) /\ OfRoutine(r.def)

SchedulerStep ==
    \/ Advance
    \/ \E d \in Daemons : DaemonStep(d)
    \/ \E p \in Processes : RoutineSubmits(p) \/ CreationStep(p) \/ Dies(p)

-----------------------------------------------------------------------------
LEMMA InitRInv == RoutineInit => RInv
<1> SUFFICES ASSUME RoutineInit PROVE RInv
  OBVIOUS
<1>1. IInv
  BY InitIInv DEF RoutineInit
<1>2. DefinedForRoutine /\ HeldWasDue
  BY DEF RoutineInit, SchedulerInit, DefinedForRoutine, HeldWasDue, Holding, Absent, Idle
<1>3. RoutineTypes
  <2>1. routine \in [status : Statuses, version : 1 .. MaxVersion]
    BY RoutineAssumption DEF RoutineInit, Statuses
  <2>2. NoJob \in [place : {"none", "read", "plan", "chain", "chained", "end"},
                   result : Results \cup {"none"}]
    BY DEF NoJob
  <2>3. NoOp \in [kind : {"none", "activate", "deactivate", "reconcile", "other"},
                  place : {"idle", "update", "health", "schedule", "create"},
                  expected : 0 .. MaxVersion, asOf : 0 .. MaxTime,
                  id : RepairIds \cup {NoRequest}, committed : BOOLEAN,
                  told : {"none", "scheduled"}]
    BY RoutineAssumption, SchedulerAssumption DEF NoOp
  <2>4. 0 \in 0 .. MaxFaults
    BY RoutineAssumption
  <2>5. QED
    BY <2>1, <2>2, <2>3, <2>4 DEF RoutineInit, RoutineTypes
<1>4. OperatorsSane /\ JobsOfRoutine
  BY DEF RoutineInit, SchedulerInit, OperatorsSane, JobsOfRoutine, NoOp, NoJob
<1>5. QED
  BY <1>1, <1>2, <1>3, <1>4 DEF RInv

-----------------------------------------------------------------------------
(* Steps of the Scheduler.                                                  *)

\* The clock does not go back.
LEMMA ClockAdvances ==
    ASSUME IInv, [SchedulerStep]_schedulerVars
    PROVE  now \in Nat /\ now' \in Nat /\ now <= now'
<1>1. now \in Nat
  BY SchedulerAssumption DEF IInv, SchedulerTypeOK
<1>2. now' = now \/ now' = now + 1
  BY DEF SchedulerStep, DaemonStep, CreationStep, RoutineSubmits, schedulerVars, Advance, Start, Tick, Claim,
     Skip, ClaimFails, DispatchClaims, DispatchAnswered, DispatchFails, HandlerReturns, HandlerUnrecorded,
     Finish, FinishFails, Submit, ClaimCreation, ClaimCreationFails, PlanCreation, StoreSchedule,
     StoreFails, FinishCreation, FinishCreationFails, Told, Dies
<1>3. QED
  BY <1>1, <1>2

\* How a step may change the Schedule files.
LEMMA FilesMove ==
    ASSUME IInv, [SchedulerStep]_schedulerVars
    PROVE  \/ UNCHANGED schedule
           \/ \E s \in Schedules, x \in States \ {"none"} :
                 schedule[s].state # "none" /\ schedule' = [schedule EXCEPT ![s].state = x]
           \/ \E p \in Processes :
                 /\ creator[p].place # "idle"
                 /\ schedule[creator[p].request.schedule] = Absent
                 /\ schedule' = [schedule EXCEPT ![creator[p].request.schedule] =
                                    Pending(creator[p].request.def)]
<1>1. CASE Advance \/ UNCHANGED schedulerVars
  BY <1>1 DEF Advance, schedulerVars, stores
<1>2. ASSUME NEW d \in Daemons, Claim(d) \/ ClaimFails(d)
      PROVE  \/ UNCHANGED schedule
             \/ \E s \in Schedules : schedule[s].state = "pending"
                                     /\ schedule' = [schedule EXCEPT ![s].state = "dispatching"]
  BY <1>2 DEF Claim, ClaimFails, NextDue, IInv, SchedulerTypeOK
<1>3. ASSUME NEW d \in Daemons, Finish(d) \/ FinishFails(d)
      PROVE  \/ UNCHANGED schedule
             \/ /\ current[d] \in Schedules /\ schedule[current[d]].state = "dispatching"
                /\ outcome[d] \in Terminal
                /\ schedule' = [schedule EXCEPT ![current[d]].state = outcome[d]]
  <2>1. phase[d] = "finish"
    BY <1>3 DEF Finish, FinishFails
  <2>2. current[d] \in Schedules /\ schedule[current[d]].state = "dispatching" /\ outcome[d] \in Terminal
    BY <2>1 DEF IInv, HeldAlone, Holding, OutcomesReal
  <2>3. QED
    BY <1>3, <2>2 DEF Finish, FinishFails
<1>4. ASSUME NEW d \in Daemons, DaemonStep(d), ~Claim(d), ~ClaimFails(d), ~Finish(d), ~FinishFails(d)
      PROVE  UNCHANGED schedule
  BY <1>4 DEF DaemonStep, Start, Tick, Skip, DispatchClaims, DispatchAnswered, DispatchFails,
     HandlerReturns, HandlerUnrecorded, stores
<1>5. ASSUME NEW p \in Processes, RoutineSubmits(p) \/ CreationStep(p) \/ Dies(p)
      PROVE  \/ UNCHANGED schedule
             \/ /\ creator[p].place # "idle"
                /\ schedule[creator[p].request.schedule] = Absent
                /\ schedule' = [schedule EXCEPT ![creator[p].request.schedule] =
                                   Pending(creator[p].request.def)]
  BY <1>5 DEF RoutineSubmits, CreationStep, Submit, ClaimCreation, ClaimCreationFails, PlanCreation,
     StoreSchedule, StoreFails, FinishCreation, FinishCreationFails, Told, Dies, stores
<1>6. {"dispatching"} \cup Terminal \subseteq States \ {"none"}
  BY DEF States, Terminal
<1>7. CASE \E d \in Daemons : DaemonStep(d)
  <2>1. PICK d \in Daemons : DaemonStep(d)
    BY <1>7
  <2>2. CASE Claim(d) \/ ClaimFails(d)
    BY <1>2, <1>6, <2>2
  <2>3. CASE Finish(d) \/ FinishFails(d)
    BY <1>3, <1>6, <2>3
  <2>4. QED
    BY <1>4, <2>1, <2>2, <2>3
<1>8. QED
  BY <1>1, <1>5, <1>7 DEF SchedulerStep

\* A Schedule keeps its definition, and a new one has its creator's.
LEMMA DefinitionsStay ==
    ASSUME IInv, [SchedulerStep]_schedulerVars, NEW u \in Schedules
    PROVE  /\ schedule[u].state # "none" =>
                 schedule'[u].state # "none" /\ schedule'[u].def = schedule[u].def
           /\ schedule[u].state = "none" /\ schedule'[u].state # "none" =>
                 \E p \in Processes : /\ creator[p].place # "idle"
                                      /\ schedule'[u].def = creator[p].request.def
<1>1. CASE UNCHANGED schedule
  BY <1>1
<1>2. ASSUME NEW s \in Schedules, NEW x \in States \ {"none"}, schedule[s].state # "none",
             schedule' = [schedule EXCEPT ![s].state = x]
      PROVE  /\ schedule'[u].def = schedule[u].def
             /\ (schedule[u].state = "none") <=> (schedule'[u].state = "none")
  BY <1>2, MoveSchedule DEF IInv
<1>3. ASSUME NEW p \in Processes, creator[p].place # "idle",
             schedule[creator[p].request.schedule] = Absent,
             schedule' = [schedule EXCEPT ![creator[p].request.schedule] =
                             Pending(creator[p].request.def)]
      PROVE  IF u = creator[p].request.schedule
               THEN schedule[u].state = "none" /\ schedule'[u].def = creator[p].request.def
               ELSE schedule'[u] = schedule[u]
  <2>1. creator[p].request.schedule \in Schedules /\ creator[p].request.def \in Definitions
    BY <1>3 DEF IInv, CreatorsReady, Requests
  <2>2. Absent.state = "none"
    BY DEF Absent
  <2>3. QED
    BY <1>3, <2>1, <2>2, AddSchedule DEF IInv
<1>4. QED
  BY <1>1, <1>2, <1>3, FilesMove

\* What a daemon lists, and what it holds, comes from what was due.
LEMMA TicksMove ==
    ASSUME IInv, [SchedulerStep]_schedulerVars, NEW d \in Daemons
    PROVE  /\ todo'[d] \subseteq todo[d] \/ todo'[d] = DueAt(now)
           /\ Holding(d)' => \/ Holding(d) /\ current'[d] = current[d]
                             \/ current'[d] \in todo[d]
           /\ phase'[d] = "handling" => Holding(d) /\ current'[d] = current[d]
<1>1. CASE UNCHANGED ticks
  BY <1>1 DEF ticks, Holding
<1>2. ASSUME NEW e \in Daemons, DaemonStep(e)
      PROVE  /\ todo'[d] \subseteq todo[d] \/ todo'[d] = DueAt(now)
             /\ Holding(d)' => \/ Holding(d) /\ current'[d] = current[d]
                               \/ current'[d] \in todo[d]
             /\ phase'[d] = "handling" => Holding(d) /\ current'[d] = current[d]
  <2>1. CASE Start(e) \/ Tick(e) \/ Skip(e)
    BY <2>1 DEF Start, Tick, Skip, IInv, SchedulerTypeOK, Holding
  <2>2. CASE Claim(e)
    BY <2>2 DEF Claim, IInv, SchedulerTypeOK, Holding
  <2>3. CASE ClaimFails(e) \/ FinishFails(e)
    BY <2>3 DEF ClaimFails, FinishFails, Abort, IInv, SchedulerTypeOK, Holding
  <2>4. CASE DispatchClaims(e) \/ DispatchAnswered(e) \/ DispatchFails(e)
    BY <2>4 DEF DispatchClaims, DispatchAnswered, DispatchFails, Answered, IInv, SchedulerTypeOK, Holding
  <2>5. CASE \E r \in Results : HandlerReturns(e, r) \/ HandlerUnrecorded(e, r)
    BY <2>5 DEF HandlerReturns, HandlerUnrecorded, Answered, IInv, SchedulerTypeOK, Holding
  <2>6. CASE Finish(e)
    BY <2>6 DEF Finish, IInv, SchedulerTypeOK, Holding
  <2>7. QED
    BY <1>2, <2>1, <2>2, <2>3, <2>4, <2>5, <2>6 DEF DaemonStep
<1>3. ASSUME NEW p \in Processes, Dies(p)
      PROVE  todo'[d] \subseteq todo[d] /\ (Holding(d)' => Holding(d) /\ current'[d] = current[d])
             /\ (phase'[d] = "handling" => Holding(d) /\ current'[d] = current[d])
  BY <1>3 DEF Dies, Holding
<1>4. ASSUME NEW p \in Processes, RoutineSubmits(p) \/ CreationStep(p)
      PROVE  UNCHANGED ticks
  BY <1>4 DEF RoutineSubmits, CreationStep, Submit, ClaimCreation, ClaimCreationFails, PlanCreation,
     StoreSchedule, StoreFails, FinishCreation, FinishCreationFails, Told
<1>5. QED
  BY <1>1, <1>2, <1>3, <1>4 DEF SchedulerStep, Advance, schedulerVars

\* A request under way is one that was submitted.
LEMMA RequestsStay ==
    ASSUME IInv, DefinedForRoutine, [SchedulerStep]_schedulerVars, NEW q \in Processes,
           creator'[q].place # "idle"
    PROVE  OfRoutine(creator'[q].request.def)
<1>1. creator \in [Processes -> Creators]
  BY DEF IInv, SchedulerTypeOK, Creators
<1>2. CASE UNCHANGED creator
  BY <1>2 DEF DefinedForRoutine
<1>3. ASSUME NEW p \in Processes, RoutineSubmits(p) PROVE OfRoutine(creator'[q].request.def)
  <2>1. PICK c \in CreateIds, r \in Requests : Submit(p, c, r) /\ OfRoutine(r.def)
    BY <1>3 DEF RoutineSubmits
  <2>2. creator'[q] = IF q = p
                        THEN [place |-> "claim", id |-> c, request |-> r, verdict |-> "none"]
                        ELSE creator[q]
    BY <1>1, <2>1 DEF Submit
  <2>3. QED
    BY <2>1, <2>2 DEF DefinedForRoutine
<1>4. ASSUME NEW p \in Processes, CreationStep(p) \/ Dies(p) PROVE OfRoutine(creator'[q].request.def)
  <2>1. CASE q # p
    <3>1. creator'[q] = creator[q]
      BY <1>1, <1>4, <2>1 DEF CreationStep, ClaimCreation, ClaimCreationFails, PlanCreation, StoreSchedule,
         StoreFails, FinishCreation, FinishCreationFails, Told, Dies, Goto, ToFinish, CreationReturns
    <3>2. QED
      BY <3>1 DEF DefinedForRoutine
  <2>2. CASE q = p
    <3>1. ASSUME NEW verdict, CreationReturns(p, verdict) PROVE creator'[p].place = "idle"
      <4>1. [Idle EXCEPT !.verdict = verdict] =
              [place |-> "idle", id |-> NoRequest, request |-> NoRequest, verdict |-> verdict]
        BY DEF Idle
      <4>2. QED
        BY <1>1, <3>1, <4>1 DEF CreationReturns
    <3>2. ASSUME NEW place, Goto(p, place) PROVE creator'[p].request = creator[p].request
      BY <1>1, <3>2 DEF Goto, Creators
    <3>3. ASSUME NEW verdict, ToFinish(p, verdict) PROVE creator'[p].request = creator[p].request
      BY <1>1, <3>3 DEF ToFinish, Creators
    <3>4. \/ creator'[p].place = "idle"
          \/ creator[p].place # "idle" /\ creator'[p].request = creator[p].request
      <4>1. CASE ClaimCreation(p) \/ ClaimCreationFails(p)
        BY <2>2, <3>1, <3>2, <4>1 DEF ClaimCreation, ClaimCreationFails
      <4>2. CASE PlanCreation(p) \/ StoreSchedule(p) \/ StoreFails(p)
        BY <2>2, <3>2, <3>3, <4>2 DEF PlanCreation, StoreSchedule, StoreFails
      <4>3. CASE FinishCreation(p) \/ FinishCreationFails(p)
        BY <3>1, <4>3 DEF FinishCreation, FinishCreationFails
      <4>4. CASE Dies(p) \/ Told(p)
        BY <1>1, <4>4 DEF Dies, Told, Idle
      <4>5. QED
        BY <1>4, <4>1, <4>2, <4>3, <4>4 DEF CreationStep
    <3>5. QED
      BY <2>2, <3>4 DEF DefinedForRoutine
  <2>3. QED
    BY <2>1, <2>2
<1>5. QED
  BY <1>2, <1>3, <1>4 DEF SchedulerStep, Advance, DaemonStep, Start, Tick, Claim, Skip, ClaimFails,
     DispatchClaims, DispatchAnswered, DispatchFails, HandlerReturns, HandlerUnrecorded, Finish, FinishFails,
     schedulerVars

LEMMA SchedulerStepKeeps ==
    ASSUME IInv, DefinedForRoutine, HeldWasDue, [SchedulerStep]_schedulerVars
    PROVE  IInv' /\ DefinedForRoutine' /\ HeldWasDue'
<1>1. [SchedulerNext]_schedulerVars
  BY DEF SchedulerStep, SchedulerNext, RoutineSubmits
<1>2. IInv'
  BY <1>1, NextIInv
<1>3. DefinedForRoutine'
  BY DefinitionsStay, RequestsStay DEF DefinedForRoutine
<1>4. ASSUME NEW d \in Daemons, NEW s \in todo'[d]
      PROVE  schedule'[s].state # "none" /\ schedule'[s].def.due <= now'
  <2>1. s \in Schedules
    BY <1>2, <1>4 DEF IInv, SchedulerTypeOK
  <2>2. schedule[s].state # "none" /\ schedule[s].def.due <= now
    BY <1>4, <2>1, TicksMove DEF HeldWasDue, DueAt
  <2>3. schedule[s].def.due \in Nat
    BY <2>1, <2>2 DEF IInv, Defined, Definitions
  <2>4. QED
    BY <2>1, <2>2, <2>3, DefinitionsStay, ClockAdvances
<1>5. ASSUME NEW d \in Daemons, Holding(d)' PROVE schedule'[current'[d]].def.due <= now'
  <2>1. current'[d] \in Schedules
    BY <1>2, <1>5 DEF IInv, HeldAlone
  <2>2. schedule[current'[d]].state # "none" /\ schedule[current'[d]].def.due <= now
    BY <1>5, TicksMove DEF HeldWasDue, IInv, HeldAlone
  <2>3. schedule[current'[d]].def.due \in Nat
    BY <2>1, <2>2 DEF IInv, Defined, Definitions
  <2>4. QED
    BY <2>1, <2>2, <2>3, DefinitionsStay, ClockAdvances
<1>6. QED
  BY <1>2, <1>3, <1>4, <1>5 DEF HeldWasDue

-----------------------------------------------------------------------------
(* Steps of the Routine.                                                    *)

\* What goes into an operator's record: the fields with their types.
Asks == [kind : {"none", "activate", "deactivate", "reconcile", "other"},
              place : {"idle", "update", "health", "schedule", "create"},
              expected : 0 .. MaxVersion, asOf : 0 .. MaxTime,
              id : RepairIds \cup {NoRequest}, committed : BOOLEAN,
              told : {"none", "scheduled"}]

OperatorOK(x) ==
    /\ x \in Asks
    /\ x.asOf <= now
    /\ x.place = "update" => x.expected < MaxVersion
    /\ x.kind = "reconcile" => x.id \in RepairIds

Jobs == [place : {"none", "read", "plan", "chain", "chained", "end"}, result : Results \cup {"none"}]

\* Asking, transitions and repetition concern the operators only.
LEMMA OperatorsKept ==
    ASSUME RInv, now' \in Nat, now <= now', op' \in [Operators -> Asks],
           \A o \in Operators : op'[o] = op[o] \/ OperatorOK(op'[o])
    PROVE  OperatorsSane'
  BY DEF RInv, IInv, SchedulerTypeOK, OperatorsSane, OperatorOK, Asks, RoutineTypes

\* One operator's record is replaced by a sane one.
LEMMA SetOperator ==
    ASSUME RInv, now' \in Nat, now <= now', NEW o \in Operators, NEW x, OperatorOK(x),
           op' = [op EXCEPT ![o] = x]
    PROVE  op' \in [Operators -> Asks] /\ OperatorsSane'
<1>1. op \in [Operators -> Asks]
  BY DEF RInv, RoutineTypes, Asks
<1>2. op' \in [Operators -> Asks] /\ \A u \in Operators : op'[u] = IF u = o THEN x ELSE op[u]
  BY <1>1 DEF OperatorOK
<1>3. QED
  BY <1>2, OperatorsKept

\* Every operator's record is sane.
LEMMA SaneOperator ==
    ASSUME RInv, NEW o \in Operators
    PROVE  OperatorOK(op[o])
  BY DEF RInv, RoutineTypes, OperatorsSane, OperatorOK, Asks

LEMMA NoOpOK == RInv => OperatorOK(NoOp)
  BY RoutineAssumption, SchedulerAssumption DEF OperatorOK, Asks, NoOp, RInv, IInv, SchedulerTypeOK

\* An answer leaves the request as it was, or nothing of it.
LEMMA AfterOK ==
    ASSUME RInv, NEW x, OperatorOK(x), NEW told \in {"none", "scheduled"}
    PROVE  OperatorOK(After(x, told))
<1>1. OperatorOK([x EXCEPT !.place = "idle", !.told = told])
  BY DEF OperatorOK, Asks
<1>2. QED
  BY <1>1, NoOpOK DEF After

\* What a step of the Routine owes.
StepOK ==
    /\ [SchedulerStep]_schedulerVars
    /\ RoutineTypes' /\ OperatorsSane' /\ JobsOfRoutine'

\* A handler keeps its payload.
LEMMA PayloadStays ==
    ASSUME RInv, [SchedulerStep]_schedulerVars, NEW d \in Daemons, phase'[d] = "handling"
    PROVE  Payload(d)' = Payload(d)
<1>1. current'[d] = current[d] /\ Holding(d)
  BY TicksMove DEF RInv
<1>2. current[d] \in Schedules /\ schedule[current[d]].state # "none"
  BY <1>1 DEF RInv, IInv, HeldAlone
<1>3. schedule'[current[d]].def = schedule[current[d]].def
  BY <1>2, DefinitionsStay DEF RInv
<1>4. QED
  BY <1>1, <1>3 DEF Payload

LEMMA JobsKept ==
    ASSUME RInv, [SchedulerStep]_schedulerVars,
           \A d \in Daemons : phase'[d] = "handling" /\ job'[d].place \in {"read", "plan", "chain"} =>
              \/ phase[d] = "handling" /\ job[d].place \in {"read", "plan", "chain"}
              \/ Payload(d) = "routine.plan"
    PROVE  JobsOfRoutine'
  BY PayloadStays DEF RInv, JobsOfRoutine

\* The fields of the Routine that do not concern its operators and handlers.
LEMMA FaultTyped ==
    ASSUME RInv, NEW p, Fault(p)
    PROVE  disturbed' \in BOOLEAN /\ faults' \in 0 .. MaxFaults
  BY RoutineAssumption DEF RInv, RoutineTypes, Fault

\* An operator changes its own record and perhaps the Routine's.
LEMMA OperatorStep ==
    ASSUME RInv, UNCHANGED <<schedulerVars, job>>, NEW o \in Operators, NEW x, OperatorOK(x),
           op' = [op EXCEPT ![o] = x],
           routine' \in [status : Statuses, version : 1 .. MaxVersion],
           disturbed' \in BOOLEAN, faults' \in 0 .. MaxFaults
    PROVE  StepOK
<1>1. now' \in Nat /\ now <= now'
  BY SchedulerAssumption DEF RInv, IInv, SchedulerTypeOK, schedulerVars
<1>2. op' \in [Operators -> Asks] /\ OperatorsSane'
  BY <1>1, SetOperator
<1>3. RoutineTypes'
  BY <1>2 DEF RInv, RoutineTypes, Asks
<1>4. JobsOfRoutine'
  BY JobsKept DEF schedulerVars, ticks
<1>5. QED
  BY <1>2, <1>3, <1>4 DEF StepOK

LEMMA AskOK ==
    ASSUME RInv, NEW o \in Operators, NEW kind \in {"activate", "deactivate"}, Ask(o, kind)
    PROVE  StepOK
<1> DEFINE x == [NoOp EXCEPT !.kind = kind, !.place = "update", !.expected = routine.version, !.asOf = now]
<1>1. OperatorOK(x)
  <2>1. now \in 0 .. MaxTime /\ MaxTime \in Nat
    BY SchedulerAssumption DEF RInv, IInv, SchedulerTypeOK
  <2>2. routine.version \in 0 .. MaxVersion /\ routine.version < MaxVersion
    BY DEF Ask, RInv, RoutineTypes
  <2>3. QED
    <3>1. NoOp \in Asks
      BY NoOpOK DEF OperatorOK
    <3>2. x \in Asks
      BY <2>1, <2>2, <3>1 DEF Asks
    <3>3. x.kind = kind /\ x.expected = routine.version /\ x.asOf = now
      BY <3>1 DEF Asks
    <3>4. QED
      BY <2>1, <2>2, <3>2, <3>3 DEF OperatorOK
<1>2. op' = [op EXCEPT ![o] = x] /\ UNCHANGED <<schedulerVars, routine, job, disturbed, faults>>
  BY DEF Ask
<1>3. QED
  BY <1>1, <1>2, OperatorStep DEF RInv, RoutineTypes

LEMMA ReconcileOK ==
    ASSUME RInv, NEW o \in Operators, NEW id \in RepairIds, Reconcile(o, id)
    PROVE  StepOK
<1> DEFINE x == [NoOp EXCEPT !.kind = "reconcile", !.place = "health", !.asOf = now, !.id = id]
<1>1. OperatorOK(x)
  <2>1. now \in 0 .. MaxTime /\ MaxTime \in Nat /\ 0 \in 0 .. MaxVersion
    BY SchedulerAssumption, RoutineAssumption DEF RInv, IInv, SchedulerTypeOK
  <2>2. QED
    <3>1. NoOp \in Asks
      BY NoOpOK DEF OperatorOK
    <3>2. x \in Asks
      BY <2>1, <3>1 DEF Asks
    <3>3. x.place = "health" /\ x.id = id /\ x.asOf = now
      BY <3>1 DEF Asks
    <3>4. QED
      BY <2>1, <3>2, <3>3 DEF OperatorOK
<1>2. op' = [op EXCEPT ![o] = x] /\ UNCHANGED <<schedulerVars, routine, job, disturbed, faults>>
  BY DEF Reconcile
<1>3. QED
  BY <1>1, <1>2, OperatorStep DEF RInv, RoutineTypes

\* The operator goes on to schedule.
LEMMA GoesOn ==
    ASSUME RInv, NEW o \in Operators, NEW c \in BOOLEAN, NEW told \in {"none", "scheduled"},
           NEW place \in {"schedule", "create"}
    PROVE  OperatorOK([op[o] EXCEPT !.place = place, !.committed = c, !.told = told])
  BY SaneOperator DEF OperatorOK, Asks

LEMMA TransitionOK ==
    ASSUME RInv, NEW o \in Operators, Transition(o) \/ TransitionFails(o)
    PROVE  StepOK
<1>1. op[o].place = "update" /\ UNCHANGED <<schedulerVars, job>>
  BY DEF Transition, TransitionFails
<1>2. routine' \in [status : Statuses, version : 1 .. MaxVersion]
  <2>1. CASE UNCHANGED routine
    BY <2>1 DEF RInv, RoutineTypes
  <2>2. CASE Accepted(o) /\ Committed(o)
    <3>1. routine.version < MaxVersion /\ routine.version \in 1 .. MaxVersion
      BY <1>1, <2>2 DEF Accepted, RInv, RoutineTypes, OperatorsSane
    <3>2. QED
      BY <2>2, <3>1, RoutineAssumption DEF Committed, Statuses
  <2>3. QED
    BY <2>1, <2>2 DEF Transition, TransitionFails
<1>3. disturbed' \in BOOLEAN /\ faults' \in 0 .. MaxFaults
  BY FaultTyped DEF Transition, TransitionFails, RInv, RoutineTypes
<1>4. CASE Answer(o, "none")
  BY <1>1, <1>2, <1>3, <1>4, SaneOperator, AfterOK, OperatorStep DEF Answer
<1>5. CASE op' = [op EXCEPT ![o].place = "schedule", ![o].committed = TRUE]
  <2> DEFINE x == [op[o] EXCEPT !.place = "schedule", !.committed = TRUE, !.told = op[o].told]
  <2>1. op[o] \in Asks /\ op \in [Operators -> Asks]
    BY DEF RInv, RoutineTypes, Asks
  <2>2. OperatorOK(x)
    BY <2>1, GoesOn DEF Asks
  <2>3. op' = [op EXCEPT ![o] = x]
    <3>1. x = [op[o] EXCEPT !.place = "schedule", !.committed = TRUE]
      BY <2>1 DEF Asks
    <3>2. op' \in [Operators -> Asks] /\ op'[o] = x /\ \A u \in Operators : u # o => op'[u] = op[u]
      BY <1>5, <2>1, <3>1 DEF Asks
    <3>3. QED
      BY <2>1, <3>2
  <2>4. QED
    BY <1>1, <1>2, <1>3, <2>2, <2>3, OperatorStep
<1>6. QED
  BY <1>4, <1>5 DEF Transition, TransitionFails

LEMMA RetryOrInspectOK ==
    ASSUME RInv, NEW o \in Operators, Retry(o) \/ Inspect(o)
    PROVE  StepOK
<1>1. UNCHANGED <<schedulerVars, routine, job, disturbed, faults>>
  BY DEF Retry, Inspect
<1>2. op[o] \in Asks /\ op \in [Operators -> Asks]
  BY DEF RInv, RoutineTypes, Asks
<1>3. CASE Answer(o, "none")
  BY <1>1, <1>3, SaneOperator, AfterOK, OperatorStep DEF Answer, RInv, RoutineTypes
<1>4. CASE \/ op' = [op EXCEPT ![o].place = "schedule"]
           \/ op' = [op EXCEPT ![o].place = "schedule", ![o].told = "none"]
  <2>1. PICK told \in {"none", "scheduled"} :
            op'[o] = [op[o] EXCEPT !.place = "schedule", !.committed = op[o].committed, !.told = told]
    <3>1. CASE op' = [op EXCEPT ![o].place = "schedule"]
      <4>1. op'[o] = [op[o] EXCEPT !.place = "schedule", !.committed = op[o].committed, !.told = op[o].told]
        BY <1>2, <3>1 DEF Asks
      <4>2. op[o].told \in {"none", "scheduled"}
        BY <1>2 DEF Asks
      <4>3. QED
        BY <4>1, <4>2
    <3>2. CASE op' = [op EXCEPT ![o].place = "schedule", ![o].told = "none"]
      <4>1. op'[o] = [op[o] EXCEPT !.place = "schedule", !.committed = op[o].committed, !.told = "none"]
        BY <1>2, <3>2 DEF Asks
      <4>2. QED
        BY <4>1
    <3>3. QED
      BY <1>4, <3>1, <3>2
  <2>2. \A u \in Operators : u # o => op'[u] = op[u]
    BY <1>2, <1>4
  <2>3. OperatorOK(op'[o])
    <3>1. op[o].committed \in BOOLEAN
      BY <1>2 DEF Asks
    <3>2. OperatorOK([op[o] EXCEPT !.place = "schedule", !.committed = op[o].committed, !.told = told])
      BY <3>1, GoesOn
    <3>3. QED
      BY <2>1, <3>2
  <2>4. op' \in [Operators -> Asks]
    BY <1>2, <1>4 DEF Asks
  <2>5. op' = [op EXCEPT ![o] = op'[o]]
    BY <1>2, <2>2, <2>4
  <2>6. ASSUME NEW x, OperatorOK(x), op' = [op EXCEPT ![o] = x] PROVE StepOK
    BY <1>1, <2>6, OperatorStep DEF RInv, RoutineTypes
  <2>7. QED
    BY <2>3, <2>5, <2>6
<1>5. QED
  BY <1>3, <1>4 DEF Retry, Inspect

\* Whatever an occurrence's request carries, it is a request of the Routine.
LEMMA RequestTyped ==
    ASSUME NEW k \in Occurrences, NEW m \in Moments
    PROVE  RequestFor(k, m) \in Requests /\ k \in CreateIds /\ OfRoutine(RequestFor(k, m).def)
<1>1. k \in Schedules /\ k \in Targets /\ k \in CreateIds /\ k \in 0 .. MaxTime + 1
  BY RoutineAssumption, SchedulerAssumption DEF Occurrences
<1>2. "routine.plan" \in Payloads
  BY RoutineAssumption
<1>3. RequestFor(k, m).def \in Definitions
  BY <1>1, <1>2 DEF RequestFor, Definitions
<1>4. QED
  BY <1>1, <1>3 DEF RequestFor, Requests, OfRoutine

\* A step of the Scheduler together with an operator's record.
LEMMA ScheduledOK ==
    ASSUME RInv, SchedulerStep, UNCHANGED <<routine, job>>, NEW o \in Operators, NEW x, OperatorOK(x),
           op' = [op EXCEPT ![o] = x],
           \A d \in Daemons : phase'[d] = "handling" => phase[d] = "handling",
           disturbed' \in BOOLEAN, faults' \in 0 .. MaxFaults
    PROVE  StepOK
<1>1. now' \in Nat /\ now <= now'
  BY ClockAdvances DEF RInv
<1>2. op' \in [Operators -> Asks] /\ OperatorsSane'
  BY <1>1, SetOperator
<1>3. RoutineTypes'
  BY <1>2 DEF RInv, RoutineTypes, Asks
<1>4. JobsOfRoutine'
  BY JobsKept
<1>5. QED
  BY <1>2, <1>3, <1>4 DEF StepOK

LEMMA ScheduleNextOK ==
    ASSUME RInv, NEW o \in Operators, ScheduleNext(o)
    PROVE  StepOK
<1> DEFINE k == NextOccurrence(op[o].asOf)
           c == IF op[o].kind = "reconcile" THEN op[o].id ELSE k
<1>1. UNCHANGED <<routine, job>> /\ op[o].place = "schedule"
  BY DEF ScheduleNext
<1>2. disturbed' \in BOOLEAN /\ faults' \in 0 .. MaxFaults
  BY DEF ScheduleNext, Disturbed, Undisturbed, RInv, RoutineTypes
<1>3. ASSUME NEW told \in {"none", "scheduled"}, Answer(o, told), UNCHANGED schedulerVars PROVE StepOK
  BY <1>1, <1>2, <1>3, SaneOperator, AfterOK, OperatorStep DEF Answer, RInv, RoutineTypes
<1>4. ASSUME Submit(o, c, RequestFor(k, op[o].expected)), op' = [op EXCEPT ![o].place = "create"]
      PROVE  StepOK
  <2>1. op[o] \in Asks /\ op \in [Operators -> Asks]
    BY DEF RInv, RoutineTypes, Asks
  <2>2. k \in Occurrences
    BY <2>1, SchedulerAssumption DEF NextOccurrence, Occurrences, Asks
  <2>3. op[o].expected \in Moments
    BY <2>1, RoutineAssumption DEF Asks
  <2>4. op[o].kind = "reconcile" => op[o].id \in RepairIds
    BY DEF RInv, OperatorsSane
  <2>5. c \in CreateIds
    BY <2>2, <2>4, RoutineAssumption
  <2>6. RequestFor(k, op[o].expected) \in Requests /\ OfRoutine(RequestFor(k, op[o].expected).def)
    BY <2>2, <2>3, RequestTyped
  <2>7. SchedulerStep
    BY <1>4, <2>5, <2>6 DEF SchedulerStep, RoutineSubmits, Processes
  <2>8. \A d \in Daemons : phase'[d] = "handling" => phase[d] = "handling"
    BY <1>4 DEF Submit, ticks
  <2> DEFINE x == [op[o] EXCEPT !.place = "create", !.committed = op[o].committed, !.told = op[o].told]
  <2>9. OperatorOK(x)
    BY <2>1, GoesOn DEF Asks
  <2>10. op' = [op EXCEPT ![o] = x]
    <3>1. x = [op[o] EXCEPT !.place = "create"]
      BY <2>1 DEF Asks
    <3>2. QED
      BY <1>4, <2>1, <3>1
  <2>11. QED
    BY <1>1, <1>2, <2>7, <2>8, <2>9, <2>10, ScheduledOK
<1>5. QED
  BY <1>3, <1>4 DEF ScheduleNext

LEMMA ClientOK ==
    ASSUME RInv, NEW o \in Operators, NEW c \in RepairIds, NEW s \in Others, NEW k \in Taken,
           NEW p \in Payloads, ScheduleOther(o, c, s, [due |-> 0, target |-> k, payload |-> p])
    PROVE  StepOK
<1> DEFINE def == [due |-> 0, target |-> k, payload |-> p]
           r == [schedule |-> s, def |-> def, asOf |-> 0]
           x == [NoOp EXCEPT !.kind = "other", !.place = "create"]
<1>1. Submit(o, c, r) /\ op' = [op EXCEPT ![o] = x] /\ UNCHANGED <<routine, job>>
  BY DEF ScheduleOther
<1>2. disturbed' \in BOOLEAN /\ faults' \in 0 .. MaxFaults
  BY DEF ScheduleOther, Disturbed, RInv, RoutineTypes
<1>3. c \in CreateIds /\ s \in Schedules /\ k \in Targets /\ 0 \in Moments /\ 0 \in 0 .. MaxTime + 1
  BY RoutineAssumption, SchedulerAssumption DEF Occurrences
<1>4. r \in Requests /\ OfRoutine(r.def)
  BY <1>3 DEF Requests, Definitions, OfRoutine
<1>5. SchedulerStep
  BY <1>1, <1>3, <1>4 DEF SchedulerStep, RoutineSubmits, Processes
<1>6. \A d \in Daemons : phase'[d] = "handling" => phase[d] = "handling"
  BY <1>1 DEF Submit, ticks
<1>7. OperatorOK(x)
  BY NoOpOK DEF OperatorOK, Asks, NoOp
<1>8. QED
  BY <1>1, <1>2, <1>5, <1>6, <1>7, ScheduledOK

LEMMA CreatedOK ==
    ASSUME RInv, NEW o \in Operators, Created(o)
    PROVE  StepOK
<1>1. Told(o) /\ UNCHANGED <<routine, job>>
  BY DEF Created
<1>2. disturbed' \in BOOLEAN /\ faults' \in 0 .. MaxFaults
  BY DEF Created, Disturbed, Undisturbed, RInv, RoutineTypes
<1>3. SchedulerStep
  BY <1>1 DEF SchedulerStep, CreationStep, Processes
<1>4. \A d \in Daemons : phase'[d] = "handling" => phase[d] = "handling"
  BY <1>1 DEF Told, ticks
<1>5. PICK told \in {"none", "scheduled"} : Answer(o, told)
  BY DEF Created
<1>6. QED
  BY <1>1, <1>2, <1>3, <1>4, <1>5, SaneOperator, AfterOK, ScheduledOK DEF Answer

-----------------------------------------------------------------------------
(* Steps of the handler.                                                    *)

\* The handler of daemon d goes on to j.
LEMMA HandlerOK ==
    ASSUME RInv, [SchedulerStep]_schedulerVars, UNCHANGED <<routine, op>>,
           NEW d \in Daemons, NEW j \in Jobs, job' = [job EXCEPT ![d] = j],
           phase'[d] = "handling" /\ j.place \in {"read", "plan", "chain"} => Payload(d) = "routine.plan",
           \A e \in Daemons : e # d /\ phase'[e] = "handling" => phase[e] = "handling",
           disturbed' \in BOOLEAN, faults' \in 0 .. MaxFaults
    PROVE  StepOK
<1>1. now' \in Nat /\ now <= now'
  BY ClockAdvances DEF RInv
<1>2. job \in [Daemons -> Jobs]
  BY DEF RInv, RoutineTypes, Jobs
<1>3. job' \in [Daemons -> Jobs] /\ \A e \in Daemons : job'[e] = IF e = d THEN j ELSE job[e]
  BY <1>2
<1>4. RoutineTypes'
  BY <1>3 DEF RInv, RoutineTypes, Jobs
<1>5. op' \in [Operators -> Asks]
  BY DEF RInv, RoutineTypes, Asks
<1>6. OperatorsSane'
  BY <1>1, <1>5, OperatorsKept
<1>7. JobsOfRoutine'
  BY <1>3, JobsKept
<1>8. QED
  BY <1>4, <1>6, <1>7 DEF StepOK

\* No handler starts, and none moves.
LEMMA QuietOK ==
    ASSUME RInv, [SchedulerStep]_schedulerVars, UNCHANGED <<routine, op, job>>,
           \A e \in Daemons : phase'[e] = "handling" => phase[e] = "handling",
           disturbed' \in BOOLEAN, faults' \in 0 .. MaxFaults
    PROVE  StepOK
<1>1. now' \in Nat /\ now <= now'
  BY ClockAdvances DEF RInv
<1>2. RoutineTypes' /\ op' \in [Operators -> Asks]
  BY DEF RInv, RoutineTypes, Asks
<1>3. OperatorsSane'
  BY <1>1, <1>2, OperatorsKept
<1>4. JobsOfRoutine'
  BY JobsKept
<1>5. QED
  BY <1>2, <1>3, <1>4 DEF StepOK

LEMMA HandlesOK ==
    ASSUME RInv, NEW d \in Daemons, Handles(d)
    PROVE  StepOK
<1>1. job \in [Daemons -> Jobs] /\ phase \in [Daemons -> {"off", "ready", "dispatch", "handling", "finish"}]
  BY DEF RInv, RoutineTypes, Jobs, IInv, SchedulerTypeOK
<1>2. UNCHANGED <<disturbed, faults>> \/ Disturbed => disturbed' \in BOOLEAN /\ faults' \in 0 .. MaxFaults
  BY DEF Disturbed, RInv, RoutineTypes
<1>3. CASE HandlerStarts(d)
  <2> DEFINE j == [place |-> IF Payload(d) = "routine.plan" THEN "read" ELSE "end", result |-> "succeeded"]
  <2>1. DispatchClaims(d) /\ job' = [job EXCEPT ![d] = j] /\ UNCHANGED <<routine, op, disturbed, faults>>
    BY <1>3 DEF HandlerStarts
  <2>2. j \in Jobs
    BY DEF Jobs, Results
  <2>3. SchedulerStep
    BY <2>1 DEF SchedulerStep, DaemonStep
  <2>4. \A e \in Daemons : e # d => phase'[e] = phase[e]
    BY <1>1, <2>1 DEF DispatchClaims
  <2>5. QED
    BY <1>2, <2>1, <2>2, <2>3, <2>4, HandlerOK
<1>4. CASE Answers(d)
  <2>1. SchedulerStep
    BY <1>4 DEF Answers, SchedulerStep, DaemonStep
  <2>2. \A e \in Daemons : phase'[e] = "handling" => phase[e] = "handling"
    BY <1>1, <1>4 DEF Answers, DispatchAnswered, Answered
  <2>3. QED
    BY <1>2, <1>4, <2>1, <2>2, QuietOK DEF Answers
<1>5. ASSUME NEW j \in Jobs, job' = [job EXCEPT ![d] = j], phase[d] = "handling",
             UNCHANGED <<schedulerVars, routine, op>>,
             job[d].place \in {"read", "plan", "chain"},
             disturbed' \in BOOLEAN, faults' \in 0 .. MaxFaults
      PROVE  StepOK
  BY <1>5, HandlerOK DEF RInv, JobsOfRoutine, schedulerVars, ticks
<1>6. ASSUME NEW place \in {"plan", "chained", "end"}
      PROVE  /\ [job[d] EXCEPT !.place = place] \in Jobs
             /\ Step(d, place) => job' = [job EXCEPT ![d] = [job[d] EXCEPT !.place = place]]
  BY <1>1 DEF Step, Jobs
<1>7. CASE ReadRoutine(d)
  BY <1>2, <1>5, <1>6, <1>7 DEF ReadRoutine, At
<1>8. CASE ReadRoutineFails(d)
  <2>1. [place |-> "end", result |-> "failed"] \in Jobs
    BY DEF Jobs, Results
  <2>2. QED
    BY <1>5, <1>8, <2>1, FaultTyped DEF ReadRoutineFails, At
<1>9. CASE \E r \in {"succeeded", "failed"} : Plan(d, r)
  <2>1. PICK r \in {"succeeded", "failed"} : Plan(d, r)
    BY <1>9
  <2>2. [place |-> "chain", result |-> r] \in Jobs
    BY DEF Jobs, Results
  <2>3. QED
    BY <1>2, <1>5, <2>1, <2>2 DEF Plan, At
<1>10. CASE Chain(d)
  <2> DEFINE k == NextOccurrence(Target(d))
  <2>1. phase[d] = "handling" /\ job[d].place = "chain" /\ UNCHANGED <<routine, op, disturbed, faults>>
    BY <1>10 DEF Chain, At, Undisturbed
  <2>2. CASE Step(d, "end") /\ UNCHANGED schedulerVars
    BY <1>2, <1>5, <1>6, <2>1, <2>2
  <2>3. CASE Submit(d, k, RequestFor(k, 0)) /\ Step(d, "chained")
    <3>1. /\ current[d] \in Schedules /\ schedule[current[d]].def \in Definitions
          /\ schedule[current[d]].state = "dispatching" /\ Target(d) \in Targets
      BY <2>1, HeldTyped DEF RInv, IInv, Holding
    <3>2. Payload(d) = "routine.plan"
      BY <2>1 DEF RInv, JobsOfRoutine
    <3>3. schedule[current[d]].def.due <= now /\ schedule[current[d]].def.due \in Nat
      BY <2>1, <3>1 DEF RInv, HeldWasDue, Holding, Definitions
    <3>4. OfRoutine(schedule[current[d]].def)
      BY <3>1 DEF RInv, DefinedForRoutine
    <3>5. Target(d) \in 1 .. MaxTime
      <4>1. Target(d) \in 1 .. MaxTime + 1 /\ MaxTime \in Nat /\ Taken \subseteq 1 .. MaxTime
        BY <3>1, RoutineAssumption, SchedulerAssumption DEF Occurrences
      <4>2. Target(d) = schedule[current[d]].def.due \/ Target(d) \in Taken
        BY <3>2, <3>4 DEF OfRoutine, Target, Payload
      <4>3. now <= MaxTime /\ now \in Nat
        BY SchedulerAssumption DEF RInv, IInv, SchedulerTypeOK
      <4>4. QED
        BY <3>3, <4>1, <4>2, <4>3
    <3>6. k \in Occurrences /\ 0 \in Moments
      BY <3>5, RoutineAssumption, SchedulerAssumption DEF NextOccurrence, Occurrences
    <3>7. SchedulerStep
      BY <2>3, <3>6, RequestTyped DEF SchedulerStep, RoutineSubmits, Processes
    <3>8. \A e \in Daemons : phase'[e] = "handling" => phase[e] = "handling"
      BY <2>3 DEF Submit, ticks
    <3>9. [job[d] EXCEPT !.place = "chained"].place = "chained"
      BY <1>1 DEF Jobs
    <3>10. QED
      BY <1>2, <1>6, <2>1, <2>3, <3>7, <3>8, <3>9, HandlerOK
  <2>4. QED
    BY <1>10, <2>2, <2>3 DEF Chain
<1>11. CASE Chained(d)
  <2>1. Told(d) /\ Step(d, "end") /\ UNCHANGED <<routine, op, faults>> /\ disturbed' \in BOOLEAN
    BY <1>11 DEF Chained, RInv, RoutineTypes
  <2>2. faults' \in 0 .. MaxFaults
    BY <2>1 DEF RInv, RoutineTypes
  <2>3. SchedulerStep
    BY <2>1 DEF SchedulerStep, CreationStep, Processes
  <2>4. \A e \in Daemons : phase'[e] = "handling" => phase[e] = "handling"
    BY <2>1 DEF Told, ticks
  <2>5. [job[d] EXCEPT !.place = "end"].place = "end"
    BY <1>1 DEF Jobs
  <2>6. QED
    BY <1>6, <2>1, <2>2, <2>3, <2>4, <2>5, HandlerOK
<1>12. CASE HandlerEnds(d)
  <2>1. PICK r \in Results : (HandlerReturns(d, r) /\ Undisturbed) \/ (HandlerUnrecorded(d, r) /\ Fault(d))
    BY <1>12 DEF HandlerEnds
  <2>2. job' = [job EXCEPT ![d] = NoJob] /\ UNCHANGED <<routine, op>>
    BY <1>12 DEF HandlerEnds
  <2>3. SchedulerStep
    BY <2>1 DEF SchedulerStep, DaemonStep
  <2>4. \A e \in Daemons : phase'[e] = "handling" => phase[e] = "handling"
    BY <1>1, <2>1 DEF HandlerReturns, HandlerUnrecorded, Answered
  <2>5. NoJob \in Jobs /\ NoJob.place = "none"
    BY DEF NoJob, Jobs
  <2>6. disturbed' \in BOOLEAN /\ faults' \in 0 .. MaxFaults
    BY <1>2, <2>1, FaultTyped DEF Undisturbed
  <2>7. QED
    BY <2>2, <2>3, <2>4, <2>5, <2>6, HandlerOK
<1>13. QED
  BY <1>3, <1>4, <1>7, <1>8, <1>9, <1>10, <1>11, <1>12 DEF Handles

LEMMA WorksOK ==
    ASSUME RInv, Works \/ Faults
    PROVE  StepOK
<1>1. UNCHANGED <<routine, job, op>>
  BY DEF Works, Faults, routineVars
<1>2. disturbed' \in BOOLEAN /\ faults' \in 0 .. MaxFaults
  BY FaultTyped DEF Works, Faults, routineVars, RInv, RoutineTypes
<1>3. SchedulerStep
  BY DEF Works, Faults, TickWork, ClaimUnwritten, CreationWork, SchedulerStep, DaemonStep, CreationStep
<1>4. \A e \in Daemons : phase'[e] = "handling" => phase[e] = "handling"
  <2>1. phase \in [Daemons -> {"off", "ready", "dispatch", "handling", "finish"}]
    BY DEF RInv, IInv, SchedulerTypeOK
  <2>2. CASE \/ Advance
             \/ \E p \in Processes : \/ CreationWork(p) \/ ClaimCreationFails(p)
                                    \/ StoreFails(p) \/ FinishCreationFails(p)
    BY <2>2 DEF Advance, CreationWork, ClaimCreation, PlanCreation, StoreSchedule, FinishCreation,
       ClaimCreationFails, StoreFails, FinishCreationFails, ticks
  <2>3. ASSUME NEW d \in Daemons,
               Start(d) \/ TickWork(d) \/ ClaimFails(d) \/ FinishFails(d) \/ DispatchFails(d)
        PROVE  \A e \in Daemons : phase'[e] = "handling" => phase[e] = "handling"
    BY <2>1, <2>3 DEF Start, TickWork, Tick, Claim, Skip, Finish, ClaimFails, FinishFails, DispatchFails,
       Abort, Answered
  <2>4. QED
    BY <2>2, <2>3 DEF Works, Faults, ClaimUnwritten
<1>5. QED
  BY <1>1, <1>2, <1>3, <1>4, QuietOK

LEMMA CrashOK ==
    ASSUME RInv, NEW p \in Processes, Crash(p)
    PROVE  StepOK
<1>1. [SchedulerStep]_schedulerVars
  BY DEF Crash, SchedulerStep
<1>2. disturbed' \in BOOLEAN /\ faults' \in 0 .. MaxFaults
  BY FaultTyped DEF Crash
<1>3. now' \in Nat /\ now <= now'
  BY <1>1, ClockAdvances DEF RInv
<1>4. \A o \in Operators : op'[o] = op[o] \/ OperatorOK(op'[o])
  BY SaneOperator, AfterOK DEF Crash
<1>5. op' \in [Operators -> Asks]
  <2>1. \A o \in Operators : op'[o] \in Asks
    BY <1>4, SaneOperator DEF OperatorOK
  <2>2. QED
    BY <2>1 DEF Crash
<1>6. OperatorsSane'
  BY <1>3, <1>4, <1>5, OperatorsKept
<1>7. NoJob \in Jobs /\ NoJob.place = "none"
  BY DEF NoJob, Jobs
<1>8. job' \in [Daemons -> Jobs] /\ \A d \in Daemons : job'[d] = job[d] \/ job'[d].place = "none"
  BY <1>7 DEF Crash, RInv, RoutineTypes, Jobs
<1>9. RoutineTypes'
  BY <1>2, <1>5, <1>8 DEF Crash, RInv, RoutineTypes, Asks, Jobs
<1>10. \A d \in Daemons : phase'[d] = "handling" => phase[d] = "handling"
  BY DEF Crash, Dies, schedulerVars, ticks
<1>11. JobsOfRoutine'
  BY <1>1, <1>8, <1>10, JobsKept
<1>12. QED
  BY <1>1, <1>6, <1>9, <1>11 DEF StepOK

-----------------------------------------------------------------------------
\* Every step of a Routine is one of the Scheduler, and keeps its own part.
LEMMA StepsOK == RInv /\ [Next]_vars => StepOK
<1> SUFFICES ASSUME RInv, [Next]_vars PROVE StepOK
  OBVIOUS
<1>1. CASE UNCHANGED vars
  <2>1. UNCHANGED schedulerVars /\ UNCHANGED <<routine, op, job, disturbed, faults>>
    BY <1>1 DEF vars, routineVars
  <2>2. QED
    BY <2>1, QuietOK DEF schedulerVars, ticks, RInv, RoutineTypes
<1>2. ASSUME NEW o \in Operators, Operates(o) PROVE StepOK
  BY <1>2, AskOK, TransitionOK, RetryOrInspectOK, ReconcileOK, ScheduleNextOK, CreatedOK DEF Operates
<1>3. ASSUME NEW o \in Operators, ActsAsClient(o) PROVE StepOK
  BY <1>3, ClientOK, CreatedOK DEF ActsAsClient
<1>4. Clients \subseteq Operators
  BY RoutineAssumption
<1>5. QED
  BY <1>1, <1>2, <1>3, <1>4, WorksOK, HandlesOK, CrashOK DEF Next

LEMMA NextRInv == RInv /\ [Next]_vars => RInv' /\ [SchedulerNext]_schedulerVars
<1> SUFFICES ASSUME RInv, [Next]_vars PROVE RInv' /\ [SchedulerNext]_schedulerVars
  OBVIOUS
<1>1. StepOK
  BY StepsOK
<1>2. [SchedulerNext]_schedulerVars
  BY <1>1 DEF StepOK, SchedulerStep, SchedulerNext, RoutineSubmits
<1>3. IInv' /\ DefinedForRoutine' /\ HeldWasDue'
  BY <1>1, SchedulerStepKeeps DEF StepOK, RInv
<1>4. QED
  BY <1>1, <1>2, <1>3 DEF StepOK, RInv

\* A Routine's daemons and operators use Schedules only as the Scheduler allows:
\* all that is proved of the Scheduler holds of a Routine's occurrences.
THEOREM ImplementsScheduler == Spec => SchedulerSpec
<1>1. RoutineInit => SchedulerInit
  BY DEF RoutineInit
<1>2. QED
  BY <1>1, InitRInv, NextRInv, PTL DEF Spec, SchedulerSpec

\* Every reachable state of a Routine and its Scheduler is typed.
THEOREM RoutineTypeCorrect == Spec => []TypeOK
<1>1. RInv => TypeOK
  BY DEF RInv, IInv, RoutineTypes, TypeOK
<1>2. QED
  BY <1>1, InitRInv, NextRInv, PTL DEF Spec

\* No occurrence of a Routine is dispatched twice, its Command runs at most
\* once, its success is real, and an orphaned one stays.
THEOREM OccurrencesOnce ==
    Spec => []RunsAsScheduled /\ OrphanScheduleStays
<1>1. DispatchedOnce /\ TargetRunsOnce /\ SucceededMeansRan => RunsAsScheduled
  BY DEF RunsAsScheduled
<1>2. QED
  BY <1>1, ImplementsScheduler, ScheduleDispatchedOnce, TargetCommandRunsOnce, SuccessIsReal,
     OrphansStay, PTL

-----------------------------------------------------------------------------
(* The first chain goes on                                                 *)

\* A version is active or inactive by its number.
StatusOfVersion ==
    /\ routine.version = 1 => routine.status = "inactive"
    /\ routine.version = 2 => routine.status = "active"

Exists(s) == schedule[s].state # "none"

\* The definition of an occurrence, as RequestFor makes it.
IsOccurrence(s, def) ==
    s \in Occurrences /\ def = [due |-> s, target |-> s, payload |-> "routine.plan"]

\* Whatever is scheduled is an occurrence.
OnlyOccurrences ==
    /\ \A s \in Schedules : IF Exists(s) THEN IsOccurrence(s, schedule[s].def) ELSE schedule[s] = Absent
    /\ \A p \in Processes : creator[p].place # "idle" =>
          IsOccurrence(creator[p].request.schedule, creator[p].request.def)

\* A creation belongs to the process that claimed it, and whoever says that
\* it succeeded says so of a Schedule that exists.
Creating(p) == creator[p].place \in {"plan", "create", "finish"}

CreationsOwned ==
    /\ \A p \in Processes :
          /\ Creating(p) => creation[creator[p].id] = Claimed(creator[p].request)
          /\ creator[p].place = "finish" /\ creator[p].verdict = "succeeded" =>
                Exists(creator[p].request.schedule)
          /\ creator[p].place = "idle" => creator[p].id = NoRequest /\ creator[p].request = NoRequest
    /\ \A p, q \in Processes : Creating(p) /\ Creating(q) /\ creator[p].id = creator[q].id => p = q
    /\ \A c \in CreateIds : creation[c].state = "succeeded" =>
          creation[c].request \in Requests /\ Exists(creation[c].request.schedule)

Succeeds(p) == creator[p].place = "idle" /\ creator[p].verdict = "succeeded"

SomethingExists == \E k \in Occurrences : Exists(k)

\* Whoever is told of success has a Schedule, and the handler of an occurrence
\* that of the next one.
AnswersMeanIt ==
    /\ \A p \in Processes : Succeeds(p) => SomethingExists
    /\ \A d \in Daemons : phase[d] = "handling" /\ job[d].place = "chained" =>
          /\ creator[d].place # "idle" => creator[d].request.schedule = current[d] + 1
          /\ Succeeds(d) => Exists(current[d] + 1)

\* Before the activation nothing is scheduled.
NothingYet ==
    routine.version = 1 =>
        /\ \A s \in Schedules : ~Exists(s)
        /\ \A p \in Processes : creator[p].place = "idle"
        /\ \A o \in Operators : op[o].place \in {"idle", "update"} /\ ~op[o].committed

\* After it there is a Schedule, or an operator sees to it.
Begun ==
    routine.version = 2 =>
        SomethingExists \/ \E o \in Operators : op[o].place \in {"schedule", "create"}

\* Daemon d will chain the next occurrence to the one it holds.
WillChain(d) ==
    \/ phase[d] = "dispatch"
    \/ phase[d] = "handling" /\ job[d].place \in {"read", "plan", "chain", "chained"}

Passed(k) == k + 1 \in Occurrences /\ Exists(k + 1)

\* An occurrence has its successor, or somebody will see to it.
Carried ==
    routine.version <= 2 =>
        \A k \in Occurrences : Exists(k) =>
            \/ schedule[k].state = "pending"
            \/ Passed(k)
            \/ \E d \in Daemons : current[d] = k /\ WillChain(d)

\* What holds as long as nothing went wrong.
ChainStands ==
    /\ StatusOfVersion /\ OnlyOccurrences /\ CreationsOwned /\ AnswersMeanIt
    /\ NothingYet /\ Begun /\ Carried

CInv == RInv /\ (~disturbed => ChainStands)

-----------------------------------------------------------------------------
(* What a step that disturbs nobody may do.                                 *)

\* Files come, and change their state, but neither go nor change otherwise.
FilesGrow == \A s \in Schedules : Exists(s) => schedule'[s].state # "none" /\ schedule'[s].def = schedule[s].def

\* No file comes.
SameFiles ==
    /\ FilesGrow
    /\ \A s \in Schedules : ~Exists(s) => schedule'[s] = schedule[s]

LEMMA GrownFiles ==
    ASSUME RInv, [SchedulerStep]_schedulerVars
    PROVE  FilesGrow
  BY DefinitionsStay DEF FilesGrow, Exists, RInv

\* What one may rely on in the terms of the types.
LEMMA ChainTyped ==
    ASSUME RInv
    PROVE  /\ MaxTime \in Nat /\ Occurrences \subseteq Nat /\ Occurrences \subseteq Schedules
           /\ Occurrences \subseteq CreateIds
           /\ schedule \in [Schedules -> Files]
           /\ creator \in [Processes -> Creators]
           /\ creation \in [CreateIds -> [state : Results \cup {"unclaimed", "running"},
                                          request : Requests \cup {NoRequest}]]
           /\ phase \in [Daemons -> {"off", "ready", "dispatch", "handling", "finish"}]
           /\ todo \in [Daemons -> SUBSET Schedules]
           /\ current \in [Daemons -> Schedules \cup {NoRequest}]
           /\ job \in [Daemons -> Jobs]
           /\ op \in [Operators -> Asks]
           /\ routine \in [status : Statuses, version : 1 .. MaxVersion]
           /\ Daemons \subseteq Processes /\ Operators \subseteq Processes
<1>1. MaxTime \in Nat /\ Occurrences \subseteq Nat
  BY SchedulerAssumption DEF Occurrences
<1>2. Occurrences \subseteq Schedules /\ Occurrences \subseteq CreateIds
  BY RoutineAssumption
<1>3. SchedulerTypeOK /\ RoutineTypes
  BY DEF RInv, IInv
<1>4. QED
  BY <1>1, <1>2, <1>3 DEF SchedulerTypeOK, RoutineTypes, Files, Creators, Jobs, Asks, Processes

\* A Schedule that is held exists, and nobody else holds it.
LEMMA HeldOccurrence ==
    ASSUME RInv, ChainStands, NEW d \in Daemons, Holding(d)
    PROVE  /\ current[d] \in Schedules /\ schedule[current[d]].state = "dispatching"
           /\ IsOccurrence(current[d], schedule[current[d]].def)
           /\ Target(d) = current[d] /\ Payload(d) = "routine.plan"
           /\ current[d] \in Nat /\ current[d] + 1 \in Occurrences
<1>1. current[d] \in Schedules /\ schedule[current[d]].state = "dispatching"
  BY DEF RInv, IInv, HeldAlone
<1>2. IsOccurrence(current[d], schedule[current[d]].def)
  BY <1>1 DEF ChainStands, OnlyOccurrences, Exists
<1>3. /\ schedule[current[d]].def.due = current[d]
      /\ schedule[current[d]].def.target = current[d]
      /\ schedule[current[d]].def.payload = "routine.plan"
  BY <1>2 DEF IsOccurrence
<1>4. current[d] <= now
  BY <1>3 DEF RInv, HeldWasDue
<1>5. current[d] \in 1 .. MaxTime + 1 /\ now \in 0 .. MaxTime /\ MaxTime \in Nat
  BY <1>2, SchedulerAssumption DEF IsOccurrence, Occurrences, RInv, IInv, SchedulerTypeOK
<1>6. QED
  BY <1>1, <1>2, <1>3, <1>4, <1>5 DEF Target, Payload, Occurrences

LEMMA ChainersHold == ASSUME NEW d \in Daemons, WillChain(d) PROVE Holding(d)
  BY DEF WillChain, Holding

\* Where neither the Routine nor its operators move.
LEMMA RoutineSame ==
    ASSUME RInv, ChainStands, UNCHANGED <<routine, op>>, FilesGrow,
           routine.version = 1 => /\ \A s \in Schedules : ~Exists(s)'
                                  /\ \A p \in Processes : creator'[p].place = "idle"
    PROVE  StatusOfVersion' /\ NothingYet' /\ Begun'
<1>1. StatusOfVersion'
  BY DEF ChainStands, StatusOfVersion
<1>2. NothingYet'
  BY DEF ChainStands, NothingYet
<1>3. SomethingExists => SomethingExists'
  BY ChainTyped DEF SomethingExists, FilesGrow, Exists
<1>4. Begun'
  BY <1>3 DEF ChainStands, Begun
<1>5. QED
  BY <1>1, <1>2, <1>4

\* Where no creation moves.
LEMMA CreationsSame ==
    ASSUME RInv, RInv', ChainStands, UNCHANGED <<creator, creation>>, SameFiles
    PROVE  /\ OnlyOccurrences' /\ CreationsOwned'
           /\ \A p \in Processes : Succeeds(p)' => SomethingExists'
<1>1. OnlyOccurrences'
  <2>1. ASSUME NEW s \in Schedules
        PROVE  IF Exists(s)' THEN IsOccurrence(s, schedule'[s].def) ELSE schedule'[s] = Absent
    BY DEF ChainStands, OnlyOccurrences, SameFiles, FilesGrow, Exists
  <2>2. QED
    BY <2>1 DEF ChainStands, OnlyOccurrences
<1>2. \A s \in Schedules : Exists(s) => Exists(s)'
  BY DEF SameFiles, FilesGrow, Exists
<1>3. CreationsOwned'
  <2>1. ASSUME NEW p \in Processes, creator[p].place = "finish" PROVE creator[p].request.schedule \in Schedules
    BY <2>1 DEF RInv, IInv, CreatorsReady, Requests
  <2>2. ASSUME NEW c \in CreateIds, creation[c].state = "succeeded"
        PROVE  creation[c].request \in Requests /\ schedule'[creation[c].request.schedule].state # "none"
    BY <1>2, <2>2 DEF ChainStands, CreationsOwned, Exists, Requests
  <2>3. QED
    BY <1>2, <2>1, <2>2 DEF ChainStands, CreationsOwned, Exists, Creating
<1>4. SomethingExists => SomethingExists'
  BY <1>2, ChainTyped DEF SomethingExists
<1>5. QED
  BY <1>1, <1>3, <1>4 DEF ChainStands, AnswersMeanIt, Succeeds

\* Where the handlers that wait for a creation go on waiting.
LEMMA HandlersWait ==
    ASSUME RInv, ChainStands, [SchedulerStep]_schedulerVars,
           \A p \in Processes : Succeeds(p)' => SomethingExists',
           \A d \in Daemons : phase'[d] = "handling" /\ job'[d].place = "chained" =>
              phase[d] = "handling" /\ job[d].place = "chained" /\ creator'[d] = creator[d]
    PROVE  AnswersMeanIt'
<1>1. ASSUME NEW d \in Daemons, phase'[d] = "handling", job'[d].place = "chained"
      PROVE  /\ creator'[d].place # "idle" => creator'[d].request.schedule = current'[d] + 1
             /\ Succeeds(d)' => schedule'[current'[d] + 1].state # "none"
  <2>1. phase[d] = "handling" /\ job[d].place = "chained" /\ creator'[d] = creator[d]
    BY <1>1
  <2>2. current'[d] = current[d]
    BY <1>1, TicksMove DEF RInv
  <2>3. current[d] + 1 \in Schedules
    BY <2>1, HeldOccurrence, ChainTyped DEF Holding
  <2>4. Succeeds(d)' => Succeeds(d)
    BY <2>1 DEF Succeeds
  <2>5. QED
    BY <2>1, <2>2, <2>3, <2>4, GrownFiles DEF ChainStands, AnswersMeanIt, FilesGrow, Exists
<1>2. QED
  BY <1>1 DEF AnswersMeanIt, Exists

\* Where what was pending stays so or is claimed, and nobody who has still to
\* chain leaves without having done so.
LEMMA CarriedKept ==
    ASSUME RInv, ChainStands, FilesGrow, routine'.version <= 2 => routine.version <= 2,
           \A k \in Occurrences : ~Exists(k) /\ Exists(k)' => schedule'[k].state = "pending",
           \A k \in Occurrences : schedule[k].state = "pending" =>
              \/ schedule'[k].state = "pending"
              \/ \E d \in Daemons : current'[d] = k /\ WillChain(d)',
           routine'.version <= 2 =>
              \A d \in Daemons : WillChain(d) =>
                 \/ WillChain(d)' /\ current'[d] = current[d]
                 \/ schedule'[current[d] + 1].state # "none"
    PROVE  Carried'
<1> SUFFICES ASSUME routine'.version <= 2, NEW k \in Occurrences, Exists(k)'
             PROVE  \/ schedule'[k].state = "pending"
                    \/ k + 1 \in Occurrences /\ schedule'[k + 1].state # "none"
                    \/ \E d \in Daemons : current'[d] = k /\ WillChain(d)'
  BY DEF Carried, Passed, Exists
<1>1. CASE ~Exists(k) \/ schedule[k].state = "pending"
  BY <1>1
<1>2. CASE k + 1 \in Occurrences /\ Exists(k + 1)
  BY <1>2, ChainTyped DEF FilesGrow
<1>3. ASSUME NEW d \in Daemons, current[d] = k, WillChain(d)
      PROVE  \/ k + 1 \in Occurrences /\ schedule'[k + 1].state # "none"
             \/ current'[d] = k /\ WillChain(d)'
  BY <1>3, ChainersHold, HeldOccurrence
<1>4. QED
  BY <1>1, <1>2, <1>3 DEF ChainStands, Carried, Passed

\* A step of daemons that has no part in the chain.
LEMMA AsideStands ==
    ASSUME RInv, RInv', ChainStands, [SchedulerStep]_schedulerVars,
           UNCHANGED <<creator, creation, routine, op>>, SameFiles,
           \A k \in Occurrences : schedule[k].state = "pending" =>
              \/ schedule'[k].state = "pending"
              \/ \E d \in Daemons : current'[d] = k /\ WillChain(d)',
           \A d \in Daemons : phase'[d] = "handling" /\ job'[d].place = "chained" =>
              phase[d] = "handling" /\ job[d].place = "chained",
           routine'.version <= 2 =>
              \A d \in Daemons : WillChain(d) =>
                 \/ WillChain(d)' /\ current'[d] = current[d]
                 \/ schedule'[current[d] + 1].state # "none"
    PROVE  ChainStands'
<1>1. \A s \in Schedules : Exists(s)' => Exists(s)
  BY DEF SameFiles, Exists
<1>2. StatusOfVersion' /\ NothingYet' /\ Begun'
  BY <1>1, RoutineSame DEF SameFiles, ChainStands, NothingYet
<1>3. OnlyOccurrences' /\ CreationsOwned' /\ \A p \in Processes : Succeeds(p)' => SomethingExists'
  BY CreationsSame
<1>4. AnswersMeanIt'
  BY <1>3, HandlersWait
<1>5. Carried'
  BY <1>1, CarriedKept, ChainTyped DEF SameFiles
<1>6. QED
  BY <1>2, <1>3, <1>4, <1>5 DEF ChainStands

-----------------------------------------------------------------------------
(* Steps of daemons.                                                        *)

LEMMA TicksStand ==
    ASSUME RInv, RInv', ChainStands, [SchedulerStep]_schedulerVars,
           UNCHANGED <<stores, current, creator, routine, op, job>>,
           \A d \in Daemons : phase'[d] = phase[d] \/ {phase[d], phase'[d]} \subseteq {"off", "ready"}
    PROVE  ChainStands'
<1>1. UNCHANGED <<schedule, creation>>
  BY DEF stores
<1>2. SameFiles
  BY <1>1 DEF SameFiles, FilesGrow, Exists
<1>3. \A d \in Daemons : WillChain(d) => WillChain(d)' /\ current'[d] = current[d]
  BY DEF WillChain
<1>4. QED
  BY <1>1, <1>2, <1>3, AsideStands DEF Exists

LEMMA ClaimStands ==
    ASSUME RInv, RInv', ChainStands, [SchedulerStep]_schedulerVars, UNCHANGED routineVars,
           NEW d \in Daemons, Claim(d)
    PROVE  ChainStands'
<1>1. PICK s \in todo[d] :
          /\ phase[d] = "ready"
          /\ schedule[s].state = "pending"
          /\ schedule' = [schedule EXCEPT ![s].state = "dispatching"]
          /\ phase' = [phase EXCEPT ![d] = "dispatch"]
          /\ current' = [current EXCEPT ![d] = s]
          /\ UNCHANGED <<creation, creator>>
  BY DEF Claim, NextDue
<1>2. s \in Schedules
  BY ChainTyped
<1>3. /\ \A u \in Schedules : /\ schedule'[u].def = schedule[u].def
                              /\ schedule'[u].state = IF u = s THEN "dispatching" ELSE schedule[u].state
      /\ \A u \in Schedules : u # s => schedule'[u] = schedule[u]
  BY <1>1, <1>2, ChainTyped, MoveSchedule DEF States, RInv, IInv
<1>4. SameFiles
  BY <1>1, <1>3 DEF SameFiles, FilesGrow, Exists
<1>5. WillChain(d)' /\ current'[d] = s /\ ~WillChain(d)
  BY <1>1, ChainTyped DEF WillChain
<1>6. \A e \in Daemons : e # d => phase'[e] = phase[e] /\ current'[e] = current[e]
  BY <1>1, ChainTyped
<1>7. \A e \in Daemons : WillChain(e) => WillChain(e)' /\ current'[e] = current[e]
  BY <1>5, <1>6 DEF WillChain, routineVars
<1>8. \A e \in Daemons : phase'[e] = "handling" => phase[e] = "handling"
  BY <1>1, <1>6, ChainTyped
<1>9. \A k \in Occurrences : schedule[k].state = "pending" =>
          schedule'[k].state = "pending" \/ \E e \in Daemons : current'[e] = k /\ WillChain(e)'
  BY <1>3, <1>5, ChainTyped
<1>10. QED
  BY <1>1, <1>4, <1>7, <1>8, <1>9, AsideStands DEF routineVars

\* By the time its record is closed an occurrence has its successor.
LEMMA FinishStands ==
    ASSUME RInv, RInv', ChainStands, [SchedulerStep]_schedulerVars, UNCHANGED routineVars,
           NEW d \in Daemons, Finish(d)
    PROVE  ChainStands'
<1>1. /\ phase[d] = "finish" /\ current[d] \in Schedules /\ schedule[current[d]].state = "dispatching"
      /\ outcome[d] \in Terminal
  BY HeldOccurrence DEF Finish, Holding, RInv, IInv, OutcomesReal
<1>2. /\ schedule' = [schedule EXCEPT ![current[d]].state = outcome[d]]
      /\ phase' = [phase EXCEPT ![d] = "ready"]
      /\ current' = [current EXCEPT ![d] = NoRequest]
      /\ UNCHANGED <<creation, creator>>
  BY DEF Finish
<1>3. outcome[d] \in States \ {"none"}
  BY <1>1 DEF Terminal, States
<1>4. \A u \in Schedules : /\ schedule'[u].def = schedule[u].def
                           /\ schedule'[u].state = IF u = current[d] THEN outcome[d] ELSE schedule[u].state
                           /\ u # current[d] => schedule'[u] = schedule[u]
  BY <1>1, <1>2, <1>3, ChainTyped, MoveSchedule DEF RInv, IInv
<1>5. SameFiles
  BY <1>1, <1>3, <1>4 DEF SameFiles, FilesGrow, Exists
<1>6. \A e \in Daemons : e # d => phase'[e] = phase[e] /\ current'[e] = current[e]
  BY <1>2, ChainTyped
<1>7. ~WillChain(d) /\ phase'[d] = "ready"
  BY <1>1, <1>2, ChainTyped DEF WillChain
<1>8. \A e \in Daemons : WillChain(e) => WillChain(e)' /\ current'[e] = current[e]
  BY <1>6, <1>7 DEF WillChain, routineVars
<1>9. \A e \in Daemons : phase'[e] = "handling" => phase[e] = "handling"
  BY <1>6, <1>7
<1>10. \A k \in Occurrences : schedule[k].state = "pending" => schedule'[k].state = "pending"
  BY <1>1, <1>4, ChainTyped
<1>11. QED
  BY <1>2, <1>5, <1>8, <1>9, <1>10, AsideStands DEF routineVars

-----------------------------------------------------------------------------
(* Steps of creations.                                                      *)

\* A Routine that was not activated has no creation under way.
LEMMA CreatingMeansActive ==
    ASSUME RInv, ChainStands, NEW p \in Processes, creator[p].place # "idle"
    PROVE  routine.version # 1
  BY DEF ChainStands, NothingYet

\* A creation goes on without adding a file.
LEMMA CreationStands ==
    ASSUME RInv, RInv', ChainStands, [SchedulerStep]_schedulerVars, FilesGrow,
           UNCHANGED <<ticks, routine, op, job>>, routine.version # 1,
           \A k \in Occurrences : ~Exists(k) /\ Exists(k)' => schedule'[k].state = "pending",
           \A k \in Occurrences : schedule[k].state = "pending" => schedule'[k].state = "pending",
           OnlyOccurrences', CreationsOwned', AnswersMeanIt'
    PROVE  ChainStands'
<1>1. StatusOfVersion' /\ NothingYet' /\ Begun'
  BY RoutineSame
<1>2. \A d \in Daemons : WillChain(d) => WillChain(d)' /\ current'[d] = current[d]
  BY DEF WillChain, ticks
<1>3. Carried'
  BY <1>2, CarriedKept
<1>4. QED
  BY <1>1, <1>3 DEF ChainStands

LEMMA ClaimCreationStands ==
    ASSUME RInv, RInv', ChainStands, [SchedulerStep]_schedulerVars, UNCHANGED routineVars,
           NEW p \in Processes, ClaimCreation(p)
    PROVE  ChainStands'
<1> DEFINE c == creator[p].id
           r == creator[p].request
<1>1. /\ creator[p].place = "claim" /\ c \in CreateIds /\ r \in Requests
      /\ UNCHANGED <<schedule, ticks>>
  BY DEF ClaimCreation, RInv, IInv, CreatorsReady
<1>2. FilesGrow
  BY <1>1 DEF FilesGrow, Exists
<1>3. \/ /\ creation[c] = Unclaimed /\ creation' = [creation EXCEPT ![c] = Claimed(r)]
         /\ creator'[p] = [creator[p] EXCEPT !.place = "plan"]
      \/ /\ UNCHANGED creation /\ creation[c] = [state |-> "succeeded", request |-> r]
         /\ creator'[p] = [Idle EXCEPT !.verdict = "succeeded"]
      \/ UNCHANGED creation /\ creator'[p] = [Idle EXCEPT !.verdict = "failed"]
  BY <1>1, ChainTyped DEF ClaimCreation, Goto, CreationReturns
<1>4. \A q \in Processes : q # p => creator'[q] = creator[q]
  BY ChainTyped DEF ClaimCreation, Goto, CreationReturns
<1>5. \/ /\ creation[c] = Unclaimed /\ creation' = [creation EXCEPT ![c] = Claimed(r)]
         /\ creator'[p].place = "plan" /\ creator'[p].id = c /\ creator'[p].request = r
      \/ /\ UNCHANGED creation /\ creation[c] = [state |-> "succeeded", request |-> r]
         /\ creator'[p].place = "idle" /\ creator'[p].verdict = "succeeded"
         /\ creator'[p].id = NoRequest /\ creator'[p].request = NoRequest
      \/ /\ UNCHANGED creation /\ creator'[p].place = "idle" /\ creator'[p].verdict = "failed"
         /\ creator'[p].id = NoRequest /\ creator'[p].request = NoRequest
  BY <1>1, <1>3, ChainTyped DEF Creators, Idle
<1>6. Exists(r.schedule) \/ ~Succeeds(p)'
  BY <1>1, <1>5 DEF ChainStands, CreationsOwned, Succeeds
<1>7. OnlyOccurrences'
  BY <1>1, <1>4, <1>5 DEF ChainStands, OnlyOccurrences, Exists
<1>8. CreationsOwned'
  <2>1. \A q \in Processes : creator'[q].place = "idle" =>
            creator'[q].id = NoRequest /\ creator'[q].request = NoRequest
    <3>1. creator'[p].place = "idle" => creator'[p].id = NoRequest /\ creator'[p].request = NoRequest
      BY <1>5
    <3>2. QED
      BY <1>4, <3>1 DEF ChainStands, CreationsOwned
  <2>2. \A q \in Processes : creator'[q].place = "finish" => q # p
    BY <1>5
  <2>3. \A q \in Processes : Creating(q)' =>
            IF q = p THEN creation[c] = Unclaimed /\ creation'[c] = Claimed(r)
                          /\ creator'[p].id = c /\ creator'[p].request = r
            ELSE Creating(q) /\ creator'[q] = creator[q]
    BY <1>1, <1>4, <1>5, ChainTyped DEF Creating
  <2>4. \A q \in Processes : Creating(q) => creation[creator[q].id] = Claimed(creator[q].request)
                                            /\ creator[q].id \in CreateIds
    BY DEF ChainStands, CreationsOwned, Creating, RInv, IInv, CreatorsReady
  <2>5. \A e \in CreateIds : \/ creation'[e] = creation[e]
                             \/ e = c /\ creation[c] = Unclaimed /\ creation'[c] = Claimed(r)
    BY <1>1, <1>5, ChainTyped
  <2>6. Unclaimed.state = "unclaimed" /\ \A x : Claimed(x).state = "running"
    BY DEF Unclaimed, Claimed
  <2>7. \A q \in Processes : Creating(q)' => creation'[creator'[q].id] = Claimed(creator'[q].request)
    BY <2>3, <2>4, <2>5, <2>6
  <2>8. \A q, u \in Processes : Creating(q)' /\ Creating(u)' /\ creator'[q].id = creator'[u].id => q = u
    BY <2>3, <2>4, <2>6 DEF ChainStands, CreationsOwned
  <2>9. \A e \in CreateIds : creation'[e].state = "succeeded" =>
            creation'[e].request \in Requests /\ Exists(creation'[e].request.schedule)
    BY <2>5, <2>6 DEF ChainStands, CreationsOwned
  <2>10. QED
    BY <1>1, <1>4, <2>1, <2>2, <2>7, <2>8, <2>9 DEF ChainStands, CreationsOwned, Exists
<1>9. AnswersMeanIt'
  <2>1. r.schedule \in Occurrences
    BY <1>1 DEF ChainStands, OnlyOccurrences, IsOccurrence
  <2>2. \A q \in Processes : Succeeds(q)' => SomethingExists'
    BY <1>1, <1>4, <1>6, <2>1 DEF ChainStands, AnswersMeanIt, SomethingExists, Exists, Succeeds
  <2>3. ASSUME NEW d \in Daemons, phase[d] = "handling", job[d].place = "chained"
        PROVE  /\ creator'[d].place # "idle" => creator'[d].request.schedule = current[d] + 1
               /\ Succeeds(d)' => Exists(current[d] + 1)
    <3>1. creator[d].place # "idle" => creator[d].request.schedule = current[d] + 1
      BY <2>3 DEF ChainStands, AnswersMeanIt
    <3>2. CASE d = p
      BY <1>1, <1>5, <1>6, <3>1, <3>2
    <3>3. CASE d # p
      <4>1. creator'[d] = creator[d] /\ (Succeeds(d)' <=> Succeeds(d))
        BY <1>4, <3>3, ChainTyped DEF Succeeds
      <4>2. QED
        BY <2>3, <4>1 DEF ChainStands, AnswersMeanIt
    <3>4. QED
      BY <3>2, <3>3
  <2>4. QED
    BY <1>1, <2>2, <2>3 DEF AnswersMeanIt, ticks, routineVars, Exists
<1>10. routine.version # 1
  BY <1>1, CreatingMeansActive
<1>11. QED
  BY <1>1, <1>2, <1>7, <1>8, <1>9, <1>10, CreationStands DEF routineVars, Exists

LEMMA PlanCreationStands ==
    ASSUME RInv, RInv', ChainStands, [SchedulerStep]_schedulerVars, UNCHANGED routineVars,
           NEW p \in Processes, PlanCreation(p)
    PROVE  ChainStands'
<1>1. creator[p].place = "plan" /\ UNCHANGED <<schedule, creation, ticks>>
  BY DEF PlanCreation, stores
<1>2. /\ creator'[p].place \in {"create", "finish"}
      /\ creator'[p].id = creator[p].id /\ creator'[p].request = creator[p].request
      /\ creator'[p].place = "finish" => creator'[p].verdict = "failed"
      /\ \A q \in Processes : q # p => creator'[q] = creator[q]
  BY ChainTyped DEF PlanCreation, Goto, ToFinish, Creators
<1>3. FilesGrow
  BY <1>1 DEF FilesGrow, Exists
<1>4. OnlyOccurrences'
  BY <1>1, <1>2 DEF ChainStands, OnlyOccurrences, Exists
<1>5. CreationsOwned'
  BY <1>1, <1>2 DEF ChainStands, CreationsOwned, Exists, Creating
<1>6. AnswersMeanIt'
  <2>1. \A q \in Processes : Succeeds(q)' => Succeeds(q)
    BY <1>2 DEF Succeeds
  <2>2. \A d \in Daemons :
            /\ creator'[d].place # "idle" => creator[d].place # "idle" /\ creator'[d].request = creator[d].request
    BY <1>1, <1>2, ChainTyped
  <2>3. QED
    BY <1>1, <2>1, <2>2, ChainTyped DEF ChainStands, AnswersMeanIt, ticks, routineVars, SomethingExists, Exists
<1>7. routine.version # 1
  BY <1>1, CreatingMeansActive
<1>8. QED
  BY <1>1, <1>3, <1>4, <1>5, <1>6, <1>7, CreationStands DEF routineVars, Exists

LEMMA FinishCreationStands ==
    ASSUME RInv, RInv', ChainStands, [SchedulerStep]_schedulerVars, UNCHANGED routineVars,
           NEW p \in Processes, FinishCreation(p)
    PROVE  ChainStands'
<1> DEFINE c == creator[p].id
           r == creator[p].request
           v == creator[p].verdict
<1>1. /\ creator[p].place = "finish" /\ c \in CreateIds /\ r \in Requests
      /\ v \in {"succeeded", "failed"}
      /\ UNCHANGED <<schedule, ticks>>
      /\ creation' = [creation EXCEPT ![c].state = v]
  BY DEF FinishCreation, RInv, IInv, CreatorsReady
<1>2. /\ creator'[p].place = "idle" /\ creator'[p].verdict = v
      /\ creator'[p].id = NoRequest /\ creator'[p].request = NoRequest
      /\ \A q \in Processes : q # p => creator'[q] = creator[q]
  BY ChainTyped DEF FinishCreation, CreationReturns, Idle
<1>3. /\ \A e \in CreateIds : e # c => creation'[e] = creation[e]
      /\ creation'[c].state = v /\ creation'[c].request = r
  <2>1. creation[c] = Claimed(r)
    BY <1>1 DEF ChainStands, CreationsOwned, Creating
  <2>2. creation[c].request = r
    BY <2>1 DEF Claimed
  <2>3. QED
    BY <1>1, <2>2, ChainTyped
<1>4. v = "succeeded" => Exists(r.schedule)
  BY <1>1 DEF ChainStands, CreationsOwned
<1>5. FilesGrow
  BY <1>1 DEF FilesGrow, Exists
<1>6. OnlyOccurrences'
  BY <1>1, <1>2 DEF ChainStands, OnlyOccurrences, Exists
<1>7. CreationsOwned'
  <2>1. \A q \in Processes : Creating(q)' => Creating(q) /\ q # p /\ creator'[q] = creator[q]
    BY <1>2 DEF Creating
  <2>2. \A q \in Processes : Creating(q)' =>
            creation'[creator'[q].id] = Claimed(creator'[q].request)
    <3>1. ASSUME NEW q \in Processes, Creating(q)' PROVE creator[q].id # c /\ creator[q].id \in CreateIds
      BY <1>1, <2>1, <3>1 DEF ChainStands, CreationsOwned, Creating, RInv, IInv, CreatorsReady
    <3>2. QED
      BY <1>3, <2>1, <3>1 DEF ChainStands, CreationsOwned
  <2>3. \A q, u \in Processes : Creating(q)' /\ Creating(u)' /\ creator'[q].id = creator'[u].id => q = u
    BY <2>1 DEF ChainStands, CreationsOwned
  <2>4. \A e \in CreateIds : creation'[e].state = "succeeded" =>
            creation'[e].request \in Requests /\ Exists(creation'[e].request.schedule)
    BY <1>1, <1>3, <1>4 DEF ChainStands, CreationsOwned
  <2>5. QED
    BY <1>1, <1>2, <2>2, <2>3, <2>4 DEF ChainStands, CreationsOwned, Exists
<1>8. AnswersMeanIt'
  <2>1. r.schedule \in Occurrences
    BY <1>1 DEF ChainStands, OnlyOccurrences, IsOccurrence
  <2>2. \A q \in Processes : Succeeds(q)' => SomethingExists'
    BY <1>1, <1>2, <1>4, <2>1 DEF ChainStands, AnswersMeanIt, SomethingExists, Exists, Succeeds
  <2>3. ASSUME NEW d \in Daemons, phase[d] = "handling", job[d].place = "chained"
        PROVE  /\ creator'[d].place # "idle" => creator'[d].request.schedule = current[d] + 1
               /\ Succeeds(d)' => Exists(current[d] + 1)
    <3>1. creator[d].place # "idle" => creator[d].request.schedule = current[d] + 1
      BY <2>3 DEF ChainStands, AnswersMeanIt
    <3>2. CASE d = p
      BY <1>1, <1>2, <1>4, <3>1, <3>2 DEF Succeeds
    <3>3. CASE d # p
      <4>1. creator'[d] = creator[d] /\ (Succeeds(d)' <=> Succeeds(d))
        BY <1>2, <3>3, ChainTyped DEF Succeeds
      <4>2. QED
        BY <2>3, <4>1 DEF ChainStands, AnswersMeanIt
    <3>4. QED
      BY <3>2, <3>3
  <2>4. QED
    BY <1>1, <2>2, <2>3 DEF AnswersMeanIt, ticks, routineVars, Exists
<1>9. routine.version # 1
  BY <1>1, CreatingMeansActive
<1>10. QED
  BY <1>1, <1>5, <1>6, <1>7, <1>8, <1>9, CreationStands DEF routineVars, Exists

LEMMA StoreScheduleStands ==
    ASSUME RInv, RInv', ChainStands, [SchedulerStep]_schedulerVars, UNCHANGED routineVars,
           NEW p \in Processes, StoreSchedule(p)
    PROVE  ChainStands'
<1>0. PICK r, s : r = creator[p].request /\ s = r.schedule
  OBVIOUS
<1>1. /\ creator[p].place = "create" /\ r \in Requests
      /\ s \in Schedules /\ r.def \in Definitions /\ IsOccurrence(s, r.def)
      /\ UNCHANGED <<creation, ticks>>
  BY <1>0 DEF StoreSchedule, RInv, IInv, CreatorsReady, Requests, ChainStands, OnlyOccurrences
<1>2. /\ creator'[p].place = "finish"
      /\ creator'[p].id = creator[p].id /\ creator'[p].request = r
      /\ \A q \in Processes : q # p => creator'[q] = creator[q]
  BY <1>0, ChainTyped DEF StoreSchedule, ToFinish, Creators
<1>3. /\ \A u \in Schedules : u # s => schedule'[u] = schedule[u]
      /\ Exists(s)' /\ schedule'[s].def = (IF Exists(s) THEN schedule[s].def ELSE r.def)
      /\ schedule'[s].state = (IF Exists(s) THEN schedule[s].state ELSE "pending")
  <2>1. CASE schedule[s] = Absent
    <3>1. schedule' = [schedule EXCEPT ![s] = Pending(r.def)]
      BY <1>0, <2>1 DEF StoreSchedule
    <3>2. ~Exists(s)
      BY <2>1 DEF Exists, Absent
    <3>3. QED
      BY <1>1, <3>1, <3>2, AddSchedule DEF Exists, RInv, IInv
  <2>2. CASE schedule[s] # Absent
    <3>1. UNCHANGED schedule /\ Exists(s)
      BY <1>0, <1>1, <2>2 DEF StoreSchedule, ChainStands, OnlyOccurrences
    <3>2. QED
      BY <3>1 DEF Exists
  <2>3. QED
    BY <2>1, <2>2
<1>4. FilesGrow
  BY <1>3 DEF FilesGrow, Exists
<1>5. OnlyOccurrences'
  BY <1>0, <1>1, <1>2, <1>3 DEF ChainStands, OnlyOccurrences, Exists
<1>6. \A u \in Schedules : Exists(u) => Exists(u)'
  BY <1>4 DEF FilesGrow, Exists
<1>7. CreationsOwned'
  <2>1. \A q \in Processes : Creating(q)' => Creating(q) /\ creator'[q].id = creator[q].id
                                             /\ creator'[q].request = creator[q].request
    BY <1>0, <1>1, <1>2 DEF Creating
  <2>2. \A q \in Processes : creator'[q].place = "finish" /\ creator'[q].verdict = "succeeded" =>
            schedule'[creator'[q].request.schedule].state # "none"
    <3>1. ASSUME NEW q \in Processes, q # p, creator[q].place = "finish", creator[q].verdict = "succeeded"
          PROVE  schedule'[creator[q].request.schedule].state # "none"
      <4>1. creator[q].request.schedule \in Schedules
        BY <3>1 DEF RInv, IInv, CreatorsReady, Requests
      <4>2. QED
        BY <1>6, <3>1, <4>1 DEF ChainStands, CreationsOwned, Exists
    <3>2. QED
      BY <1>0, <1>2, <1>3, <3>1 DEF Exists
  <2>3. \A e \in CreateIds : creation[e].state = "succeeded" =>
            creation[e].request \in Requests /\ schedule'[creation[e].request.schedule].state # "none"
    BY <1>6 DEF ChainStands, CreationsOwned, Exists, Requests
  <2>4. QED
    BY <1>1, <1>2, <2>1, <2>2, <2>3 DEF ChainStands, CreationsOwned, Exists
<1>8. AnswersMeanIt'
  <2>1. \A q \in Processes : Succeeds(q)' => Succeeds(q)
    BY <1>2 DEF Succeeds
  <2>2. SomethingExists => SomethingExists'
    BY <1>6, ChainTyped DEF SomethingExists
  <2>3. \A d \in Daemons : creator'[d].place # "idle" =>
            creator[d].place # "idle" /\ creator'[d].request = creator[d].request
    BY <1>0, <1>1, <1>2, ChainTyped
  <2>4. \A d \in Daemons : phase[d] = "handling" => current[d] + 1 \in Schedules
    BY HeldOccurrence, ChainTyped DEF Holding
  <2>5. QED
    BY <1>1, <1>6, <2>1, <2>2, <2>3, <2>4, ChainTyped DEF ChainStands, AnswersMeanIt, ticks, routineVars, Exists
<1>9. routine.version # 1
  BY <1>1, CreatingMeansActive
<1>10. QED
  BY <1>1, <1>3, <1>4, <1>5, <1>7, <1>8, <1>9, ChainTyped, CreationStands DEF routineVars, Exists

-----------------------------------------------------------------------------
(* Steps of operators.                                                      *)

\* An operator does something that leaves Schedules and creations alone.
LEMMA OperatorStands ==
    ASSUME RInv, RInv', ChainStands, [SchedulerStep]_schedulerVars, UNCHANGED <<schedulerVars, job>>,
           NEW o \in Operators, NEW x, op' = [op EXCEPT ![o] = x],
           StatusOfVersion', routine'.version <= 2 => routine.version <= 2,
           routine'.version = 1 => routine.version = 1 /\ x.place \in {"idle", "update"} /\ ~x.committed,
           routine'.version = 2 => \/ SomethingExists
                                   \/ op[o].place \notin {"schedule", "create"} /\ routine.version = 2
                                   \/ x.place = "schedule"
    PROVE  ChainStands'
<1>1. UNCHANGED <<creator, creation, schedule, phase, current>>
  BY DEF schedulerVars, stores, ticks
<1>2. SameFiles
  BY <1>1 DEF SameFiles, FilesGrow, Exists
<1>3. \A u \in Operators : op'[u] = IF u = o THEN x ELSE op[u]
  BY ChainTyped
<1>4. OnlyOccurrences' /\ CreationsOwned' /\ \A p \in Processes : Succeeds(p)' => SomethingExists'
  BY <1>1, <1>2, CreationsSame
<1>5. AnswersMeanIt'
  BY <1>1, <1>4, HandlersWait
<1>6. NothingYet'
  BY <1>1, <1>3 DEF ChainStands, NothingYet, Exists
<1>7. Begun'
  <2>1. SomethingExists => SomethingExists'
    BY <1>1 DEF SomethingExists, Exists
  <2>2. CASE SomethingExists \/ x.place = "schedule"
    BY <1>3, <2>1, <2>2 DEF Begun
  <2>3. CASE op[o].place \notin {"schedule", "create"} /\ routine.version = 2
    BY <1>3, <2>1, <2>3 DEF ChainStands, Begun
  <2>4. QED
    BY <2>2, <2>3 DEF Begun
<1>8. Carried'
  <2>1. \A d \in Daemons : WillChain(d) => WillChain(d)' /\ current'[d] = current[d]
    BY <1>1 DEF WillChain
  <2>2. QED
    BY <1>1, <1>2, <2>1, CarriedKept DEF SameFiles, Exists
<1>9. QED
  BY <1>4, <1>5, <1>6, <1>7, <1>8 DEF ChainStands

\* An answer leaves an operator idle.
LEMMA AfterIdle ==
    ASSUME NEW x \in Asks, NEW told
    PROVE  After(x, told).place = "idle" /\ (After(x, told).committed => x.committed)
  BY DEF After, Asks, NoOp

\* Where the operator does not commit anything, the Routine stays.
LEMMA QuietOperatorStands ==
    ASSUME RInv, RInv', ChainStands, [SchedulerStep]_schedulerVars,
           UNCHANGED <<schedulerVars, job, routine>>,
           NEW o \in Operators, NEW x, op' = [op EXCEPT ![o] = x],
           routine.version = 1 => x.place \in {"idle", "update"} /\ ~x.committed,
           op[o].place \notin {"schedule", "create"} \/ x.place = "schedule" \/ SomethingExists
    PROVE  ChainStands'
<1>1. StatusOfVersion'
  BY DEF ChainStands, StatusOfVersion
<1>2. QED
  BY <1>1, OperatorStands

LEMMA AskStands ==
    ASSUME RInv, RInv', ChainStands, [SchedulerStep]_schedulerVars,
           NEW o \in Operators, NEW kind, Ask(o, kind)
    PROVE  ChainStands'
<1> DEFINE x == [NoOp EXCEPT !.kind = kind, !.place = "update", !.expected = routine.version, !.asOf = now]
<1>1. x.place = "update" /\ x.committed = FALSE
  BY DEF NoOp
<1>2. op' = [op EXCEPT ![o] = x] /\ op[o].place = "idle" /\ UNCHANGED <<schedulerVars, job, routine>>
  BY DEF Ask, Free
<1>3. QED
  BY <1>1, <1>2, QuietOperatorStands

LEMMA TransitionStands ==
    ASSUME RInv, RInv', ChainStands, [SchedulerStep]_schedulerVars, NEW o \in Operators, Transition(o)
    PROVE  ChainStands'
<1>1. op[o] \in Asks /\ op[o].place = "update" /\ UNCHANGED <<schedulerVars, job>>
  BY ChainTyped DEF Transition
<1>2. CASE ~Accepted(o) /\ Answer(o, "none") /\ UNCHANGED routine
  <2>1. op' = [op EXCEPT ![o] = After(op[o], "none")]
    BY <1>1, <1>2, ChainTyped DEF Answer
  <2>2. routine.version = 1 => ~op[o].committed
    BY DEF ChainStands, NothingYet
  <2>3. QED
    BY <1>1, <1>2, <2>1, <2>2, AfterIdle, QuietOperatorStands
<1>3. CASE Accepted(o) /\ Committed(o)
  <2>1. routine.version \in Nat /\ routine.version >= 1
    BY ChainTyped
  <2>2. /\ routine'.version = routine.version + 1
        /\ routine'.status = IF op[o].kind = "activate" THEN "active" ELSE "inactive"
        /\ routine.status = IF op[o].kind = "activate" THEN "inactive" ELSE "active"
    BY <1>3 DEF Accepted, Committed
  <2>3. routine'.version = 2 => routine.version = 1 /\ op[o].kind = "activate"
    BY <2>1, <2>2 DEF ChainStands, StatusOfVersion
  <2>4. StatusOfVersion'
    BY <2>1, <2>2, <2>3 DEF StatusOfVersion
  <2>5. routine'.version # 1 /\ (routine'.version <= 2 => routine.version <= 2)
    BY <2>1, <2>2
  <2>6. PICK x : /\ op' = [op EXCEPT ![o] = x]
                 /\ op[o].kind = "activate" => x.place = "schedule"
    <3>1. CASE op[o].kind = "activate"
      <4>1. [op[o] EXCEPT !.place = "schedule", !.committed = TRUE].place = "schedule"
        BY <1>1 DEF Asks
      <4>2. op' = [op EXCEPT ![o] = [op[o] EXCEPT !.place = "schedule", !.committed = TRUE]]
        BY <1>3, <3>1, ChainTyped DEF Transition, Accepted
      <4>3. QED
        BY <4>1, <4>2
    <3>2. CASE op[o].kind # "activate"
      BY <1>1, <1>3, <3>2, ChainTyped DEF Transition, Answer
    <3>3. QED
      BY <3>1, <3>2
  <2>7. QED
    BY <1>1, <2>3, <2>4, <2>5, <2>6, OperatorStands
<1>4. QED
  BY <1>2, <1>3 DEF Transition

LEMMA RetryOrInspectStands ==
    ASSUME RInv, RInv', ChainStands, [SchedulerStep]_schedulerVars, NEW o \in Operators,
           Retry(o) \/ Inspect(o) \/ \E id \in RepairIds : Reconcile(o, id)
    PROVE  ChainStands'
<1>1. op[o] \in Asks /\ UNCHANGED <<schedulerVars, job, routine>>
  BY ChainTyped DEF Retry, Inspect, Reconcile
<1>2. routine.version # 1
  BY DEF Retry, Inspect, Reconcile, ChainStands, NothingYet, StatusOfVersion
<1>3. op[o].place \notin {"schedule", "create"}
  BY DEF Retry, Inspect, Reconcile, Free
<1>4. \E x : op' = [op EXCEPT ![o] = x]
  <2>1. CASE Retry(o)
    <3>1. op' = [op EXCEPT ![o] = [op[o] EXCEPT !.place = "schedule", !.told = "none"]]
      BY <2>1, ChainTyped DEF Retry
    <3>2. QED
      BY <3>1
  <2>2. CASE Inspect(o)
    <3>1. CASE Answer(o, "none")
      BY <3>1 DEF Answer
    <3>2. CASE op' = [op EXCEPT ![o].place = "schedule"]
      <4>1. op' = [op EXCEPT ![o] = [op[o] EXCEPT !.place = "schedule"]]
        BY <3>2, ChainTyped
      <4>2. QED
        BY <4>1
    <3>3. QED
      BY <2>2, <3>1, <3>2 DEF Inspect
  <2>3. CASE \E id \in RepairIds : Reconcile(o, id)
    BY <2>3 DEF Reconcile
  <2>4. QED
    BY <2>1, <2>2, <2>3
<1>5. QED
  BY <1>1, <1>2, <1>3, <1>4, QuietOperatorStands

-----------------------------------------------------------------------------
(* A creation is submitted, or its answer taken.                            *)

LEMMA CreatorReplaced ==
    ASSUME RInv, ChainStands, UNCHANGED <<schedule, creation>>,
           NEW p \in Processes, NEW x, creator' = [creator EXCEPT ![p] = x],
           \/ x = Idle
           \/ x.place = "claim" /\ IsOccurrence(x.request.schedule, x.request.def)
    PROVE  /\ OnlyOccurrences' /\ CreationsOwned'
           /\ \A q \in Processes : Succeeds(q)' => SomethingExists'
           /\ creator'[p] = x /\ \A q \in Processes : q # p => creator'[q] = creator[q]
<1>1. creator'[p] = x /\ \A q \in Processes : q # p => creator'[q] = creator[q]
  BY ChainTyped
<1>2. /\ x.place \in {"idle", "claim"}
      /\ x.place = "idle" => x.id = NoRequest /\ x.request = NoRequest /\ x.verdict = "none"
      /\ x.place # "idle" => IsOccurrence(x.request.schedule, x.request.def)
  BY DEF Idle
<1>3. OnlyOccurrences'
  BY <1>1, <1>2 DEF ChainStands, OnlyOccurrences, Exists
<1>4. CreationsOwned'
  <2>1. \A q \in Processes : Creating(q)' \/ creator'[q].place = "finish" => q # p
    BY <1>1, <1>2 DEF Creating
  <2>2. QED
    BY <1>1, <1>2, <2>1 DEF ChainStands, CreationsOwned, Exists, Creating
<1>5. \A q \in Processes : Succeeds(q)' => Succeeds(q)
  BY <1>1, <1>2 DEF Succeeds
<1>6. QED
  BY <1>1, <1>3, <1>4, <1>5 DEF ChainStands, AnswersMeanIt, SomethingExists, Exists

\* An operator submits the creation of an occurrence, or has its answer.
LEMMA OperatorCreates ==
    ASSUME RInv, RInv', ChainStands, [SchedulerStep]_schedulerVars,
           UNCHANGED <<stores, ticks, routine, job>>, routine.version # 1,
           NEW o \in Operators, NEW x, creator' = [creator EXCEPT ![o] = x],
           \/ x = Idle
           \/ x.place = "claim" /\ IsOccurrence(x.request.schedule, x.request.def),
           NEW y, op' = [op EXCEPT ![o] = y], y.place = "create" \/ SomethingExists
    PROVE  ChainStands'
<1>1. UNCHANGED <<schedule, creation, phase, current>> /\ o \in Processes
  BY ChainTyped DEF stores, ticks
<1>2. /\ OnlyOccurrences' /\ CreationsOwned'
      /\ \A q \in Processes : Succeeds(q)' => SomethingExists'
      /\ \A q \in Processes : q # o => creator'[q] = creator[q]
  BY <1>1, CreatorReplaced
<1>3. AnswersMeanIt'
  <2>1. \A d \in Daemons : creator'[d] = creator[d]
    BY <1>2, SchedulerAssumption, ChainTyped
  <2>2. QED
    BY <1>1, <1>2, <2>1, HandlersWait
<1>4. op'[o] = y
  BY ChainTyped
<1>5. StatusOfVersion' /\ NothingYet'
  BY DEF ChainStands, StatusOfVersion, NothingYet
<1>6. Begun'
  BY <1>1, <1>4 DEF Begun, SomethingExists, Exists
<1>7. Carried'
  <2>1. \A d \in Daemons : WillChain(d) => WillChain(d)' /\ current'[d] = current[d]
    BY <1>1 DEF WillChain
  <2>2. FilesGrow
    BY <1>1 DEF FilesGrow, Exists
  <2>3. QED
    BY <1>1, <2>1, <2>2, CarriedKept DEF Exists
<1>8. QED
  BY <1>2, <1>3, <1>5, <1>6, <1>7 DEF ChainStands

LEMMA ScheduleNextStands ==
    ASSUME RInv, RInv', ChainStands, [SchedulerStep]_schedulerVars, ~disturbed',
           NEW o \in Operators, ScheduleNext(o)
    PROVE  ChainStands'
<1>1. PICK k : k = NextOccurrence(op[o].asOf)
  OBVIOUS
<1>2. op[o] \in Asks /\ op[o].place = "schedule" /\ UNCHANGED <<routine, job>>
  BY ChainTyped DEF ScheduleNext
<1>3. k \in Occurrences /\ k \in Schedules
  BY <1>1, <1>2, ChainTyped DEF NextOccurrence, Occurrences, Asks
<1>4. routine.version # 1
  BY <1>2 DEF ChainStands, NothingYet
<1>5. CASE Live(k) /\ Answer(o, "scheduled") /\ UNCHANGED schedulerVars
  <2>1. SomethingExists
    BY <1>3, <1>5 DEF Live, SomethingExists, Exists
  <2>2. op' = [op EXCEPT ![o] = After(op[o], "scheduled")]
    BY <1>2, <1>5, ChainTyped DEF Answer
  <2>3. QED
    BY <1>2, <1>4, <1>5, <2>1, <2>2, QuietOperatorStands
<1>6. CASE \E c : Submit(o, c, RequestFor(k, op[o].expected)) /\ op' = [op EXCEPT ![o].place = "create"]
  <2>1. PICK c : Submit(o, c, RequestFor(k, op[o].expected)) /\ op' = [op EXCEPT ![o].place = "create"]
    BY <1>6
  <2>2. PICK x : x = [place |-> "claim", id |-> c, request |-> RequestFor(k, op[o].expected), verdict |-> "none"]
    OBVIOUS
  <2>3. x.place = "claim" /\ IsOccurrence(x.request.schedule, x.request.def)
    BY <1>3, <2>2 DEF RequestFor, IsOccurrence
  <2>4. creator' = [creator EXCEPT ![o] = x] /\ UNCHANGED <<stores, ticks>>
    BY <2>1, <2>2 DEF Submit
  <2>5. PICK y : y = [op[o] EXCEPT !.place = "create"]
    OBVIOUS
  <2>6. op' = [op EXCEPT ![o] = y] /\ y.place = "create"
    BY <1>2, <2>1, <2>5, ChainTyped DEF Asks
  <2>7. QED
    BY <1>2, <1>4, <2>3, <2>4, <2>6, OperatorCreates
<1>7. CASE Disturbed
  BY <1>7 DEF Disturbed
<1>8. QED
  BY <1>1, <1>5, <1>6, <1>7 DEF ScheduleNext

LEMMA CreatedStands ==
    ASSUME RInv, RInv', ChainStands, [SchedulerStep]_schedulerVars, ~disturbed',
           NEW o \in Operators, Created(o)
    PROVE  ChainStands'
<1>1. /\ creator[o].place = "idle" /\ creator[o].verdict = "succeeded"
      /\ creator' = [creator EXCEPT ![o] = Idle] /\ UNCHANGED <<stores, ticks, routine, job>>
      /\ op' = [op EXCEPT ![o] = After(@, "scheduled")] /\ op[o].place = "create"
  BY DEF Created, Told, Disturbed, Answer
<1>2. op' = [op EXCEPT ![o] = After(op[o], "scheduled")]
  BY <1>1, ChainTyped
<1>3. routine.version # 1
  BY <1>1 DEF ChainStands, NothingYet
<1>4. SomethingExists
  BY <1>1, ChainTyped DEF ChainStands, AnswersMeanIt, Succeeds
<1>5. QED
  BY <1>1, <1>2, <1>3, <1>4, OperatorCreates

-----------------------------------------------------------------------------
(* The handler of an occurrence.                                            *)

\* A daemon's handler moves and nothing else but its own tick does.
LEMMA HandlerAsideStands ==
    ASSUME RInv, RInv', ChainStands, [SchedulerStep]_schedulerVars,
           UNCHANGED <<schedule, current, creator, creation, routine, op>>, NEW d \in Daemons,
           \A e \in Daemons : e # d => phase'[e] = phase[e] /\ job'[e] = job[e],
           job'[d].place # "chained",
           routine'.version <= 2 /\ WillChain(d) =>
              WillChain(d)' \/ schedule[current[d] + 1].state # "none"
    PROVE  ChainStands'
<1>1. SameFiles
  BY DEF SameFiles, FilesGrow, Exists
<1>2. \A e \in Daemons : phase'[e] = "handling" /\ job'[e].place = "chained" =>
         phase[e] = "handling" /\ job[e].place = "chained"
  OBVIOUS
<1>3. routine'.version <= 2 =>
         \A e \in Daemons : WillChain(e) =>
            \/ WillChain(e)' /\ current'[e] = current[e]
            \/ schedule'[current[e] + 1].state # "none"
  <2> SUFFICES ASSUME routine'.version <= 2, NEW e \in Daemons, WillChain(e)
               PROVE  WillChain(e)' \/ schedule[current[e] + 1].state # "none"
    OBVIOUS
  <2>1. CASE e = d
    BY <2>1
  <2>2. CASE e # d
    BY <2>2 DEF WillChain
  <2>3. QED
    BY <2>1, <2>2
<1>4. QED
  BY <1>1, <1>2, <1>3, AsideStands

LEMMA HandlerStartsStands ==
    ASSUME RInv, RInv', ChainStands, [SchedulerStep]_schedulerVars, NEW d \in Daemons, HandlerStarts(d)
    PROVE  ChainStands'
<1>1. phase[d] = "dispatch" /\ Payload(d) = "routine.plan"
  BY HeldOccurrence DEF HandlerStarts, DispatchClaims, Holding
<1>2. /\ phase' = [phase EXCEPT ![d] = "handling"]
      /\ job' = [job EXCEPT ![d] = [place |-> "read", result |-> "succeeded"]]
      /\ UNCHANGED <<schedule, current, creator, creation, routine, op>>
  BY <1>1 DEF HandlerStarts, DispatchClaims
<1>3. phase'[d] = "handling" /\ job'[d].place = "read"
  BY <1>2, ChainTyped
<1>4. \A e \in Daemons : e # d => phase'[e] = phase[e] /\ job'[e] = job[e]
  BY <1>2, ChainTyped
<1>5. WillChain(d)'
  BY <1>3 DEF WillChain
<1>6. QED
  BY <1>2, <1>3, <1>4, <1>5, HandlerAsideStands

\* While nothing went wrong and only one activation took effect, the Routine
\* that an occurrence's handler reads is active.
LEMMA ReadRoutineStands ==
    ASSUME RInv, RInv', ChainStands, [SchedulerStep]_schedulerVars, NEW d \in Daemons, ReadRoutine(d)
    PROVE  ChainStands'
<1>1. /\ phase[d] = "handling"
      /\ job' = [job EXCEPT ![d].place = IF routine.status = "active" THEN "plan" ELSE "end"]
      /\ UNCHANGED <<schedule, phase, current, creator, creation, routine, op>>
  BY DEF ReadRoutine, At, Step, schedulerVars, stores, ticks
<1>2. job'[d].place = IF routine.status = "active" THEN "plan" ELSE "end"
  BY <1>1, ChainTyped DEF Jobs
<1>3. \A e \in Daemons : e # d => phase'[e] = phase[e] /\ job'[e] = job[e]
  BY <1>1, ChainTyped
<1>4. Exists(current[d]) /\ current[d] \in Schedules
  BY <1>1, HeldOccurrence DEF Holding, Exists
<1>5. routine.version # 1
  BY <1>4 DEF ChainStands, NothingYet
<1>6. routine.version \in Nat /\ routine.version >= 1
  BY ChainTyped
<1>7. routine'.version <= 2 => routine.status = "active"
  BY <1>1, <1>5, <1>6 DEF ChainStands, StatusOfVersion
<1>8. routine'.version <= 2 => WillChain(d)'
  BY <1>1, <1>2, <1>7 DEF WillChain
<1>9. QED
  BY <1>1, <1>2, <1>3, <1>8, HandlerAsideStands

LEMMA PlanStands ==
    ASSUME RInv, RInv', ChainStands, [SchedulerStep]_schedulerVars,
           NEW d \in Daemons, NEW r, Plan(d, r)
    PROVE  ChainStands'
<1>1. /\ phase[d] = "handling"
      /\ job' = [job EXCEPT ![d] = [place |-> "chain", result |-> r]]
      /\ UNCHANGED <<schedule, phase, current, creator, creation, routine, op>>
  BY DEF Plan, At, schedulerVars, stores, ticks
<1>2. job'[d].place = "chain" /\ \A e \in Daemons : e # d => phase'[e] = phase[e] /\ job'[e] = job[e]
  BY <1>1, ChainTyped
<1>3. WillChain(d)'
  BY <1>1, <1>2 DEF WillChain
<1>4. QED
  BY <1>1, <1>2, <1>3, HandlerAsideStands

\* The handler submits the creation of the next occurrence, or has the answer.
LEMMA HandlerCreates ==
    ASSUME RInv, RInv', ChainStands, [SchedulerStep]_schedulerVars,
           UNCHANGED <<stores, ticks, routine, op>>,
           NEW d \in Daemons, phase[d] = "handling", NEW x, creator' = [creator EXCEPT ![d] = x],
           \/ x = Idle
           \/ x.place = "claim" /\ IsOccurrence(x.request.schedule, x.request.def),
           \A e \in Daemons : e # d => job'[e] = job[e],
           \/ x = Idle /\ job'[d].place = "end" /\ Exists(current[d] + 1)
           \/ x # Idle /\ job'[d].place = "chained" /\ x.request.schedule = current[d] + 1
    PROVE  ChainStands'
<1>1. UNCHANGED <<schedule, creation, phase, current>> /\ d \in Processes
  BY ChainTyped DEF stores, ticks
<1>2. /\ OnlyOccurrences' /\ CreationsOwned'
      /\ \A q \in Processes : Succeeds(q)' => SomethingExists'
      /\ creator'[d] = x /\ \A q \in Processes : q # d => creator'[q] = creator[q]
  BY <1>1, CreatorReplaced
<1>3. /\ x = Idle => x.place = "idle"
      /\ x # Idle => x.place = "claim"
  BY DEF Idle
<1>4. AnswersMeanIt'
  <2>1. ASSUME NEW e \in Daemons, e # d, phase'[e] = "handling", job'[e].place = "chained"
        PROVE  /\ creator'[e].place # "idle" => creator'[e].request.schedule = current'[e] + 1
               /\ Succeeds(e)' => schedule'[current'[e] + 1].state # "none"
    BY <1>1, <1>2, <2>1, ChainTyped DEF ChainStands, AnswersMeanIt, Succeeds, Exists
  <2>2. job'[d].place = "chained" =>
           /\ creator'[d].place # "idle" => creator'[d].request.schedule = current'[d] + 1
           /\ Succeeds(d)' => schedule'[current'[d] + 1].state # "none"
    BY <1>1, <1>2, <1>3 DEF Succeeds
  <2>3. QED
    BY <1>2, <2>1, <2>2 DEF AnswersMeanIt, Exists
<1>5. FilesGrow
  BY <1>1 DEF FilesGrow, Exists
<1>6. routine.version # 1
  <2>1. Exists(current[d]) /\ current[d] \in Schedules
    BY HeldOccurrence DEF Holding, Exists
  <2>2. QED
    BY <2>1 DEF ChainStands, NothingYet
<1>7. StatusOfVersion' /\ NothingYet' /\ Begun'
  BY <1>5, <1>6, RoutineSame
<1>8. Carried'
  <2>1. ASSUME NEW e \in Daemons, WillChain(e)
        PROVE  \/ WillChain(e)' /\ current'[e] = current[e]
               \/ schedule'[current[e] + 1].state # "none"
    <3>1. CASE e = d
      BY <1>1, <3>1 DEF WillChain, Exists
    <3>2. CASE e # d
      BY <1>1, <3>2, <2>1 DEF WillChain
    <3>3. QED
      BY <3>1, <3>2
  <2>2. QED
    BY <1>1, <1>5, <2>1, CarriedKept DEF Exists
<1>9. QED
  BY <1>2, <1>4, <1>7, <1>8 DEF ChainStands

LEMMA NextOccurrenceStands ==
    ASSUME RInv, RInv', ChainStands, [SchedulerStep]_schedulerVars, ~disturbed', NEW d \in Daemons, Chain(d)
    PROVE  ChainStands'
<1>1. PICK k : k = NextOccurrence(Target(d))
  OBVIOUS
<1>2. phase[d] = "handling" /\ job[d].place = "chain" /\ UNCHANGED <<routine, op>>
  BY DEF Chain, At
<1>3. k = current[d] + 1 /\ k \in Occurrences /\ k \in Schedules
  BY <1>1, <1>2, HeldOccurrence, ChainTyped DEF NextOccurrence, Holding
<1>4. \A e \in Daemons : e # d => job'[e] = job[e]
  BY ChainTyped DEF Chain, Step
<1>5. CASE schedule[k] # Absent /\ Step(d, "end") /\ UNCHANGED schedulerVars
  <2>1. schedule[k].state # "none"
    BY <1>3, <1>5 DEF ChainStands, OnlyOccurrences, Exists
  <2>2. job'[d].place = "end"
    BY <1>5, ChainTyped DEF Step, Jobs
  <2>3. UNCHANGED <<schedule, phase, current, creator, creation>>
    BY <1>5 DEF schedulerVars, stores, ticks
  <2>4. QED
    BY <1>2, <1>3, <1>4, <2>1, <2>2, <2>3, HandlerAsideStands
<1>6. CASE Submit(d, k, RequestFor(k, 0)) /\ Step(d, "chained")
  <2>1. PICK x : x = [place |-> "claim", id |-> k, request |-> RequestFor(k, 0), verdict |-> "none"]
    OBVIOUS
  <2>2. x.place = "claim" /\ IsOccurrence(x.request.schedule, x.request.def) /\ x.request.schedule = current[d] + 1
    BY <1>3, <2>1 DEF RequestFor, IsOccurrence
  <2>3. x # Idle
    BY <2>2 DEF Idle
  <2>4. creator' = [creator EXCEPT ![d] = x] /\ UNCHANGED <<stores, ticks>>
    BY <1>6, <2>1 DEF Submit
  <2>5. job'[d].place = "chained"
    BY <1>6, ChainTyped DEF Step, Jobs
  <2>6. QED
    BY <1>2, <1>4, <2>2, <2>3, <2>4, <2>5, HandlerCreates
<1>7. QED
  BY <1>1, <1>5, <1>6 DEF Chain

LEMMA ChainedStands ==
    ASSUME RInv, RInv', ChainStands, [SchedulerStep]_schedulerVars, ~disturbed', NEW d \in Daemons, Chained(d)
    PROVE  ChainStands'
<1>1. /\ phase[d] = "handling" /\ job[d].place = "chained" /\ UNCHANGED <<stores, ticks, routine, op>>
      /\ creator[d].place = "idle" /\ creator[d] # Idle
      /\ creator' = [creator EXCEPT ![d] = Idle]
      /\ Step(d, "end")
  BY DEF Chained, At, Told
<1>2. creator[d].verdict # "failed"
  <2>1. disturbed' = (disturbed \/ creator[d].verdict = "failed")
    BY DEF Chained
  <2>2. QED
    BY <2>1
<1>3. creator[d].verdict # "none"
  <2>1. creator[d].id = NoRequest /\ creator[d].request = NoRequest
    BY <1>1, ChainTyped DEF ChainStands, CreationsOwned
  <2>2. creator[d] \in Creators
    BY ChainTyped
  <2>3. QED
    BY <1>1, <2>1, <2>2 DEF Idle, Creators
<1>4. Succeeds(d)
  BY <1>1, <1>2, <1>3, ChainTyped DEF Succeeds, Creators
<1>5. Exists(current[d] + 1)
  BY <1>1, <1>4 DEF ChainStands, AnswersMeanIt
<1>6. job'[d].place = "end" /\ \A e \in Daemons : e # d => job'[e] = job[e]
  BY <1>1, ChainTyped DEF Step, Jobs
<1>7. QED
  BY <1>1, <1>5, <1>6, HandlerCreates

LEMMA HandlerEndsStands ==
    ASSUME RInv, RInv', ChainStands, [SchedulerStep]_schedulerVars, ~disturbed', NEW d \in Daemons, HandlerEnds(d)
    PROVE  ChainStands'
<1>1. PICK r \in Results : HandlerReturns(d, r)
  BY DEF HandlerEnds, Fault
<1>2. /\ phase[d] = "handling" /\ job[d].place = "end"
      /\ job' = [job EXCEPT ![d] = NoJob]
      /\ phase' = [phase EXCEPT ![d] = "finish"]
      /\ UNCHANGED <<schedule, current, creator, creation, routine, op>>
  BY <1>1 DEF HandlerEnds, At, HandlerReturns, Answered
<1>3. job'[d].place = "none" /\ \A e \in Daemons : e # d => phase'[e] = phase[e] /\ job'[e] = job[e]
  BY <1>2, ChainTyped DEF NoJob
<1>4. ~WillChain(d)
  BY <1>2 DEF WillChain
<1>5. QED
  BY <1>2, <1>3, <1>4, HandlerAsideStands

-----------------------------------------------------------------------------
\* A disturbance is never forgotten.
LEMMA DisturbanceStays == ASSUME RInv, [Next]_vars, disturbed PROVE disturbed'
<1>1. ASSUME NEW o \in Operators, Operates(o) \/ ActsAsClient(o) PROVE disturbed'
  BY <1>1 DEF Operates, ActsAsClient, Ask, Transition, TransitionFails, Retry, Reconcile, Inspect,
     ScheduleNext, ScheduleOther, Created, Undisturbed, Disturbed, Fault
<1>2. ASSUME NEW d \in Daemons, Handles(d) PROVE disturbed'
  BY <1>2 DEF Handles, HandlerStarts, Answers, ReadRoutine, ReadRoutineFails, Plan, Chain, Chained,
     HandlerEnds, Undisturbed, Disturbed, Fault
<1>3. CASE UNCHANGED vars \/ Works \/ Faults \/ \E p \in Processes : Crash(p)
  BY <1>3 DEF vars, routineVars, Works, Faults, Crash, Fault
<1>4. QED
  BY <1>1, <1>2, <1>3, RoutineAssumption DEF Next

\* Whatever step does not disturb anybody leaves the chain standing.
LEMMA HandlesStands ==
    ASSUME RInv, RInv', ChainStands, [SchedulerStep]_schedulerVars, ~disturbed', NEW d \in Daemons, Handles(d)
    PROVE  ChainStands'
  BY HandlerStartsStands, ReadRoutineStands, PlanStands, NextOccurrenceStands, ChainedStands, HandlerEndsStands
     DEF Handles, Answers, Disturbed, ReadRoutineFails, Fault

LEMMA WorksStands ==
    ASSUME RInv, RInv', ChainStands, [SchedulerStep]_schedulerVars, Works
    PROVE  ChainStands'
<1>1. UNCHANGED routineVars /\ UNCHANGED <<routine, op, job>>
  BY DEF Works, routineVars
<1>2. CASE Advance
  BY <1>1, <1>2, TicksStand DEF Advance, ticks
<1>3. ASSUME NEW d \in Daemons, Start(d) \/ Tick(d) \/ Skip(d)
      PROVE  ChainStands'
  <2>1. UNCHANGED <<stores, current, creator>>
    BY <1>3 DEF Start, Tick, Skip
  <2>2. \A e \in Daemons : phase'[e] = phase[e] \/ {phase[e], phase'[e]} \subseteq {"off", "ready"}
    BY <1>3, ChainTyped DEF Start, Tick, Skip
  <2>3. QED
    BY <1>1, <2>1, <2>2, TicksStand
<1>4. ASSUME NEW d \in Daemons, NEW s \in Schedules, ClaimUnwritten(d, s)
      PROVE  ChainStands'
  <2>1. phase[d] = "ready" /\ current[d] = NoRequest
    BY <1>4 DEF ClaimUnwritten, NextDue, RInv, IInv, HeldAlone, Holding
  <2>2. UNCHANGED <<schedule, command, creation, creator>>
    BY <1>4 DEF ClaimUnwritten, ClaimFails
  <2>3. /\ phase' = [phase EXCEPT ![d] = "ready"]
        /\ current' = [current EXCEPT ![d] = NoRequest]
    BY <1>4 DEF ClaimUnwritten, ClaimFails, Abort
  <2>4. UNCHANGED <<stores, current, creator, phase>>
    BY <2>1, <2>2, <2>3, ChainTyped DEF stores
  <2>5. QED
    BY <1>1, <2>4, TicksStand
<1>5. QED
  BY <1>1, <1>2, <1>3, <1>4, ClaimStands, FinishStands, ClaimCreationStands, PlanCreationStands,
     StoreScheduleStands, FinishCreationStands DEF Works, TickWork, CreationWork

LEMMA OperatesStands ==
    ASSUME RInv, RInv', ChainStands, [SchedulerStep]_schedulerVars, ~disturbed', NEW o \in Operators, Operates(o)
    PROVE  ChainStands'
  BY AskStands, TransitionStands, RetryOrInspectStands, ScheduleNextStands, CreatedStands
     DEF Operates, TransitionFails, Fault

LEMMA NextStands ==
    ASSUME RInv, RInv', ChainStands, [Next]_vars, ~disturbed'
    PROVE  ChainStands'
<1>1. [SchedulerStep]_schedulerVars
  BY StepsOK DEF StepOK
<1>2. CASE UNCHANGED vars
  <2>1. UNCHANGED <<stores, current, creator, routine, op, job, phase>>
    BY <1>2 DEF vars, schedulerVars, routineVars, ticks
  <2>2. QED
    BY <1>1, <2>1, TicksStand
<1>3. ASSUME NEW o \in Operators, ActsAsClient(o) PROVE ChainStands'
  BY <1>1, <1>3, CreatedStands DEF ActsAsClient, ScheduleOther, Disturbed
<1>4. Clients \subseteq Operators
  BY RoutineAssumption
<1>5. QED
  BY <1>1, <1>2, <1>3, <1>4, WorksStands, HandlesStands, OperatesStands DEF Next, Faults, Fault, Crash

LEMMA NextCInv == CInv /\ [Next]_vars => CInv'
<1> SUFFICES ASSUME CInv, [Next]_vars PROVE CInv'
  OBVIOUS
<1>1. RInv'
  BY NextRInv DEF CInv
<1>2. disturbed => disturbed'
  BY DisturbanceStays DEF CInv
<1>3. QED
  BY <1>1, <1>2, NextStands DEF CInv

LEMMA InitCInv == RoutineInit => CInv
<1> SUFFICES ASSUME RoutineInit PROVE ChainStands
  BY InitRInv DEF CInv
<1>1. /\ \A s \in Schedules : schedule[s] = Absent /\ ~Exists(s)
      /\ \A p \in Processes : creator[p] = Idle
      /\ \A c \in CreateIds : creation[c].state = "unclaimed"
      /\ \A d \in Daemons : phase[d] = "ready"
      /\ \A o \in Operators : op[o].place = "idle" /\ ~op[o].committed
      /\ routine.version = 1 /\ routine.status = "inactive"
  BY DEF RoutineInit, SchedulerInit, Exists, Absent, Unclaimed, NoOp
<1>2. \A p \in Processes : /\ creator[p].place = "idle" /\ creator[p].id = NoRequest
                          /\ creator[p].request = NoRequest /\ creator[p].verdict = "none"
  BY <1>1 DEF Idle
<1>3. StatusOfVersion /\ OnlyOccurrences /\ NothingYet /\ Begun
  BY <1>1, <1>2 DEF StatusOfVersion, OnlyOccurrences, NothingYet, Begun
<1>4. CreationsOwned
  BY <1>1, <1>2 DEF CreationsOwned, Creating
<1>5. AnswersMeanIt
  BY <1>1, <1>2 DEF AnswersMeanIt, Succeeds
<1>6. Carried
  BY <1>1, RoutineAssumption DEF Carried
<1>7. QED
  BY <1>3, <1>4, <1>5, <1>6 DEF ChainStands

-----------------------------------------------------------------------------
\* The order of the numbers, as the relation WFMin takes.
Smaller == {p \in Nat \X Nat : p[1] < p[2]}

LEMMA LeastNumber ==
    ASSUME NEW T \in SUBSET Nat, T # {}
    PROVE  \E n \in T : \A m \in T : n <= m
<1>1. IsWellFoundedOn(Smaller, Nat)
  BY NatLessThanWellFounded, Zenon DEF OpToRel, Smaller
<1>2. T \subseteq Nat
  OBVIOUS
<1>3. PICK n \in T : \A m \in T : ~(<<m, n>> \in Smaller)
  BY <1>1, <1>2, WFMin
<1>4. ASSUME NEW m \in T PROVE n <= m
  <2>1. m \in Nat /\ n \in Nat /\ <<m, n>> \in Nat \X Nat
    BY <1>2
  <2>2. ~(<<m, n>>[1] < <<m, n>>[2])
    BY <1>3, <2>1 DEF Smaller
  <2>3. QED
    BY <2>1, <2>2
<1>5. QED
  BY <1>4

\* Of the occurrences that exist, one is the last.
LEMMA LastOccurrence ==
    ASSUME SomethingExists, MaxTime \in Nat
    PROVE  \E k \in Occurrences : Exists(k) /\ ~Passed(k)
<1> DEFINE Before == {n \in Nat : \E k \in Occurrences : Exists(k) /\ n = MaxTime + 1 - k}
<1>1. PICK k \in Occurrences : Exists(k)
  BY DEF SomethingExists
<1>2. k \in Nat /\ MaxTime + 1 - k \in Nat
  BY DEF Occurrences
<1>3. Before \subseteq Nat /\ MaxTime + 1 - k \in Before
  BY <1>1, <1>2
<1>4. PICK n \in Before : \A m \in Before : n <= m
  <2> HIDE DEF Before
  <2> QED BY <1>3, LeastNumber
<1>5. PICK l \in Occurrences : Exists(l) /\ n = MaxTime + 1 - l
  BY <1>4
<1>6. ASSUME Passed(l) PROVE FALSE
  <2>1. l + 1 \in Occurrences /\ Exists(l + 1) /\ MaxTime + 1 - (l + 1) \in Nat /\ l \in Nat
    BY <1>6 DEF Passed, Occurrences
  <2>2. MaxTime + 1 - (l + 1) \in Before
    BY <2>1
  <2>3. n <= MaxTime + 1 - (l + 1)
    BY <1>4, <2>2
  <2>4. QED
    BY <1>5, <2>1, <2>3
<1>7. QED
  BY <1>5, <1>6

\* The chain of a Routine that was activated once does not stop, whatever
\* number of daemons share it and however many of its Plannings fail: at
\* rest, if nothing else went wrong, one occurrence is pending.
THEOREM FirstChainStays == Spec => []FirstChainGoesOn
<1>1. ASSUME CInv PROVE FirstChainGoesOn
  <2> SUFFICES ASSUME AtRest, ~disturbed, routine = [status |-> "active", version |-> 2]
               PROVE  \E k \in Occurrences : schedule[k].state = "pending"
    BY DEF FirstChainGoesOn
  <2>1. ChainStands /\ MaxTime \in Nat /\ routine.version = 2
    BY <1>1, ChainTyped DEF CInv
  <2>2. SomethingExists
    BY <2>1 DEF ChainStands, Begun, AtRest, Free
  <2>3. PICK k \in Occurrences : Exists(k) /\ ~Passed(k)
    BY <2>1, <2>2, LastOccurrence
  <2>4. \A d \in Daemons : ~WillChain(d)
    BY DEF AtRest, WillChain
  <2>5. QED
    BY <2>1, <2>3, <2>4 DEF ChainStands, Carried
<1>2. QED
  BY <1>1, InitCInv, NextCInv, PTL DEF Spec
=============================================================================
