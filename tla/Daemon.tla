------------------------------- MODULE Daemon -------------------------------
(***************************************************************************)
(* workcairn-daemon: main.run, the HTTP handler, the runner of asynchronous*)
(* Commands and the scheduler loop, from the first request to the last     *)
(* process.                                                                *)
(*                                                                         *)
(* A client posts a Command.  The handler runs it within the request, or,  *)
(* asked to respond-async, hands it to a goroutine that takes one of a     *)
(* fixed number of slots and outlives the client.  A signal stops the      *)
(* scheduler, then the listener, then the runner, and the last two share   *)
(* one deadline.  The process may die at any step; the Command Ledger is   *)
(* what the next one finds.  A claim and an outcome are one write each     *)
(* here, as CommandLedger shows.                                           *)
(***************************************************************************)
EXTENDS Naturals, FiniteSets

CONSTANTS Requests,   \* HTTP requests, each sent once
          Commands,   \* Command IDs a client may send, as often as it likes
          Operation,  \* the operation of each of them
          Due,        \* the Command a due Schedule dispatches
          Capacity,   \* maxConcurrentAsyncCommands
          MaxLives    \* bound: processes

Operations == {"interaction", "recovery", "operator"}

ASSUME OperationAssumption == Operation \in [Commands -> Operations]
ASSUME CapacityAssumption == Capacity \in Nat \ {0}
ASSUME DueAssumption == Due \notin Commands
ASSUME LivesAssumption == MaxLives \in Nat \ {0}

VARIABLES
    main,       \* where run() is
    exit,       \* how the last process ended
    expired,    \* the deadline of the shutdown has passed
    missed,     \* a wait of the shutdown ended at the deadline
    accepting,  \* asyncCommandRunner.accepting
    canceled,   \* the runner's context
    halted,     \* the scheduler's context
    group,      \* the goroutines the WaitGroup counts
    slots,      \* those that hold a slot
    request,    \* where the handler of each request is, and its answer
    gone,       \* the clients that hung up
    job,        \* what Execute is doing for each request, and for the tick
    ledger,     \* the record of each Command
    lives       \* processes so far

daemonVars == <<main, exit, expired, missed, accepting, canceled, halted>>
runnerVars == <<group, slots>>
vars == <<daemonVars, runnerVars, request, gone, job, ledger, lives>>

Tick == "tick"
Runs == Requests \cup {Tick}

ASSUME RequestsAssumption == IsFiniteSet(Requests) /\ Tick \notin Requests

AllCommands == Commands \cup {Due}
Idle == [place |-> "none", command |-> Due, outcome |-> "none"]

Places == {"none", "begin", "working", "finishing", "over", "freed"}
Outcomes == {"none", "done", "replayed", "in_progress", "interrupted", "canceled", "unclaimed",
             "unrecorded"}
Answers == {"none", "denied", "invalid", "full", "stopping", "accepted", "result", "failed",
            "in_progress", "canceled", "ledger_partial", "cut"}

TypeOK ==
    /\ main \in {"serving", "stopping", "closing", "draining", "leaving", "failing", "exited"}
    /\ exit \in {"none", "graceful", "deadline", "listener", "crash"}
    /\ {expired, missed, accepting, canceled, halted} \subseteq BOOLEAN
    /\ slots \subseteq group /\ group \subseteq Requests
    /\ request \in [Requests -> [place : {"away", "handling", "accepting", "waiting", "answered"},
                                 command : AllCommands, answer : Answers]]
    /\ gone \subseteq Requests
    /\ job \in [Runs -> [place : Places \cup {"cut"}, command : AllCommands, outcome : Outcomes]]
    /\ ledger \in [AllCommands -> {"absent", "running", "recorded"}]
    /\ lives \in 1 .. MaxLives

-----------------------------------------------------------------------------
(* The HTTP edge.                                                          *)

publicBetaCommandAllowed(o) == o # "operator"
supportsAsyncOperation(o) == o # "recovery" /\ publicBetaCommandAllowed(o)

Alive == main # "exited"
Listening == main \in {"serving", "stopping"}

Goes(r, place, a) ==
    request' = [request EXCEPT ![r] = [place |-> place, command |-> @.command, answer |-> a]]
Answer(r, a) == Goes(r, "answered", a)
Enter(r) == job' = [job EXCEPT ![r] = [place |-> "begin", command |-> request[r].command,
                                       outcome |-> "none"]]

\* A connection is served while the listener is open.
Post(r, c) ==
    /\ Listening /\ request[r].place = "away"
    /\ request' = [request EXCEPT ![r] = [place |-> "handling", command |-> c, answer |-> "none"]]
    /\ UNCHANGED <<daemonVars, runnerVars, gone, job, ledger, lives>>

\* What Handler.execute refuses before any of it runs: a malformed or
\* unapproved Command, an operation off the list, respond-async for one that
\* does not support it.
Refuse(r) ==
    /\ request[r].place = "handling"
    /\ \/ Answer(r, "invalid")
       \/ ~supportsAsyncOperation(Operation[request[r].command]) /\ Answer(r, "denied")
    /\ UNCHANGED <<daemonVars, runnerVars, gone, job, ledger, lives>>

\* The Command runs within the request, under the request's context.
Synchronous(r) ==
    /\ request[r].place = "handling"
    /\ publicBetaCommandAllowed(Operation[request[r].command])
    /\ Goes(r, "waiting", "none")
    /\ Enter(r)
    /\ UNCHANGED <<daemonVars, runnerVars, gone, ledger, lives>>

\* accept validates the Command before it takes the runner's lock.
Prefer(r) ==
    /\ request[r].place = "handling"
    /\ supportsAsyncOperation(Operation[request[r].command])
    /\ Goes(r, "accepting", "none")
    /\ UNCHANGED <<daemonVars, runnerVars, gone, job, ledger, lives>>

\* The slot, the WaitGroup and the goroutine, all under the lock.
Accept(r) ==
    /\ accepting /\ Cardinality(slots) < Capacity
    /\ slots' = slots \cup {r} /\ group' = group \cup {r}
    /\ Enter(r)
    /\ Answer(r, "accepted")

Reject(r) ==
    /\ \/ ~accepting /\ Answer(r, "stopping")
       \/ accepting /\ Cardinality(slots) >= Capacity /\ Answer(r, "full")
    /\ UNCHANGED <<runnerVars, job>>

Submit(r) ==
    /\ request[r].place = "accepting"
    /\ Accept(r) \/ Reject(r)
    /\ UNCHANGED <<daemonVars, gone, ledger, lives>>

\* The client hangs up, which cancels the context of the request; before
\* Execute runs and after it nothing looks.
HangUp(r) ==
    /\ Alive /\ r \notin gone /\ (request[r].place = "waiting" \/ r \in group)
    /\ gone' = gone \cup {r}
    /\ UNCHANGED <<daemonVars, runnerVars, request, job, ledger, lives>>

-----------------------------------------------------------------------------
(* Execute: one run of a Command, for a request, a goroutine or the tick.  *)

Canceled(x) ==
    IF x = Tick THEN halted ELSE IF x \in group THEN canceled ELSE x \in gone

Step(x, place, outcome) ==
    job' = [job EXCEPT ![x] = [place |-> place, command |-> @.command, outcome |-> outcome]]

\* claimWorkspaceCommand and replayDurableCommand; whatever fails before the
\* claim leaves no record.
Begin(x) ==
    LET c == job[x].command
    IN /\ Alive /\ job[x].place = "begin"
       /\ \/ Canceled(x) /\ Step(x, "over", "interrupted") /\ UNCHANGED ledger
          \/ ~Canceled(x) /\ Step(x, "over", "unclaimed") /\ UNCHANGED ledger
          \/ /\ ~Canceled(x) /\ ledger[c] = "absent"
             /\ ledger' = [ledger EXCEPT ![c] = "running"]
             /\ Step(x, "working", "none")
          \/ ~Canceled(x) /\ ledger[c] = "running" /\ Step(x, "over", "in_progress") /\ UNCHANGED ledger
          \/ ~Canceled(x) /\ ledger[c] = "recorded" /\ Step(x, "over", "replayed") /\ UNCHANGED ledger
       /\ UNCHANGED <<daemonVars, runnerVars, request, gone, lives>>

\* The work, all of it or the part done when the context ended.
Work(x) ==
    /\ Alive /\ job[x].place = "working"
    /\ Step(x, "finishing", IF Canceled(x) THEN "canceled" ELSE "done")
    /\ UNCHANGED <<daemonVars, runnerVars, request, gone, ledger, lives>>

\* finishDurableCommandRecord writes with a context nothing cancels; when the
\* write fails the record stays running.
Finish(x) ==
    /\ Alive /\ job[x].place = "finishing"
    /\ \/ /\ ledger' = [ledger EXCEPT ![job[x].command] = "recorded"]
          /\ Step(x, "over", job[x].outcome)
       \/ Step(x, "over", "unrecorded") /\ UNCHANGED ledger
    /\ UNCHANGED <<daemonVars, runnerVars, request, gone, lives>>

\* A failure to record comes before a recorded failure, and that before the
\* error of the context.
mapCommandError(x) ==
    CASE job[x].outcome \in {"done", "replayed"} -> "result"
      [] job[x].outcome = "unrecorded" -> "ledger_partial"
      [] job[x].outcome = "in_progress" -> "in_progress"
      [] job[x].outcome = "interrupted" -> "canceled"
      [] OTHER -> "failed"

\* A synchronous request is answered with what Execute returned.
Return(r) ==
    /\ Alive /\ job[r].place = "over" /\ request[r].place = "waiting"
    /\ Answer(r, mapCommandError(r))
    /\ Step(r, "none", job[r].outcome)
    /\ UNCHANGED <<daemonVars, runnerVars, gone, ledger, lives>>

\* The goroutine's deferred calls: the slot first, then the WaitGroup.
Release(r) ==
    /\ Alive /\ r \in group /\ job[r].place = "over"
    /\ slots' = slots \ {r}
    /\ Step(r, "freed", job[r].outcome)
    /\ UNCHANGED <<daemonVars, group, request, gone, ledger, lives>>

Done(r) ==
    /\ Alive /\ job[r].place = "freed"
    /\ group' = group \ {r}
    /\ Step(r, "none", job[r].outcome)
    /\ UNCHANGED <<daemonVars, slots, request, gone, ledger, lives>>

-----------------------------------------------------------------------------
(* The scheduler loop.                                                     *)

\* A tick dispatches a due Schedule; one whose context is over claims none.
Dispatch ==
    /\ Alive /\ ~halted /\ job[Tick].place = "none"
    /\ Step(Tick, "begin", "none")
    /\ UNCHANGED <<daemonVars, runnerVars, request, gone, ledger, lives>>

EndTick ==
    /\ Alive /\ job[Tick].place = "over"
    /\ Step(Tick, "none", "none")
    /\ UNCHANGED <<daemonVars, runnerVars, request, gone, ledger, lives>>

-----------------------------------------------------------------------------
(* run() in the daemon's main.                                             *)

others == <<runnerVars, request, gone, job, ledger, lives>>

Signal ==
    /\ main = "serving"
    /\ main' = "stopping" /\ halted' = TRUE
    /\ UNCHANGED <<exit, expired, missed, accepting, canceled, others>>

\* SchedulerService.Stop waits for the loop, for as long as its tick takes.
StopScheduler ==
    /\ main = "stopping" /\ job[Tick].place = "none"
    /\ main' = "closing"
    /\ UNCHANGED <<exit, expired, missed, accepting, canceled, halted, others>>

Expire ==
    /\ main \in {"closing", "draining"} /\ ~expired
    /\ expired' = TRUE
    /\ UNCHANGED <<main, exit, missed, accepting, canceled, halted, others>>

\* Mutant: the server is shut down with a context that has no deadline.
CloseServerWaits ==
    /\ main = "closing"
    /\ \A r \in Requests : request[r].place \in {"away", "answered"}
    /\ main' = "draining" /\ accepting' = FALSE
    /\ UNCHANGED <<exit, expired, missed, canceled, halted, others>>

\* http.Server.Shutdown returns when no handler runs, or at the deadline; the
\* runner then stops accepting.
CloseServer ==
    /\ main = "closing"
    /\ \/ (\A r \in Requests : request[r].place \in {"away", "answered"}) /\ UNCHANGED missed
       \/ expired /\ missed' = TRUE
    /\ main' = "draining" /\ accepting' = FALSE
    /\ UNCHANGED <<exit, expired, canceled, halted, others>>

\* Mutant: the runner stops accepting and does not wait.
DrainAtOnce ==
    /\ main = "draining"
    /\ main' = "leaving"
    /\ UNCHANGED <<exit, expired, missed, accepting, canceled, halted, others>>

\* asyncCommandRunner.shutdown waits for its goroutines or for the deadline,
\* and cancels what is left.
Drain ==
    /\ main = "draining"
    /\ \/ group = {} /\ UNCHANGED missed
       \/ expired /\ missed' = TRUE
    /\ main' = "leaving" /\ canceled' = TRUE
    /\ UNCHANGED <<exit, expired, accepting, halted, others>>

\* The listener failed: run returns, and only its deferred Stop remains.
ListenerFails ==
    /\ main = "serving"
    /\ main' = "failing" /\ halted' = TRUE
    /\ UNCHANGED <<exit, expired, missed, accepting, canceled, others>>

\* The process ends, and with it every goroutine.
CutOff ==
    /\ main' = "exited"
    /\ job' = [x \in Runs |->
                 IF job[x].place = "none" THEN job[x]
                 ELSE [place |-> "cut", command |-> job[x].command, outcome |-> job[x].outcome]]
    /\ request' = [r \in Requests |->
                     IF request[r].place \in {"away", "answered"} THEN request[r]
                     ELSE [place |-> "answered", command |-> request[r].command, answer |-> "cut"]]
    /\ UNCHANGED <<expired, missed, accepting, canceled, halted, runnerVars, gone, ledger, lives>>

\* Shutdown joins the errors of both waits.
Leave ==
    /\ main = "leaving"
    /\ exit' = IF missed THEN "deadline" ELSE "graceful"
    /\ CutOff

LeaveFailed ==
    /\ main = "failing" /\ job[Tick].place = "none"
    /\ exit' = "listener"
    /\ CutOff

Crash ==
    /\ Alive
    /\ exit' = "crash"
    /\ CutOff

\* The next process starts with an empty runner and the same Ledger.
Restart ==
    /\ main = "exited" /\ lives < MaxLives
    /\ lives' = lives + 1
    /\ main' = "serving" /\ exit' = "none" /\ expired' = FALSE /\ missed' = FALSE
    /\ accepting' = TRUE /\ canceled' = FALSE /\ halted' = FALSE
    /\ slots' = {} /\ group' = {}
    /\ job' = [x \in Runs |-> Idle]
    /\ UNCHANGED <<request, gone, ledger>>

-----------------------------------------------------------------------------

Init ==
    /\ main = "serving" /\ exit = "none" /\ expired = FALSE /\ missed = FALSE
    /\ accepting = TRUE /\ canceled = FALSE /\ halted = FALSE
    /\ group = {} /\ slots = {}
    /\ request = [r \in Requests |-> [place |-> "away", command |-> Due, answer |-> "none"]]
    /\ gone = {}
    /\ job = [x \in Runs |-> Idle]
    /\ ledger = [c \in AllCommands |-> "absent"]
    /\ lives = 1

Handle(r) == Refuse(r) \/ Synchronous(r) \/ Prefer(r) \/ Submit(r) \/ Return(r)
Execute(x) == Begin(x) \/ Finish(x)
Goroutine(r) == Release(r) \/ Done(r)
Shutdown == StopScheduler \/ Expire \/ CloseServer \/ Drain \/ Leave

Next ==
    \/ \E r \in Requests : Handle(r) \/ HangUp(r) \/ Goroutine(r) \/ \E c \in Commands : Post(r, c)
    \/ \E x \in Runs : Execute(x) \/ Work(x)
    \/ Dispatch \/ EndTick
    \/ Signal \/ Shutdown \/ ListenerFails \/ LeaveFailed \/ Crash \/ Restart

Spec == Init /\ [][Next]_vars

(* The shutdown goes on, time passes, and a tick whose context is over ends: *)
(* every wait of Execute ends with its context.  Nothing says that the work  *)
(* of a request or of a goroutine ever ends.                                 *)
Fairness ==
    /\ WF_vars(Shutdown) /\ WF_vars(LeaveFailed) /\ WF_vars(EndTick)
    /\ WF_vars(Execute(Tick)) /\ WF_vars(halted /\ Work(Tick))

FairSpec == Spec /\ Fairness

-----------------------------------------------------------------------------
(* Properties                                                              *)

InProgress == {"begin", "working", "finishing"}

\* A daemon that exits without an error cut nothing off: no request it read,
\* no Command it accepted and no Schedule it dispatched was still at work when
\* the process ended (HTTPAPI.md, Lifecycle).  A Command may be accepted at the
\* very moment the shutdown begins, and the runner's lock and WaitGroup decide
\* whether the shutdown waits for it (async_command.go:58-76, 83-90).
GracefulCutsNoneOff ==
    exit = "graceful" => \A x \in Runs : job[x].place # "cut"

\* A Command that was answered 202 is canceled by nothing but a deadline that
\* passed: not by its client, who may hang up at once, and not by a shutdown
\* that still has time (ADR-0032, Bounded HTTP acceptance).
OnlyLateIsCanceled ==
    \A r \in Requests :
        request[r].answer = "accepted" /\ job[r].outcome \in {"interrupted", "canceled"} => missed

\* At no time do more than Capacity accepted Commands run, whatever the order
\* in which slots are taken, given back and refused (async_command.go:64-74).
BoundedWork ==
    Cardinality({r \in group : job[r].place \in InProgress}) <= Capacity

\* Once the scheduler is stopped no scheduled Command runs: the HTTP side is
\* drained with the scheduler quiet, so that nothing new is started behind the
\* back of a shutdown (main.go:230-234, scheduler_service.go:145-157).
SchedulerIsQuiet ==
    main \in {"closing", "draining", "leaving"} =>
        job[Tick].place \notin InProgress \cup {"over"}

\* A daemon that was told to stop does stop, even when a Command never comes
\* back: every wait has the deadline, but the one for the scheduler, which ends
\* because the tick's context is canceled first (main.go:230-238).
SignalEndsDaemon == main = "stopping" ~> main = "exited"

\* HTTPAPI.md:112 has the signal stop new requests.
\* The code does not keep it (README, Observations).
NothingNewAfterSignal ==
    [][\A r \in Requests : request[r].place = "away" /\ request'[r].place # "away" =>
          main = "serving"]_vars
=============================================================================
