---------------------------- MODULE DaemonProofs ----------------------------
(***************************************************************************)
(* Proofs about Daemon for any number of requests, Commands, slots and     *)
(* lives.                                                                  *)
(*                                                                         *)
(* Whatever Execute does, somebody waits for it: the handler of a request  *)
(* that is still open, the WaitGroup, or the scheduler loop.  The shutdown *)
(* waits for one after the other, and nothing opens again what it closed   *)
(* behind itself.  A shutdown that missed no deadline therefore leaves no  *)
(* run behind.                                                             *)
(***************************************************************************)
EXTENDS Daemon, FiniteSetTheorems, TLAPS

AtWork == {"begin", "working", "finishing", "over"}

\* A run of Execute has somebody who waits for it.
Awaited ==
    \A r \in Requests :
        /\ job[r].place \in AtWork => request[r].place = "waiting" \/ r \in group
        /\ job[r].place = "freed" => r \in group

\* A request is answered once, and what is answered 202 before it is in the
\* group or was there.
AnsweredOnce ==
    /\ \A r \in Requests : request[r].place # "answered" => request[r].answer = "none"
    /\ \A r \in group : request[r].place = "answered"

\* The slots are taken by the goroutines whose Command is not over yet, or
\* was a moment ago.
SlotsTaken ==
    /\ \A r \in group : job[r].place \in AtWork => r \in slots
    /\ \A r \in slots : job[r].place \in AtWork \cup {"cut"}
    /\ Cardinality(slots) <= Capacity

\* The shutdown goes one way.
Closed == \A r \in Requests : request[r].place \in {"away", "answered"}

OneWay ==
    /\ main \in {"stopping", "closing", "draining", "leaving", "failing"} => halted
    /\ main \in {"closing", "draining", "leaving"} => job[Tick].place = "none"
    /\ main \in {"draining", "leaving"} /\ ~missed => Closed
    /\ main = "leaving" /\ ~missed => group = {}
    /\ canceled => main \in {"leaving", "exited"}
    /\ main = "exited" => Closed /\ \A x \in Runs : job[x].place \in {"none", "cut"}
    /\ main # "exited" => exit = "none" /\ \A x \in Runs : job[x].place # "cut"

IInv ==
    /\ TypeOK
    /\ Awaited
    /\ AnsweredOnce
    /\ SlotsTaken
    /\ OneWay
    /\ OnlyLateIsCanceled
    /\ GracefulCutsNoneOff

-----------------------------------------------------------------------------
LEMMA InitHolds == Init => IInv
<1> SUFFICES ASSUME Init PROVE IInv
  OBVIOUS
<1> USE DEF Init, Idle
<1>1. TypeOK
  <2>1. \A x \in Runs : job[x] \in [place : Places \cup {"cut"}, command : AllCommands, outcome : Outcomes]
    BY DEF Places, Outcomes, AllCommands
  <2>2. \A r \in Requests : request[r] \in
           [place : {"away", "handling", "accepting", "waiting", "answered"},
            command : AllCommands, answer : Answers]
    BY DEF Answers, AllCommands
  <2>3. lives \in 1 .. MaxLives
    BY LivesAssumption
  <2>4. QED
    BY <2>1, <2>2, <2>3 DEF TypeOK
<1>2. Awaited /\ AnsweredOnce /\ OneWay
  BY DEF Awaited, AtWork, AnsweredOnce, OneWay, Closed, Runs
<1>3. OnlyLateIsCanceled /\ GracefulCutsNoneOff
  BY DEF OnlyLateIsCanceled, GracefulCutsNoneOff, Runs
<1>4. SlotsTaken
  BY FS_EmptySet, CapacityAssumption DEF SlotsTaken
<1>5. QED
  BY <1>1, <1>2, <1>3, <1>4 DEF IInv

-----------------------------------------------------------------------------
(* The records a step writes.                                              *)

LEMMA GoesWrites ==
    ASSUME TypeOK, NEW r \in Requests, NEW a \in Answers, NEW p, Goes(r, p, a),
           p \in {"handling", "accepting", "waiting", "answered"}
    PROVE  /\ request'[r].place = p /\ request'[r].answer = a
           /\ \A q \in Requests \ {r} : request'[q] = request[q]
           /\ request' \in [Requests -> [place : {"away", "handling", "accepting", "waiting", "answered"},
                                         command : AllCommands, answer : Answers]]
<1>1. request[r].command \in AllCommands
  BY DEF TypeOK
<1>2. QED
  BY <1>1 DEF Goes, TypeOK

LEMMA StepWrites ==
    ASSUME TypeOK, NEW x \in Runs, NEW p \in Places, NEW o \in Outcomes, Step(x, p, o)
    PROVE  /\ job'[x].place = p /\ job'[x].outcome = o
           /\ \A y \in Runs \ {x} : job'[y] = job[y]
           /\ job' \in [Runs -> [place : Places \cup {"cut"}, command : AllCommands, outcome : Outcomes]]
<1>1. job[x].command \in AllCommands
  BY DEF TypeOK
<1>2. QED
  BY <1>1 DEF Step, TypeOK

LEMMA EnterWrites ==
    ASSUME TypeOK, NEW r \in Requests, Enter(r)
    PROVE  /\ job' = [job EXCEPT ![r] = [place |-> "begin", command |-> request[r].command,
                                         outcome |-> "none"]]
           /\ job'[r].place = "begin" /\ job'[r].outcome = "none"
           /\ \A x \in Runs \ {r} : job'[x] = job[x]
           /\ job' \in [Runs -> [place : Places \cup {"cut"}, command : AllCommands, outcome : Outcomes]]
<1>1. request[r].command \in AllCommands
  BY DEF TypeOK
<1>2. r \in Runs
  BY DEF Runs
<1>3. QED
  BY <1>1, <1>2 DEF Enter, TypeOK, Places, Outcomes

-----------------------------------------------------------------------------
(* Steps of the client and of the handler.                                 *)

\* The handler goes on with a request, or answers it; nothing else changes.
Handled(r) ==
    /\ request'[r].place \in {"handling", "accepting", "answered"}
    /\ request'[r].place # "answered" => request'[r].answer = "none"
    /\ request'[r].answer # "accepted"
    /\ \A q \in Requests \ {r} : request'[q] = request[q]
    /\ request' \in [Requests -> [place : {"away", "handling", "accepting", "waiting", "answered"},
                                  command : AllCommands, answer : Answers]]
    /\ request[r].place \in {"away", "handling", "accepting"}
    /\ main # "exited"
    /\ main \in {"draining", "leaving"} => missed
    /\ UNCHANGED <<daemonVars, runnerVars, gone, job, ledger, lives>>

\* A request that is not answered has no goroutine, and one that is not
\* waiting either has no run.
LEMMA HandledKeeps ==
    ASSUME IInv, NEW r \in Requests, Handled(r)
    PROVE  IInv'
<1>1. UNCHANGED <<main, exit, expired, missed, accepting, canceled, halted, group, slots, gone, job, ledger, lives>>
  BY DEF Handled, daemonVars, runnerVars
<1>2. r \notin group
  BY DEF Handled, IInv, AnsweredOnce
<1>3. TypeOK'
  BY <1>1 DEF Handled, IInv, TypeOK
<1>4. Awaited'
  BY <1>1, <1>2 DEF Handled, IInv, Awaited, AtWork
<1>5. AnsweredOnce'
  BY <1>1, <1>2 DEF Handled, IInv, AnsweredOnce, TypeOK
<1>6. SlotsTaken' /\ GracefulCutsNoneOff'
  BY <1>1 DEF IInv, SlotsTaken, GracefulCutsNoneOff
<1>7. OneWay'
  BY <1>1 DEF Handled, IInv, OneWay, Closed
<1>8. OnlyLateIsCanceled'
  BY <1>1 DEF Handled, IInv, OnlyLateIsCanceled
<1>9. QED
  BY <1>3, <1>4, <1>5, <1>6, <1>7, <1>8 DEF IInv

LEMMA PostKeeps ==
    ASSUME IInv, NEW r \in Requests, NEW c \in Commands, Post(r, c)
    PROVE  IInv'
<1>1. c \in AllCommands /\ "none" \in Answers
  BY DEF AllCommands, Answers
<1>2. /\ request'[r].place = "handling" /\ request'[r].answer = "none"
      /\ \A q \in Requests \ {r} : request'[q] = request[q]
      /\ request' \in [Requests -> [place : {"away", "handling", "accepting", "waiting", "answered"},
                                    command : AllCommands, answer : Answers]]
  BY <1>1 DEF Post, IInv, TypeOK
<1>3. QED
  BY <1>2, HandledKeeps DEF Post, Listening, Handled

\* A request that is being read keeps the server open.
LEMMA NotClosed ==
    ASSUME IInv, NEW r \in Requests, request[r].place \in {"handling", "accepting", "waiting"}
    PROVE  main # "exited" /\ (main \in {"draining", "leaving"} => missed)
BY DEF IInv, OneWay, Closed

LEMMA RefuseKeeps ==
    ASSUME IInv, NEW r \in Requests, Refuse(r)
    PROVE  IInv'
<1>1. PICK a \in {"invalid", "denied"} : Goes(r, "answered", a)
  BY DEF Refuse, Answer
<1>2. a \in Answers /\ a # "accepted"
  BY DEF Answers
<1>3. Handled(r)
  BY <1>1, <1>2, GoesWrites, NotClosed DEF Refuse, Handled, IInv
<1>4. QED
  BY <1>3, HandledKeeps

LEMMA PreferKeeps ==
    ASSUME IInv, NEW r \in Requests, Prefer(r)
    PROVE  IInv'
<1>1. "none" \in Answers
  BY DEF Answers
<1>2. Handled(r)
  BY <1>1, GoesWrites, NotClosed DEF Prefer, Handled, IInv
<1>3. QED
  BY <1>2, HandledKeeps

LEMMA RejectKeeps ==
    ASSUME IInv, NEW r \in Requests, Submit(r), Reject(r)
    PROVE  IInv'
<1>1. PICK a \in {"stopping", "full"} : Goes(r, "answered", a)
  BY DEF Reject, Answer
<1>2. a \in Answers /\ a # "accepted"
  BY DEF Answers
<1>3. UNCHANGED <<daemonVars, runnerVars, gone, job, ledger, lives>>
  BY DEF Submit, Reject
<1>4. Handled(r)
  BY <1>1, <1>2, <1>3, GoesWrites, NotClosed DEF Submit, Handled, IInv
<1>5. QED
  BY <1>4, HandledKeeps

LEMMA SynchronousKeeps ==
    ASSUME IInv, NEW r \in Requests, Synchronous(r)
    PROVE  IInv'
<1>1. "none" \in Answers
  BY DEF Answers
<1>2. /\ request'[r].place = "waiting" /\ request'[r].answer = "none"
      /\ \A q \in Requests \ {r} : request'[q] = request[q]
      /\ request' \in [Requests -> [place : {"away", "handling", "accepting", "waiting", "answered"},
                                    command : AllCommands, answer : Answers]]
  BY <1>1, GoesWrites DEF Synchronous, IInv
<1>3. UNCHANGED <<main, exit, expired, missed, accepting, canceled, halted, group, slots, gone, ledger, lives>>
  BY DEF Synchronous, daemonVars, runnerVars
<1>4. /\ job'[r].place = "begin" /\ job'[r].outcome = "none"
      /\ \A x \in Runs \ {r} : job'[x] = job[x]
      /\ job' \in [Runs -> [place : Places \cup {"cut"}, command : AllCommands, outcome : Outcomes]]
  BY EnterWrites DEF Synchronous, IInv
<1>5. r \notin group /\ r # Tick /\ main # "exited" /\ (main \in {"draining", "leaving"} => missed)
  BY NotClosed, RequestsAssumption DEF Synchronous, IInv, AnsweredOnce
<1>6. TypeOK'
  BY <1>2, <1>3, <1>4 DEF IInv, TypeOK
<1>7. Awaited'
  BY <1>2, <1>3, <1>4, <1>5 DEF IInv, Awaited, AtWork, Runs
<1>8. AnsweredOnce'
  BY <1>2, <1>3, <1>5 DEF IInv, TypeOK, AnsweredOnce
<1>9. SlotsTaken'
  BY <1>3, <1>4, <1>5 DEF IInv, TypeOK, SlotsTaken, AtWork, Runs
<1>10. OneWay'
  BY <1>2, <1>3, <1>4, <1>5 DEF IInv, OneWay, Closed, Runs
<1>11. OnlyLateIsCanceled' /\ GracefulCutsNoneOff'
  BY <1>2, <1>3, <1>4, <1>5 DEF IInv, OneWay, OnlyLateIsCanceled, GracefulCutsNoneOff, Runs
<1>12. QED
  BY <1>6, <1>7, <1>8, <1>9, <1>10, <1>11 DEF IInv

\* Accept takes a slot that is free and joins the group, under the lock.
LEMMA AcceptKeeps ==
    ASSUME IInv, NEW r \in Requests, Submit(r), Accept(r)
    PROVE  IInv'
<1>1. "accepted" \in Answers
  BY DEF Answers
<1>2. /\ request'[r].place = "answered" /\ request'[r].answer = "accepted"
      /\ \A q \in Requests \ {r} : request'[q] = request[q]
      /\ request' \in [Requests -> [place : {"away", "handling", "accepting", "waiting", "answered"},
                                    command : AllCommands, answer : Answers]]
  BY <1>1, GoesWrites DEF Accept, Answer, IInv
<1>3. UNCHANGED <<main, exit, expired, missed, accepting, canceled, halted, gone, ledger, lives>>
  BY DEF Submit, daemonVars
<1>4. /\ job'[r].place = "begin" /\ job'[r].outcome = "none"
      /\ \A x \in Runs \ {r} : job'[x] = job[x]
      /\ job' \in [Runs -> [place : Places \cup {"cut"}, command : AllCommands, outcome : Outcomes]]
  BY EnterWrites DEF Accept, IInv
<1>5. r \notin group /\ r # Tick /\ main # "exited" /\ (main \in {"draining", "leaving"} => missed)
  BY NotClosed, RequestsAssumption DEF Submit, IInv, AnsweredOnce
<1>6. slots' = slots \cup {r} /\ group' = group \cup {r} /\ Cardinality(slots) < Capacity
  BY DEF Accept
<1>7. TypeOK'
  BY <1>2, <1>3, <1>4, <1>6 DEF IInv, TypeOK
<1>8. Awaited'
  BY <1>2, <1>3, <1>4, <1>5, <1>6 DEF IInv, Awaited, AtWork, Runs
<1>9. AnsweredOnce'
  BY <1>2, <1>3, <1>5, <1>6 DEF IInv, TypeOK, AnsweredOnce
<1>10. SlotsTaken'
  <2>1. IsFiniteSet(slots)
    BY RequestsAssumption, FS_Subset DEF IInv, TypeOK
  <2>2. /\ Cardinality(slots) \in Nat
        /\ Cardinality(slots') = IF r \in slots THEN Cardinality(slots) ELSE Cardinality(slots) + 1
    BY <2>1, <1>6, FS_AddElement, FS_CardinalityType
  <2>3. Cardinality(slots') <= Capacity
    BY <2>2, <1>6, CapacityAssumption
  <2>4. /\ \A q \in group' : job'[q].place \in AtWork => q \in slots'
        /\ \A q \in slots' : job'[q].place \in AtWork \cup {"cut"}
    BY <1>4, <1>6 DEF IInv, TypeOK, SlotsTaken, AtWork, Runs
  <2>5. QED
    BY <2>3, <2>4 DEF SlotsTaken
<1>11. OneWay'
  BY <1>2, <1>3, <1>4, <1>5, <1>6 DEF IInv, OneWay, Closed, Runs
<1>12. OnlyLateIsCanceled' /\ GracefulCutsNoneOff'
  BY <1>2, <1>3, <1>4, <1>5 DEF IInv, OneWay, OnlyLateIsCanceled, GracefulCutsNoneOff, Runs
<1>13. QED
  BY <1>7, <1>8, <1>9, <1>10, <1>11, <1>12 DEF IInv

LEMMA HangUpKeeps ==
    ASSUME IInv, NEW r \in Requests, HangUp(r)
    PROVE  IInv'
<1>1. /\ UNCHANGED <<main, exit, expired, missed, accepting, canceled, halted, group, slots, request, job,
                     ledger, lives>>
      /\ gone' = gone \cup {r}
  BY DEF HangUp, daemonVars, runnerVars
<1>2. TypeOK'
  BY <1>1 DEF IInv, TypeOK
<1>3. Awaited' /\ AnsweredOnce' /\ SlotsTaken' /\ OneWay' /\ OnlyLateIsCanceled' /\ GracefulCutsNoneOff'
  BY <1>1 DEF IInv, Awaited, AnsweredOnce, SlotsTaken, OneWay, Closed, OnlyLateIsCanceled,
     GracefulCutsNoneOff
<1>4. QED
  BY <1>2, <1>3 DEF IInv

-----------------------------------------------------------------------------
(* Steps of Execute.                                                       *)

\* A run gets on.
Ran(x) ==
    /\ job[x].place \in {"begin", "working", "finishing"}
    /\ job'[x].place \in {"working", "finishing", "over"}
    /\ job'[x].outcome \in {"interrupted", "canceled"} => Canceled(x) \/ job'[x].outcome = job[x].outcome
    /\ \A y \in Runs \ {x} : job'[y] = job[y]
    /\ job' \in [Runs -> [place : Places \cup {"cut"}, command : AllCommands, outcome : Outcomes]]
    /\ ledger' \in [AllCommands -> {"absent", "running", "recorded"}]
    /\ main # "exited"
    /\ UNCHANGED <<daemonVars, runnerVars, request, gone, lives>>

LEMMA RanKeeps ==
    ASSUME IInv, NEW x \in Runs, Ran(x)
    PROVE  IInv'
<1>1. UNCHANGED <<main, exit, expired, missed, accepting, canceled, halted, group, slots, request, gone, lives>>
  BY DEF Ran, daemonVars, runnerVars
<1>2. TypeOK'
  BY <1>1 DEF Ran, IInv, TypeOK
<1>3. Awaited'
  BY <1>1 DEF Ran, IInv, Awaited, AtWork, Runs
<1>4. AnsweredOnce'
  BY <1>1 DEF IInv, AnsweredOnce
<1>5. SlotsTaken'
  BY <1>1 DEF Ran, IInv, TypeOK, SlotsTaken, AtWork, Runs
<1>6. OneWay'
  BY <1>1 DEF Ran, IInv, OneWay, Closed, Runs
<1>7. OnlyLateIsCanceled'
  <2>1. SUFFICES ASSUME NEW r \in Requests, request[r].answer = "accepted",
                        job'[r].outcome \in {"interrupted", "canceled"}
                 PROVE  missed
    BY <1>1 DEF OnlyLateIsCanceled
  <2>2. CASE job'[r].outcome = job[r].outcome
    BY <2>1, <2>2 DEF IInv, OnlyLateIsCanceled
  <2>3. CASE job'[r].outcome # job[r].outcome
    <3>1. x = r /\ Canceled(r)
      BY <2>1, <2>3 DEF Ran, Runs
    <3>2. r # Tick
      BY RequestsAssumption
    <3>3. request[r].place = "answered"
      BY <2>1 DEF IInv, AnsweredOnce
    <3>4. r \in group
      BY <3>1, <3>3 DEF Ran, IInv, Awaited, AtWork
    <3>5. canceled
      BY <3>1, <3>2, <3>4 DEF Canceled
    <3>6. QED
      BY <3>4, <3>5 DEF Ran, IInv, OneWay
  <2>4. QED
    BY <2>2, <2>3
<1>8. GracefulCutsNoneOff'
  BY <1>1 DEF Ran, IInv, OneWay, GracefulCutsNoneOff
<1>9. QED
  BY <1>2, <1>3, <1>4, <1>5, <1>6, <1>7, <1>8 DEF IInv

LEMMA CommandOfRun == ASSUME TypeOK, NEW x \in Runs PROVE job[x].command \in AllCommands
BY DEF TypeOK

LEMMA BeginKeeps ==
    ASSUME IInv, NEW x \in Runs, Begin(x)
    PROVE  IInv'
<1>1. /\ main # "exited" /\ job[x].place = "begin"
      /\ UNCHANGED <<daemonVars, runnerVars, request, gone, lives>>
  BY DEF Begin, Alive
<1>2. PICK p \in {"working", "over"}, o \in {"interrupted", "unclaimed", "none", "in_progress", "replayed"} :
         Step(x, p, o) /\ (o = "interrupted" => Canceled(x))
  BY DEF Begin
<1>3. p \in Places /\ o \in Outcomes
  BY DEF Places, Outcomes
<1>4. ledger' \in [AllCommands -> {"absent", "running", "recorded"}]
  <2>1. ledger' = ledger \/ ledger' = [ledger EXCEPT ![job[x].command] = "running"]
    BY DEF Begin
  <2>2. QED
    BY <2>1, CommandOfRun DEF IInv, TypeOK
<1>5. Ran(x)
  BY <1>1, <1>2, <1>3, <1>4, StepWrites DEF IInv, Ran
<1>6. QED
  BY <1>5, RanKeeps

LEMMA WorkKeeps ==
    ASSUME IInv, NEW x \in Runs, Work(x)
    PROVE  IInv'
<1>1. PICK o \in {"canceled", "done"} : Step(x, "finishing", o) /\ (o = "canceled" => Canceled(x))
  BY DEF Work
<1>2. "finishing" \in Places /\ o \in Outcomes
  BY DEF Places, Outcomes
<1>3. ledger' \in [AllCommands -> {"absent", "running", "recorded"}]
  BY DEF Work, IInv, TypeOK
<1>4. Ran(x)
  BY <1>1, <1>2, <1>3, StepWrites DEF Work, Alive, IInv, Ran
<1>5. QED
  BY <1>4, RanKeeps

LEMMA FinishKeeps ==
    ASSUME IInv, NEW x \in Runs, Finish(x)
    PROVE  IInv'
<1>1. PICK o \in {job[x].outcome, "unrecorded"} : Step(x, "over", o)
  BY DEF Finish
<1>2. "over" \in Places /\ o \in Outcomes
  BY DEF IInv, TypeOK, Places, Outcomes
<1>3. ledger' \in [AllCommands -> {"absent", "running", "recorded"}]
  <2>1. ledger' = ledger \/ ledger' = [ledger EXCEPT ![job[x].command] = "recorded"]
    BY DEF Finish
  <2>2. QED
    BY <2>1, CommandOfRun DEF IInv, TypeOK
<1>4. Ran(x)
  BY <1>1, <1>2, <1>3, StepWrites DEF Finish, Alive, IInv, Ran
<1>5. QED
  BY <1>4, RanKeeps

\* The run of a request that waits is handed to it.
LEMMA ReturnKeeps ==
    ASSUME IInv, NEW r \in Requests, Return(r)
    PROVE  IInv'
<1>1. /\ main # "exited" /\ job[r].place = "over" /\ request[r].place = "waiting"
      /\ UNCHANGED <<main, exit, expired, missed, accepting, canceled, halted, group, slots, gone, ledger, lives>>
  BY DEF Return, Alive, daemonVars, runnerVars
<1>2. mapCommandError(r) \in Answers /\ mapCommandError(r) # "accepted"
  <2>1. mapCommandError(r) \in {"result", "ledger_partial", "in_progress", "canceled", "failed"}
    BY Zenon DEF mapCommandError
  <2>2. QED
    BY <2>1 DEF Answers
<1>3. /\ request'[r].place = "answered" /\ request'[r].answer # "accepted"
      /\ \A q \in Requests \ {r} : request'[q] = request[q]
      /\ request' \in [Requests -> [place : {"away", "handling", "accepting", "waiting", "answered"},
                                    command : AllCommands, answer : Answers]]
  BY <1>2, GoesWrites DEF Return, Answer, IInv
<1>4. "none" \in Places /\ job[r].outcome \in Outcomes /\ r \in Runs
  BY DEF IInv, TypeOK, Places, Runs
<1>5. /\ job'[r].place = "none"
      /\ \A y \in Runs \ {r} : job'[y] = job[y]
      /\ job' \in [Runs -> [place : Places \cup {"cut"}, command : AllCommands, outcome : Outcomes]]
  BY <1>4, StepWrites DEF Return, IInv
<1>6. r # Tick /\ (main \in {"draining", "leaving"} => missed) /\ r \notin group
  BY <1>1, NotClosed, RequestsAssumption DEF IInv, AnsweredOnce
<1>7. TypeOK'
  BY <1>1, <1>3, <1>5 DEF IInv, TypeOK
<1>8. Awaited'
  BY <1>1, <1>3, <1>5, <1>6 DEF IInv, Awaited, AtWork, Runs
<1>9. AnsweredOnce'
  BY <1>1, <1>3, <1>6 DEF IInv, TypeOK, AnsweredOnce
<1>10. SlotsTaken'
  BY <1>1, <1>5, <1>6 DEF IInv, TypeOK, SlotsTaken, AtWork, Runs
<1>11. OneWay'
  BY <1>1, <1>3, <1>5, <1>6 DEF IInv, OneWay, Closed, Runs
<1>12. OnlyLateIsCanceled' /\ GracefulCutsNoneOff'
  BY <1>1, <1>3, <1>5 DEF IInv, OneWay, OnlyLateIsCanceled, GracefulCutsNoneOff, Runs
<1>13. QED
  BY <1>7, <1>8, <1>9, <1>10, <1>11, <1>12 DEF IInv

LEMMA ReleaseKeeps ==
    ASSUME IInv, NEW r \in Requests, Release(r)
    PROVE  IInv'
<1>1. /\ main # "exited" /\ r \in group /\ job[r].place = "over" /\ slots' = slots \ {r}
      /\ UNCHANGED <<main, exit, expired, missed, accepting, canceled, halted, group, request, gone, ledger, lives>>
  BY DEF Release, Alive, daemonVars
<1>2. "freed" \in Places /\ job[r].outcome \in Outcomes /\ r \in Runs
  BY DEF IInv, TypeOK, Places, Runs
<1>3. /\ job'[r].place = "freed" /\ job'[r].outcome = job[r].outcome
      /\ \A y \in Runs \ {r} : job'[y] = job[y]
      /\ job' \in [Runs -> [place : Places \cup {"cut"}, command : AllCommands, outcome : Outcomes]]
  BY <1>2, StepWrites DEF Release, IInv
<1>4. r # Tick
  BY RequestsAssumption
<1>5. TypeOK'
  BY <1>1, <1>3 DEF IInv, TypeOK
<1>6. Awaited'
  BY <1>1, <1>3 DEF IInv, Awaited, AtWork, Runs
<1>7. AnsweredOnce'
  BY <1>1 DEF IInv, AnsweredOnce
<1>8. SlotsTaken'
  <2>1. IsFiniteSet(slots)
    BY RequestsAssumption, FS_Subset DEF IInv, TypeOK
  <2>2. Cardinality(slots') <= Cardinality(slots) /\ Cardinality(slots) \in Nat /\ Cardinality(slots') \in Nat
    BY <2>1, <1>1, FS_Subset, FS_CardinalityType
  <2>3. Cardinality(slots') <= Capacity
    BY <2>2, CapacityAssumption DEF IInv, SlotsTaken
  <2>4. /\ \A q \in group' : job'[q].place \in AtWork => q \in slots'
        /\ \A q \in slots' : job'[q].place \in AtWork \cup {"cut"}
    BY <1>1, <1>3 DEF IInv, TypeOK, SlotsTaken, AtWork, Runs
  <2>5. QED
    BY <2>3, <2>4 DEF SlotsTaken
<1>9. OneWay'
  BY <1>1, <1>3, <1>4 DEF IInv, OneWay, Closed, Runs
<1>10. OnlyLateIsCanceled' /\ GracefulCutsNoneOff'
  BY <1>1, <1>3 DEF IInv, OneWay, OnlyLateIsCanceled, GracefulCutsNoneOff, Runs
<1>11. QED
  BY <1>5, <1>6, <1>7, <1>8, <1>9, <1>10 DEF IInv

LEMMA DoneKeeps ==
    ASSUME IInv, NEW r \in Requests, Done(r)
    PROVE  IInv'
<1>1. /\ main # "exited" /\ job[r].place = "freed" /\ group' = group \ {r}
      /\ UNCHANGED <<main, exit, expired, missed, accepting, canceled, halted, slots, request, gone, ledger, lives>>
  BY DEF Done, Alive, daemonVars
<1>2. "none" \in Places /\ job[r].outcome \in Outcomes /\ r \in Runs
  BY DEF IInv, TypeOK, Places, Runs
<1>3. /\ job'[r].place = "none" /\ job'[r].outcome = job[r].outcome
      /\ \A y \in Runs \ {r} : job'[y] = job[y]
      /\ job' \in [Runs -> [place : Places \cup {"cut"}, command : AllCommands, outcome : Outcomes]]
  BY <1>2, StepWrites DEF Done, IInv
<1>4. r # Tick
  BY RequestsAssumption
<1>5. r \notin slots
  BY <1>1 DEF IInv, SlotsTaken, AtWork
<1>6. TypeOK'
  BY <1>1, <1>3, <1>5 DEF IInv, TypeOK
<1>7. Awaited'
  BY <1>1, <1>3 DEF IInv, Awaited, AtWork, Runs
<1>8. AnsweredOnce'
  BY <1>1 DEF IInv, AnsweredOnce
<1>9. SlotsTaken'
  BY <1>1, <1>3 DEF IInv, TypeOK, SlotsTaken, AtWork, Runs
<1>10. OneWay'
  BY <1>1, <1>3, <1>4 DEF IInv, OneWay, Closed, Runs
<1>11. OnlyLateIsCanceled' /\ GracefulCutsNoneOff'
  BY <1>1, <1>3 DEF IInv, OneWay, OnlyLateIsCanceled, GracefulCutsNoneOff, Runs
<1>12. QED
  BY <1>6, <1>7, <1>8, <1>9, <1>10, <1>11 DEF IInv

-----------------------------------------------------------------------------
(* Steps of the scheduler loop.                                            *)

LEMMA TickKeeps ==
    ASSUME IInv, NEW p \in {"none", "begin"}, Step(Tick, p, "none"),
           p = "begin" => ~halted, main # "exited",
           UNCHANGED <<daemonVars, runnerVars, request, gone, ledger, lives>>
    PROVE  IInv'
<1>1. UNCHANGED <<main, exit, expired, missed, accepting, canceled, halted, group, slots, request, gone,
                  ledger, lives>>
  BY DEF daemonVars, runnerVars
<1>2. p \in Places /\ "none" \in Outcomes /\ Tick \in Runs
  BY DEF Places, Outcomes, Runs
<1>3. /\ job'[Tick].place = p
      /\ \A y \in Runs \ {Tick} : job'[y] = job[y]
      /\ job' \in [Runs -> [place : Places \cup {"cut"}, command : AllCommands, outcome : Outcomes]]
  BY <1>2, StepWrites DEF IInv
<1>4. \A r \in Requests : job'[r] = job[r]
  BY <1>3, RequestsAssumption DEF Runs
<1>5. TypeOK'
  BY <1>1, <1>3 DEF IInv, TypeOK
<1>6. Awaited' /\ AnsweredOnce' /\ OnlyLateIsCanceled'
  BY <1>1, <1>4 DEF IInv, Awaited, AnsweredOnce, OnlyLateIsCanceled
<1>7. SlotsTaken'
  BY <1>1, <1>4 DEF IInv, TypeOK, SlotsTaken
<1>8. OneWay' /\ GracefulCutsNoneOff'
  BY <1>1, <1>3 DEF IInv, OneWay, Closed, GracefulCutsNoneOff, Runs
<1>9. QED
  BY <1>5, <1>6, <1>7, <1>8 DEF IInv

-----------------------------------------------------------------------------
(* Steps of the process.                                                   *)

\* run() gets on; nothing of a request or a run changes.
LEMMA MainKeeps ==
    ASSUME IInv, Signal \/ StopScheduler \/ Expire \/ CloseServer \/ Drain \/ ListenerFails
    PROVE  IInv'
<1>1. UNCHANGED <<exit, group, slots, request, gone, job, ledger, lives>>
  BY DEF Signal, StopScheduler, Expire, CloseServer, Drain, ListenerFails, others, runnerVars
<1>2. main # "exited" /\ main' # "exited" /\ (missed => missed')
  BY DEF Signal, StopScheduler, Expire, CloseServer, Drain, ListenerFails
<1>3. TypeOK'
  BY <1>1 DEF Signal, StopScheduler, Expire, CloseServer, Drain, ListenerFails, IInv, TypeOK
<1>4. Awaited' /\ AnsweredOnce' /\ SlotsTaken'
  BY <1>1 DEF IInv, Awaited, AnsweredOnce, SlotsTaken
<1>5. OneWay'
  BY <1>1 DEF Signal, StopScheduler, Expire, CloseServer, Drain, ListenerFails, IInv, OneWay, Closed
<1>6. OnlyLateIsCanceled' /\ GracefulCutsNoneOff'
  BY <1>1, <1>2 DEF IInv, OnlyLateIsCanceled, GracefulCutsNoneOff
<1>7. QED
  BY <1>3, <1>4, <1>5, <1>6 DEF IInv

\* The process ends.  If no wait of its shutdown was cut short, nobody was left
\* to wait for, and so nothing was at work.
LEMMA CutOffKeeps ==
    ASSUME IInv, Leave \/ LeaveFailed \/ Crash
    PROVE  IInv'
<1>1. /\ main # "exited" /\ CutOff
      /\ exit' \in {"graceful", "deadline", "listener", "crash"}
      /\ exit' = "graceful" => main = "leaving" /\ ~missed
  BY DEF Leave, LeaveFailed, Crash, Alive
<1>2. /\ main' = "exited"
      /\ UNCHANGED <<expired, missed, accepting, canceled, halted, group, slots, gone, ledger, lives>>
  BY <1>1 DEF CutOff, runnerVars
<1>3. /\ \A x \in Runs : /\ job'[x].outcome = job[x].outcome
                         /\ job'[x].place = IF job[x].place = "none" THEN "none" ELSE "cut"
      /\ job' \in [Runs -> [place : Places \cup {"cut"}, command : AllCommands, outcome : Outcomes]]
  <2>1. \A x \in Runs : job[x] \in [place : Places \cup {"cut"}, command : AllCommands, outcome : Outcomes]
    BY DEF IInv, TypeOK
  <2>2. job' = [x \in Runs |->
                 IF job[x].place = "none" THEN job[x]
                 ELSE [place |-> "cut", command |-> job[x].command, outcome |-> job[x].outcome]]
    BY <1>1 DEF CutOff
  <2>3. QED
    BY <2>1, <2>2
<1>4. /\ \A r \in Requests :
            /\ request'[r].place \in {"away", "answered"}
            /\ request[r].place = "answered" => request'[r] = request[r]
            /\ request'[r].place # "answered" => request'[r] = request[r]
            /\ request'[r].answer = "accepted" => request[r].answer = "accepted"
      /\ request' \in [Requests -> [place : {"away", "handling", "accepting", "waiting", "answered"},
                                    command : AllCommands, answer : Answers]]
  <2>1. \A r \in Requests :
           request[r] \in [place : {"away", "handling", "accepting", "waiting", "answered"},
                           command : AllCommands, answer : Answers]
    BY DEF IInv, TypeOK
  <2>2. request' = [r \in Requests |->
                     IF request[r].place \in {"away", "answered"} THEN request[r]
                     ELSE [place |-> "answered", command |-> request[r].command, answer |-> "cut"]]
    BY <1>1 DEF CutOff
  <2>3. "cut" \in Answers
    BY DEF Answers
  <2>4. QED
    BY <2>1, <2>2, <2>3
<1>5. TypeOK'
  BY <1>1, <1>2, <1>3, <1>4 DEF IInv, TypeOK
<1>6. Awaited'
  BY <1>3 DEF Awaited, AtWork, Runs
<1>7. AnsweredOnce'
  BY <1>2, <1>4 DEF IInv, TypeOK, AnsweredOnce
<1>8. SlotsTaken'
  BY <1>2, <1>3 DEF IInv, TypeOK, SlotsTaken, AtWork, Runs
<1>9. OneWay'
  BY <1>2, <1>3, <1>4 DEF IInv, OneWay, Closed
<1>10. OnlyLateIsCanceled'
  BY <1>2, <1>3, <1>4 DEF IInv, OnlyLateIsCanceled, Runs
<1>11. GracefulCutsNoneOff'
  <2>1. SUFFICES ASSUME exit' = "graceful", NEW x \in Runs PROVE job[x].place = "none"
    BY <1>3 DEF GracefulCutsNoneOff
  <2>2. main = "leaving" /\ Closed /\ group = {}
    BY <1>1, <2>1 DEF IInv, OneWay
  <2>3. job[x].place \in Places
    BY <1>1 DEF IInv, TypeOK, OneWay
  <2>4. CASE x = Tick
    BY <2>2, <2>4 DEF IInv, OneWay
  <2>5. CASE x \in Requests
    BY <2>2, <2>3, <2>5 DEF IInv, Awaited, AtWork, Places, Closed
  <2>6. QED
    BY <2>4, <2>5 DEF Runs
<1>12. QED
  BY <1>5, <1>6, <1>7, <1>8, <1>9, <1>10, <1>11 DEF IInv

LEMMA RestartKeeps ==
    ASSUME IInv, Restart
    PROVE  IInv'
<1>1. \A x \in Runs : job'[x] = Idle
  BY DEF Restart
<1>2. Idle \in [place : Places \cup {"cut"}, command : AllCommands, outcome : Outcomes]
      /\ Idle.place = "none" /\ Idle.outcome = "none"
  BY DEF Idle, Places, Outcomes, AllCommands
<1>3. job' \in [Runs -> [place : Places \cup {"cut"}, command : AllCommands, outcome : Outcomes]]
  BY <1>2 DEF Restart
<1>4. lives' \in 1 .. MaxLives
  BY LivesAssumption DEF Restart, IInv, TypeOK
<1>5. TypeOK'
  BY <1>3, <1>4 DEF Restart, IInv, TypeOK
<1>6. Awaited' /\ AnsweredOnce' /\ OneWay'
  BY <1>1, <1>2 DEF Restart, IInv, Awaited, AtWork, AnsweredOnce, OneWay, Closed, Runs
<1>7. SlotsTaken'
  BY FS_EmptySet, CapacityAssumption DEF Restart, SlotsTaken
<1>8. OnlyLateIsCanceled' /\ GracefulCutsNoneOff'
  BY <1>1, <1>2 DEF Restart, OnlyLateIsCanceled, GracefulCutsNoneOff, Runs
<1>9. QED
  BY <1>5, <1>6, <1>7, <1>8 DEF IInv

-----------------------------------------------------------------------------
(* The invariant, and what follows from it.                                *)

LEMMA NextKeeps == IInv /\ [Next]_vars => IInv'
<1> SUFFICES ASSUME IInv, [Next]_vars PROVE IInv'
  OBVIOUS
<1>1. CASE UNCHANGED vars
  BY <1>1 DEF vars, daemonVars, runnerVars, IInv, TypeOK, Awaited, AnsweredOnce, SlotsTaken, OneWay,
     Closed, OnlyLateIsCanceled, GracefulCutsNoneOff
<1>2. ASSUME NEW r \in Requests, Handle(r) PROVE IInv'
  <2>1. CASE Submit(r)
    BY <2>1, AcceptKeeps, RejectKeeps DEF Submit
  <2>2. QED
    BY <1>2, <2>1, RefuseKeeps, SynchronousKeeps, PreferKeeps, ReturnKeeps DEF Handle
<1>3. ASSUME NEW r \in Requests, HangUp(r) \/ Goroutine(r) \/ \E c \in Commands : Post(r, c)
      PROVE  IInv'
  BY <1>3, HangUpKeeps, ReleaseKeeps, DoneKeeps, PostKeeps DEF Goroutine
<1>4. ASSUME NEW x \in Runs, Execute(x) \/ Work(x) PROVE IInv'
  BY <1>4, BeginKeeps, FinishKeeps, WorkKeeps DEF Execute
<1>5. CASE Dispatch
  <2>1. /\ Step(Tick, "begin", "none") /\ ~halted /\ main # "exited"
        /\ UNCHANGED <<daemonVars, runnerVars, request, gone, ledger, lives>>
    BY <1>5 DEF Dispatch, Alive
  <2>2. QED
    BY <2>1, TickKeeps
<1>6. CASE EndTick
  <2>1. /\ Step(Tick, "none", "none") /\ main # "exited"
        /\ UNCHANGED <<daemonVars, runnerVars, request, gone, ledger, lives>>
    BY <1>6 DEF EndTick, Alive
  <2>2. QED
    BY <2>1, TickKeeps
<1>7. CASE Signal \/ Shutdown \/ ListenerFails \/ LeaveFailed \/ Crash \/ Restart
  BY <1>7, MainKeeps, CutOffKeeps, RestartKeeps DEF Shutdown
<1>8. QED
  BY <1>1, <1>2, <1>3, <1>4, <1>5, <1>6, <1>7 DEF Next

THEOREM Invariant == Spec => []IInv
<1>1. Init => IInv
  BY InitHolds
<1>2. QED
  BY <1>1, NextKeeps, PTL DEF Spec

\* Every state is typed, however many requests and lives there are.
THEOREM TypeCorrect == Spec => []TypeOK
<1>1. IInv => TypeOK
  BY DEF IInv
<1>2. QED
  BY <1>1, Invariant, PTL

\* A daemon that exits without an error cut nothing off (GracefulCutsNoneOff).
THEOREM GracefulExit == Spec => []GracefulCutsNoneOff
<1>1. IInv => GracefulCutsNoneOff
  BY DEF IInv
<1>2. QED
  BY <1>1, Invariant, PTL

\* Nothing but a deadline that passed cancels an accepted Command
\* (OnlyLateIsCanceled).
THEOREM AcceptedOutlives == Spec => []OnlyLateIsCanceled
<1>1. IInv => OnlyLateIsCanceled
  BY DEF IInv
<1>2. QED
  BY <1>1, Invariant, PTL

\* No more than Capacity accepted Commands run at a time (BoundedWork).
THEOREM CapacityKept == Spec => []BoundedWork
<1>1. IInv => BoundedWork
  <2> SUFFICES ASSUME IInv PROVE BoundedWork
    OBVIOUS
  <2> DEFINE Busy == {r \in group : job[r].place \in InProgress}
  <2>1. Busy \subseteq slots
    BY DEF IInv, SlotsTaken, InProgress, AtWork
  <2>2. IsFiniteSet(slots)
    BY RequestsAssumption, FS_Subset DEF IInv, TypeOK
  <2>3. /\ Cardinality(Busy) <= Cardinality(slots)
        /\ Cardinality(Busy) \in Nat /\ Cardinality(slots) \in Nat
    BY <2>1, <2>2, FS_Subset, FS_CardinalityType
  <2>4. QED
    BY <2>3, CapacityAssumption DEF IInv, SlotsTaken, BoundedWork
<1>2. QED
  BY <1>1, Invariant, PTL

\* Once the scheduler is stopped no scheduled Command runs (SchedulerIsQuiet).
THEOREM QuietScheduler == Spec => []SchedulerIsQuiet
<1>1. IInv => SchedulerIsQuiet
  BY DEF IInv, OneWay, SchedulerIsQuiet, InProgress
<1>2. QED
  BY <1>1, Invariant, PTL
=============================================================================
