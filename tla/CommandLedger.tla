---------------------------- MODULE CommandLedger ----------------------------
(***************************************************************************)
(* The durable Command Ledger: commandledger.Record, the Vault store that  *)
(* keeps one file per Command ID, CommandLedgerService.Begin/Finish and    *)
(* the claim -> run -> finish protocol every process-level Command         *)
(* follows (process/command_ledger.go).                                    *)
(*                                                                         *)
(* A caller is one HTTP request, CLI process or daemon pass.  Callers may  *)
(* submit the same Command ID at the same time, again after an answer was  *)
(* lost, or with a different request; any of them may die between two      *)
(* steps.  Each file operation is atomic for readers (link(2), rename(2))  *)
(* but may report an error although it took effect.                        *)
(***************************************************************************)
EXTENDS Naturals

CONSTANTS Callers,    \* concurrent callers
          CommandIDs, \* durable Command IDs
          Requests,   \* request digests: everything SameRequest compares
          Results,    \* result payloads a Command can return
          BlankID     \* the blank Command ID: the ledger is not used

ASSUME CommandIDsAssumption == BlankID \notin CommandIDs

VARIABLES ledger,     \* [CommandIDs -> Record]: the files
          pc,         \* where each caller is
          call,       \* what each caller submitted
          outcome,    \* the outcome its handler computed
          reply,      \* what it was told
          ran,        \* history: how often each Command's effect ran
          effect      \* history: request and outcome of the last such run

ledgerVars == <<ledger, pc, call, outcome, reply, ran, effect>>

-----------------------------------------------------------------------------
TerminalStates == {"succeeded", "failed", "partial_failure"}

Outcomes == [state : TerminalStates, result : Results]

NoOutcome == [state |-> "none", result |-> "none"]

NoRecord == [version |-> 0, request |-> "none", outcome |-> NoOutcome]

\* NewRunning: the record Begin creates.
Running(r) == [version |-> 1, request |-> r, outcome |-> NoOutcome]

\* Record.Finish: the terminal successor of a running record.
Finished(running, o) ==
    [version |-> running.version + 1, request |-> running.request, outcome |-> o]

Terminal(rec) == rec.outcome # NoOutcome

LedgerRecords ==
    [version : 1 .. 2, request : Requests, outcome : Outcomes \cup {NoOutcome}]

\* ValidateTransition: only a running record of the same request, at the
\* version the finisher holds, may be replaced, and only by a terminal one.
ValidTransition(current, next, expected) ==
    /\ current # NoRecord
    /\ ~Terminal(current)
    /\ Terminal(next)
    /\ current.version = expected
    /\ next.version = current.version + 1
    /\ next.request = current.request

NoReply == [kind |-> "none", outcome |-> NoOutcome]

ReplyKinds ==
    {"none", "executed", "replayed", "conflict", "in_progress", "error", "commit_error"}

Reply(kind, o) == [kind |-> kind, outcome |-> o]

Sources == {"idle", "create", "get", "effect", "finish", "replied"}

\* A caller answered with kind k and outcome o stops there.
Return(a, k, o) ==
    /\ pc' = [pc EXCEPT ![a] = "replied"]
    /\ reply' = [reply EXCEPT ![a] = Reply(k, o)]

Goto(a, l) ==
    /\ pc' = [pc EXCEPT ![a] = l]
    /\ UNCHANGED reply

-----------------------------------------------------------------------------
LedgerInit ==
    /\ ledger = [c \in CommandIDs |-> NoRecord]
    /\ pc = [a \in Callers |-> "idle"]
    /\ call \in [Callers -> [cmd : {BlankID}, req : Requests]]
    /\ outcome = [a \in Callers |-> NoOutcome]
    /\ reply = [a \in Callers |-> NoReply]
    /\ ran = [c \in CommandIDs |-> 0]
    /\ effect = [c \in CommandIDs |-> [request |-> "none", outcome |-> NoOutcome]]

\* claimDurableCommand: a blank Command ID skips the ledger altogether.
SubmitCommand(a, c, r) ==
    /\ pc[a] \in {"idle", "replied"}
    /\ call' = [call EXCEPT ![a] = [cmd |-> c, req |-> r]]
    /\ outcome' = [outcome EXCEPT ![a] = NoOutcome]
    /\ pc' = [pc EXCEPT ![a] = IF c = BlankID THEN "effect" ELSE "create"]
    /\ reply' = [reply EXCEPT ![a] = NoReply]
    /\ UNCHANGED <<ledger, ran, effect>>

\* Create fails before the link (directory, encoding, context, disk).
CreateFails(a) ==
    /\ pc[a] = "create"
    /\ Return(a, "error", NoOutcome)
    /\ UNCHANGED <<ledger, call, outcome, ran, effect>>

\* Mutation: the file is written without O_EXCL/link semantics, so a second
\* Create takes the Command over.
CreateOverwrites(a) ==
    /\ pc[a] = "create"
    /\ ledger' = [ledger EXCEPT ![call[a].cmd] = Running(call[a].req)]
    /\ Goto(a, "effect")
    /\ UNCHANGED <<call, outcome, ran, effect>>

\* Begin, store.Create succeeds: this caller owns the Command.
CreateClaims(a) ==
    /\ pc[a] = "create"
    /\ ledger[call[a].cmd] = NoRecord
    /\ ledger' = [ledger EXCEPT ![call[a].cmd] = Running(call[a].req)]
    /\ Goto(a, "effect")
    /\ UNCHANGED <<call, outcome, ran, effect>>

\* The link was made but the directory sync reported an error: Create returns
\* a plain error and the record stays running although nobody owns it.
CreateClaimsButFails(a) ==
    /\ pc[a] = "create"
    /\ ledger[call[a].cmd] = NoRecord
    /\ ledger' = [ledger EXCEPT ![call[a].cmd] = Running(call[a].req)]
    /\ Return(a, "error", NoOutcome)
    /\ UNCHANGED <<call, outcome, ran, effect>>

\* ErrAlreadyExists: Begin goes on to read the existing record.
CreateFindsExisting(a) ==
    /\ pc[a] = "create"
    /\ ledger[call[a].cmd] # NoRecord
    /\ Goto(a, "get")
    /\ UNCHANGED <<ledger, call, outcome, ran, effect>>

\* Mutation: a running record is resumed instead of reported in progress.
GetExistingResumes(a) ==
    LET rec == ledger[call[a].cmd] IN
    /\ pc[a] = "get"
    /\ IF Terminal(rec) THEN Return(a, "replayed", rec.outcome) ELSE Goto(a, "effect")
    /\ UNCHANGED <<ledger, call, outcome, ran, effect>>

\* Mutation: whoever submits the Command ID is served its record.
GetExistingOfAnybody(a) ==
    LET rec == ledger[call[a].cmd] IN
    /\ pc[a] = "get"
    /\ IF Terminal(rec) THEN Return(a, "replayed", rec.outcome) ELSE Return(a, "in_progress", NoOutcome)
    /\ UNCHANGED <<ledger, call, outcome, ran, effect>>

\* Begin after ErrAlreadyExists, and replayDurableCommand: another request is
\* a conflict, a running record is never resumed, a terminal one is replayed.
GetExisting(a) ==
    LET rec == ledger[call[a].cmd] IN
    /\ pc[a] = "get"
    /\ \/ /\ rec.request # call[a].req
          /\ Return(a, "conflict", NoOutcome)
       \/ /\ rec.request = call[a].req
          /\ ~Terminal(rec)
          /\ Return(a, "in_progress", NoOutcome)
       \/ /\ rec.request = call[a].req
          /\ Terminal(rec)
          /\ Return(a, "replayed", rec.outcome)
    /\ UNCHANGED <<ledger, call, outcome, ran, effect>>

GetFails(a) ==
    /\ pc[a] = "get"
    /\ Return(a, "error", NoOutcome)
    /\ UNCHANGED <<ledger, call, outcome, ran, effect>>

\* The handler runs: the business effect of the Command.
RunEffect(a, o) ==
    /\ pc[a] = "effect"
    /\ outcome' = [outcome EXCEPT ![a] = o]
    /\ IF call[a].cmd = BlankID
         THEN /\ Return(a, "executed", o)
              /\ UNCHANGED <<ran, effect>>
         ELSE /\ Goto(a, "finish")
              /\ ran' = [ran EXCEPT ![call[a].cmd] = @ + 1]
              /\ effect' = [effect EXCEPT ![call[a].cmd] =
                                [request |-> call[a].req, outcome |-> o]]
    /\ UNCHANGED <<ledger, call>>

\* finishDurableCommandRecord -> Finish -> Update: under the record's file
\* lock the stored record is read again, checked and replaced.  Replace may
\* report an error after the rename: the caller gets a CommandLedgerCommitError
\* although the record is terminal.
FinishRecords(a) ==
    LET c == call[a].cmd
        next == Finished(Running(call[a].req), outcome[a])
    IN /\ pc[a] = "finish"
       /\ ValidTransition(ledger[c], next, 1)
       /\ ledger' = [ledger EXCEPT ![c] = next]
       /\ \/ Return(a, "executed", outcome[a])
          \/ Return(a, "commit_error", outcome[a])
       /\ UNCHANGED <<call, outcome, ran, effect>>

\* Lock, read, validation or write failed: the record stays as it was.
FinishFails(a) ==
    /\ pc[a] = "finish"
    /\ Return(a, "commit_error", outcome[a])
    /\ UNCHANGED <<ledger, call, outcome, ran, effect>>

\* The process dies, or the answer is lost: nothing local survives.
Crash(a) ==
    /\ pc[a] # "idle"
    /\ pc' = [pc EXCEPT ![a] = "idle"]
    /\ outcome' = [outcome EXCEPT ![a] = NoOutcome]
    /\ reply' = [reply EXCEPT ![a] = NoReply]
    /\ UNCHANGED <<ledger, call, ran, effect>>

CallerStep(a) ==
    \/ CreateClaims(a)
    \/ CreateClaimsButFails(a)
    \/ CreateFails(a)
    \/ CreateFindsExisting(a)
    \/ GetExisting(a)
    \/ GetFails(a)
    \/ \E o \in Outcomes : RunEffect(a, o)
    \/ FinishRecords(a)
    \/ FinishFails(a)

LedgerNext ==
    \E a \in Callers :
        \/ \E c \in CommandIDs \cup {BlankID}, r \in Requests : SubmitCommand(a, c, r)
        \/ CallerStep(a)
        \/ Crash(a)

LedgerSpec == LedgerInit /\ [][LedgerNext]_ledgerVars

-----------------------------------------------------------------------------
(* Properties *)

LedgerTypeOK ==
    /\ ledger \in [CommandIDs -> LedgerRecords \cup {NoRecord}]
    /\ pc \in [Callers -> Sources]
    /\ call \in [Callers -> [cmd : CommandIDs \cup {BlankID}, req : Requests]]
    /\ outcome \in [Callers -> Outcomes \cup {NoOutcome}]
    /\ reply \in [Callers -> [kind : ReplyKinds, outcome : Outcomes \cup {NoOutcome}]]
    /\ ran \in [CommandIDs -> Nat]
    /\ effect \in [CommandIDs -> [request : Requests \cup {"none"},
                                  outcome : Outcomes \cup {NoOutcome}]]

\* Caller a is between its claim and the end of its finish of Command c.
Owns(a, c) == pc[a] \in {"effect", "finish"} /\ call[a].cmd = c

\* The business effect of a Command runs at most once, whatever is
\* retried, submitted concurrently, lost or restarted (Begin claims the
\* Command ID before business effects; running records are never resumed).
EffectAtMostOnce == \A c \in CommandIDs : ran[c] <= 1

\* A terminal record is the outcome of the run that took place, for the
\* request that claimed the Command: Finish never records anything else.
RecordedIsProduced ==
    \A c \in CommandIDs :
        Terminal(ledger[c]) =>
            /\ ran[c] = 1
            /\ effect[c] = [request |-> ledger[c].request, outcome |-> ledger[c].outcome]

\* Whoever is told the outcome of a Command, on the first answer or on a
\* replay, is told the outcome of its one run, made for his own request.
ToldIsProduced ==
    \A a \in Callers :
        (/\ call[a].cmd # BlankID
         /\ reply[a].kind \in {"executed", "replayed", "commit_error"}) =>
            effect[call[a].cmd] = [request |-> call[a].req, outcome |-> reply[a].outcome]

\* Two callers never own the same Command.
SingleOwner ==
    \A a, b \in Callers : \A c \in CommandIDs : Owns(a, c) /\ Owns(b, c) => a = b

\* A running record nobody owns (its process died, or Create failed after the
\* link) is left alone for ever: nobody takes it over, runs or finishes it.
OrphanNeverResumed ==
    [][\A c \in CommandIDs :
          (/\ ledger[c] # NoRecord
           /\ \A a \in Callers : ~Owns(a, c))
             => /\ ledger'[c] = ledger[c]
                /\ ran'[c] = ran[c]
                /\ \A a \in Callers : ~Owns(a, c)']_ledgerVars

\* The abstract Command the ledger implements.
Phase(c) ==
    IF ledger[c] = NoRecord THEN "unclaimed"
    ELSE IF Terminal(ledger[c]) THEN "recorded"
    ELSE IF ran[c] = 0 THEN "claimed"
    ELSE "executed"

Once == INSTANCE OnceOnly WITH
            Commands <- CommandIDs,
            phase <- [c \in CommandIDs |-> Phase(c)],
            produced <- [c \in CommandIDs |-> effect[c].outcome],
            answer <- [c \in CommandIDs |-> ledger[c].outcome]

\* The ledger implements the promise made by OnceOnly.
ImplementsOnceOnly == Once!Spec
=============================================================================
