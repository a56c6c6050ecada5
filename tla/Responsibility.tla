---------------------------- MODULE Responsibility ----------------------------
(***************************************************************************)
(* Goals, Responsibilities and their Bindings of one scope: GoalService,   *)
(* ResponsibilityService and their Vault stores, as the Commands of        *)
(* operators run them side by side, and the planning that reads them.      *)
(*                                                                         *)
(* Each of the three is a canonical JSON file with a version.  A file is   *)
(* created only where there is none, and replaced under its lock when the  *)
(* version is the one the writer expects; the Markdown page of a Goal or a *)
(* Responsibility is written after it.  A write may fail, before it took   *)
(* effect or after; a Command may die at any place, and flock frees its    *)
(* lock.                                                                   *)
(***************************************************************************)
EXTENDS Naturals

CONSTANTS Commands,         \* Command IDs: each is executed once (CommandLedger)
          Goals,            \* Goal IDs
          Responsibilities, \* Responsibility IDs
          Employees,        \* Employee IDs operators ask for
          Staff,            \* those in the inventory; an ID never leaves it
          Vacant,           \* nobody is responsible now
          Absent,           \* no such file
          NoCommand         \* the lock is free

GoalRecords == [status : {"active", "achieved", "abandoned"}, version : Nat]
Records == [status : {"active", "inactive"}, version : Nat, refs : SUBSET Goals]
Bindings == [employee : Employees \cup {Vacant}, version : Nat]

ASSUME NamesAssumption ==
    /\ Vacant \notin Employees /\ NoCommand \notin Commands
    /\ Goals \cap Responsibilities = {}
    /\ Staff \subseteq Employees
    /\ Absent \notin GoalRecords \cup Records \cup Bindings
    /\ Absent \notin {"active", "achieved", "abandoned", "inactive"}

VARIABLES
    goal,    \* Goal records: [status, version] or Absent
    record,  \* Responsibility records: [status, version, refs] or Absent
    binding, \* Bindings: [employee, version] or Absent
    page,    \* the status the Markdown page of a Goal or Responsibility shows
    lock,    \* who holds the .lock of a Goal's, Responsibility's or Binding's file
    cmd,     \* where each Command is, what it read, what it returns
    ledger   \* its record: state and result

files == <<goal, record, binding, page>>
vars == <<files, lock, cmd, ledger>>

-----------------------------------------------------------------------------
(* Records *)

Paged == Goals \cup Responsibilities

Places == {"idle", "check", "read", "create", "update", "page", "publish", "finish",
           "resolve", "generate", "over"}

\* The canonical files: a Binding is not the Record of its Responsibility.
Files == ({"goal"} \X Goals) \cup ({"record", "binding"} \X Responsibilities)

\* What operators ask for.  They state the version they saw of a Goal or
\* Responsibility that is to change; of a Binding they do not.
GoalRequests ==
    [kind : {"goal.create"}, id : Goals]
    \cup [kind : {"goal.achieve", "goal.abandon"}, id : Goals, expected : {1, 2}]

RecordRequests ==
    [kind : {"responsibility.create"}, id : Responsibilities, refs : SUBSET Goals]
    \cup [kind : {"responsibility.activate", "responsibility.deactivate"},
          id : Responsibilities, expected : {1, 2}]

BindingRequests ==
    [kind : {"responsibility.assign"}, id : Responsibilities, employee : Employees]
    \cup [kind : {"responsibility.unassign"}, id : Responsibilities]

PlanRequests == [kind : {"responsibility.plan"}, id : Responsibilities]

OnGoal(c) == cmd[c].req.kind \in {"goal.create", "goal.achieve", "goal.abandon"}

OnBinding(c) == cmd[c].req.kind \in {"responsibility.assign", "responsibility.unassign"}

OnRecord(c) ==
    cmd[c].req.kind \in {"responsibility.create", "responsibility.activate", "responsibility.deactivate"}

\* The file a Command is about, and what stands in it.
FileOf(c) ==
    <<IF OnGoal(c) THEN "goal" ELSE IF OnBinding(c) THEN "binding" ELSE "record", cmd[c].req.id>>

Stored(f) ==
    IF f[1] = "goal" THEN goal[f[2]] ELSE IF f[1] = "record" THEN record[f[2]] ELSE binding[f[2]]

\* Achieve and Abandon: from Active only.
NextGoals(current, r) ==
    IF current.status = "active"
      THEN {[status |-> IF r.kind = "goal.achieve" THEN "achieved" ELSE "abandoned",
             version |-> current.version + 1]}
      ELSE {}

\* Activate and Deactivate: a change of the status, either way.
NextRecords(current, r) ==
    LET status == IF r.kind = "responsibility.activate" THEN "active" ELSE "inactive" IN
    IF current.status # status
      THEN {[status |-> status, version |-> current.version + 1, refs |-> current.refs]} ELSE {}

\* WithEmployee: a change of the Employee, to nobody when unassigned.
NextBindings(current, r) ==
    LET employee == IF r.kind = "responsibility.assign" THEN r.employee ELSE Vacant IN
    IF current.employee # employee
      THEN {[employee |-> employee, version |-> current.version + 1]} ELSE {}

\* goal.ValidateTransition.
GoalAccepts(current, next, expected) ==
    /\ current.version = expected /\ next.version = current.version + 1
    /\ current.status = "active" /\ next.status # "active"

\* responsibility.ValidateTransition.
RecordAccepts(current, next, expected) ==
    /\ current.version = expected /\ next.version = current.version + 1
    /\ current.status # next.status /\ current.refs = next.refs

\* Mutation: the versions are not compared.
BindingAcceptsAny(current, next, expected) == current.employee # next.employee

\* ValidateBindingTransition.
BindingAccepts(current, next, expected) ==
    /\ current.version = expected /\ next.version = current.version + 1
    /\ current.employee # next.employee

-----------------------------------------------------------------------------
(* Commands *)

Standing(pc, req, read, ok, result) == [pc |-> pc, req |-> req, read |-> read, ok |-> ok, result |-> result]

Fresh == Standing("idle", [kind |-> "none"], Absent, TRUE, Absent)

Active(c) == cmd[c].pc \notin {"idle", "over"}

At(c, place) == cmd[c].pc = place

\* On to a place, with what it read and what it is to return.
Takes(c, place, read, result) ==
    cmd' = [cmd EXCEPT ![c] = Standing(place, @.req, read, @.ok, result)]

Go(c, place) == Takes(c, place, cmd[c].read, cmd[c].result)

\* The operation returns its error with an empty record.
Fails(c) == Takes(c, "finish", Absent, Absent)

\* The Command returns, or its process dies; ok is FALSE for a plan that did
\* not find its Goals.
Leaves(c, ok) == cmd' = [cmd EXCEPT ![c] = Standing("over", @.req, Absent, ok, Absent)]

\* Earlier Commands left Goals, Responsibilities and Bindings in their first
\* version, or none.
Init ==
    /\ goal \in [Goals -> {Absent, [status |-> "active", version |-> 1]}]
    /\ record \in [Responsibilities ->
                     {Absent} \cup {[status |-> "active", version |-> 1, refs |-> gs] :
                                      gs \in SUBSET {g \in Goals : goal[g] # Absent}}]
    /\ binding \in [Responsibilities -> {Absent} \cup [employee : Staff, version : {1}]]
    /\ \A r \in Responsibilities : record[r] = Absent => binding[r] = Absent
    /\ page = [d \in Paged |-> IF d \in Goals
                                 THEN IF goal[d] = Absent THEN Absent ELSE "active"
                                 ELSE IF record[d] = Absent THEN Absent ELSE "active"]
    /\ lock = [f \in Files |-> NoCommand]
    /\ cmd = [c \in Commands |-> Fresh]
    /\ ledger = [c \in Commands |-> [state |-> "none", result |-> Absent]]

\* An approved request is claimed and the stores are opened: place is where it
\* goes on, closed where it goes when they cannot be.
Claims(c, r, place, closed) ==
    /\ At(c, "idle")
    /\ \E pc \in {place, closed} : cmd' = [cmd EXCEPT ![c] = Standing(pc, r, Absent, TRUE, Absent)]
    /\ ledger' = [ledger EXCEPT ![c] = [state |-> "running", result |-> Absent]]
    /\ UNCHANGED <<files, lock>>

\* A creation that cannot open its store is recorded as failed; any other
\* Command then returns and leaves its claim running.
AskGoal(c) ==
    \E r \in GoalRequests :
        IF r.kind = "goal.create" THEN Claims(c, r, "create", "finish") ELSE Claims(c, r, "read", "over")

AskRecord(c) ==
    \E r \in RecordRequests :
        IF r.kind = "responsibility.create"
          THEN Claims(c, r, "check", "finish") ELSE Claims(c, r, "read", "over")

AskBinding(c) ==
    \E r \in BindingRequests :
        Claims(c, r, IF r.kind = "responsibility.assign" THEN "check" ELSE "read", "over")

\* verifyGoalRefsExist: each Goal is read; an error is as if it were not there.
CheckGoals(c) ==
    /\ At(c, "check") /\ OnRecord(c)
    /\ \/ /\ \A g \in cmd[c].req.refs : goal[g] # Absent
          /\ Go(c, "create")
       \/ Fails(c)
    /\ UNCHANGED <<files, lock, ledger>>

\* Mutation: the Employee is looked up where the owner is only displayed.
CheckNoEmployee(c) ==
    /\ At(c, "check") /\ OnBinding(c)
    /\ Go(c, "read") \/ Fails(c)
    /\ UNCHANGED <<files, lock, ledger>>

\* verifyEmployeeExists, in the inventory of the organization.
CheckEmployee(c) ==
    /\ At(c, "check") /\ OnBinding(c)
    /\ \/ cmd[c].req.employee \in Staff /\ Go(c, "read")
       \/ Fails(c)
    /\ UNCHANGED <<files, lock, ledger>>

\* A transition reads the file and works out what it is to become: one of
\* nexts, or nothing the record allows.
Reads(c, nexts) ==
    /\ At(c, "read")
    /\ \/ /\ Stored(FileOf(c)) # Absent /\ nexts # {}
          /\ Takes(c, "update", Stored(FileOf(c)), Absent)
       \/ Fails(c)
    /\ UNCHANGED <<files, lock, ledger>>

ReadGoal(c) == OnGoal(c) /\ Reads(c, NextGoals(goal[cmd[c].req.id], cmd[c].req))

ReadRecord(c) == OnRecord(c) /\ Reads(c, NextRecords(record[cmd[c].req.id], cmd[c].req))

\* Unassign, and Assign of a Responsibility that has a Binding.
ReadBinding(c) ==
    /\ OnBinding(c)
    /\ cmd[c].req.kind = "responsibility.assign" => record[cmd[c].req.id] # Absent
    /\ Reads(c, NextBindings(binding[cmd[c].req.id], cmd[c].req))

\* Assign: no Record is an error, no Binding is the first one.
ReadFirst(c) ==
    LET id == cmd[c].req.id IN
    /\ At(c, "read") /\ cmd[c].req.kind = "responsibility.assign"
    /\ \/ record[id] = Absent /\ Fails(c)
       \/ record[id] # Absent /\ binding[id] = Absent /\ Go(c, "create")
    /\ UNCHANGED <<files, lock, ledger>>

Replaces(f, content) ==
    /\ goal' = IF f[1] = "goal" THEN [goal EXCEPT ![f[2]] = content] ELSE goal
    /\ record' = IF f[1] = "record" THEN [record EXCEPT ![f[2]] = content] ELSE record
    /\ binding' = IF f[1] = "binding" THEN [binding EXCEPT ![f[2]] = content] ELSE binding

\* A write of the canonical file to its end: it is done, or it fails before it
\* took effect or after.
Written(c, f, content, place) ==
    /\ \/ /\ Replaces(f, content)
          /\ Takes(c, place, Absent, content)
          /\ lock' = IF At(c, "update") /\ place = "page" THEN [lock EXCEPT ![f] = c] ELSE lock
       \/ Replaces(f, content) /\ Fails(c) /\ UNCHANGED lock
       \/ Fails(c) /\ UNCHANGED <<goal, record, binding, lock>>
    /\ UNCHANGED <<page, ledger>>

\* Store.Create and CreateBinding, without the lock: only where there is none.
Creates(c, content, place) ==
    /\ At(c, "create")
    /\ IF Stored(FileOf(c)) = Absent
         THEN Written(c, FileOf(c), content, place)
         ELSE Fails(c) /\ UNCHANGED <<files, lock, ledger>>

CreateGoal(c) == OnGoal(c) /\ Creates(c, [status |-> "active", version |-> 1], "page")

CreateRecord(c) ==
    OnRecord(c) /\ Creates(c, [status |-> "active", version |-> 1, refs |-> cmd[c].req.refs], "page")

CreateBinding(c) ==
    OnBinding(c) /\ Creates(c, [employee |-> cmd[c].req.employee, version |-> 1], "publish")

\* Store.Update and UpdateBinding: under the lock the file is read again, and
\* replaced when it is as expected.  The lock is kept for the page.
Updates(c, next, accepted, place) ==
    /\ lock[FileOf(c)] = NoCommand
    /\ IF accepted THEN Written(c, FileOf(c), next, place)
                   ELSE Fails(c) /\ UNCHANGED <<files, lock, ledger>>

UpdateGoal(c) ==
    /\ At(c, "update") /\ OnGoal(c)
    /\ \E next \in NextGoals(cmd[c].read, cmd[c].req) :
          Updates(c, next, GoalAccepts(Stored(FileOf(c)), next, cmd[c].req.expected), "page")

UpdateRecord(c) ==
    /\ At(c, "update") /\ OnRecord(c)
    /\ \E next \in NextRecords(cmd[c].read, cmd[c].req) :
          Updates(c, next, RecordAccepts(Stored(FileOf(c)), next, cmd[c].req.expected), "page")

\* The version expected is the one Assign or Unassign read.
UpdateBinding(c) ==
    /\ At(c, "update") /\ OnBinding(c)
    /\ \E next \in NextBindings(cmd[c].read, cmd[c].req) :
          Updates(c, next, BindingAccepts(Stored(FileOf(c)), next, cmd[c].read.version), "publish")

\* The Markdown page is written, or not, and the lock freed.
Paints(c, status) ==
    /\ At(c, "page")
    /\ \/ /\ page' = [page EXCEPT ![cmd[c].req.id] = status]
          /\ Go(c, "publish") \/ Fails(c)
       \/ Fails(c) /\ UNCHANGED page
    /\ lock' = IF lock[FileOf(c)] = c THEN [lock EXCEPT ![FileOf(c)] = NoCommand] ELSE lock
    /\ UNCHANGED <<goal, record, binding, ledger>>

\* After a creation the page that is there already is kept: a change was
\* quicker and wrote a newer one.
PageOf(c, create) ==
    IF cmd[c].req.kind = create /\ page[cmd[c].req.id] # Absent
      THEN page[cmd[c].req.id] ELSE cmd[c].result.status

PageGoal(c) == OnGoal(c) /\ Paints(c, PageOf(c, "goal.create"))

\* Mutation: the page of a new Responsibility replaces the one that is there.
PageOver(c) == OnRecord(c) /\ Paints(c, cmd[c].result.status)

PageRecord(c) == OnRecord(c) /\ Paints(c, PageOf(c, "responsibility.create"))

\* finishDurableCommand, never as a partial failure; its own write may fail.
Finishes(c, ok) ==
    /\ ledger' \in {ledger, [ledger EXCEPT ![c] = [state |-> IF ok THEN "succeeded" ELSE "failed",
                                                   result |-> cmd[c].result]]}
    /\ Leaves(c, TRUE)
    /\ UNCHANGED <<files, lock>>

\* The Event, which nothing but the end of the caller's context keeps from
\* being delivered: then the Command fails, with the record as its result.
Publish(c) ==
    /\ At(c, "publish")
    /\ \E delivered \in BOOLEAN : Finishes(c, delivered)

Finish(c) == At(c, "finish") /\ Finishes(c, FALSE)

-----------------------------------------------------------------------------
(* GenerateResponsibilityPlan *)

\* Approved, it claims nothing.  Only an Active Responsibility is planned for.
AskPlan(c) ==
    /\ At(c, "idle")
    /\ \E r \in PlanRequests :
          cmd' = [cmd EXCEPT ![c] =
                    IF record[r.id] # Absent /\ record[r.id].status = "active"
                      THEN Standing("resolve", r, record[r.id], TRUE, Absent)
                      ELSE Standing("over", r, Absent, TRUE, Absent)]
    /\ UNCHANGED <<files, lock, ledger>>

\* Every Goal it names is read, whatever its status.
PlanResolve(c) ==
    /\ At(c, "resolve")
    /\ IF \A g \in cmd[c].read.refs : goal[g] # Absent
         THEN Go(c, "generate")
         ELSE Leaves(c, FALSE)
    /\ UNCHANGED <<files, lock, ledger>>

\* Whoever is bound, or nobody: it is only told with the plan the Provider is
\* asked for (Planning).
PlanGenerate(c) ==
    /\ At(c, "generate")
    /\ Leaves(c, TRUE)
    /\ UNCHANGED <<files, lock, ledger>>

-----------------------------------------------------------------------------

\* The process of c dies.
Die(c) ==
    /\ Active(c)
    /\ Leaves(c, TRUE)
    /\ lock' = [f \in Files |-> IF lock[f] = c THEN NoCommand ELSE lock[f]]
    /\ UNCHANGED <<files, ledger>>

Next ==
    \E c \in Commands :
        \/ AskGoal(c) \/ CreateGoal(c) \/ ReadGoal(c) \/ UpdateGoal(c) \/ PageGoal(c)
        \/ AskRecord(c) \/ CheckGoals(c) \/ CreateRecord(c)
        \/ ReadRecord(c) \/ UpdateRecord(c) \/ PageRecord(c)
        \/ AskBinding(c) \/ CheckEmployee(c) \/ ReadFirst(c) \/ CreateBinding(c)
        \/ ReadBinding(c) \/ UpdateBinding(c)
        \/ Publish(c) \/ Finish(c)
        \/ AskPlan(c) \/ PlanResolve(c) \/ PlanGenerate(c)
        \/ Die(c)

Spec == Init /\ [][Next]_vars

-----------------------------------------------------------------------------
(* Properties *)

Asked == {[kind |-> "none"]} \cup GoalRequests \cup RecordRequests \cup BindingRequests \cup PlanRequests
Contents == GoalRecords \cup Records \cup Bindings \cup {Absent}

TypeOK ==
    /\ goal \in [Goals -> GoalRecords \cup {Absent}]
    /\ record \in [Responsibilities -> Records \cup {Absent}]
    /\ binding \in [Responsibilities -> Bindings \cup {Absent}]
    /\ page \in [Paged -> {"active", "achieved", "abandoned", "inactive", Absent}]
    /\ lock \in [Files -> Commands \cup {NoCommand}]
    /\ cmd \in [Commands -> [pc : Places, req : Asked, read : Contents, ok : BOOLEAN, result : Contents]]
    /\ ledger \in [Commands -> [state : {"none", "running", "succeeded", "failed"}, result : Contents]]
    /\ \A f \in Files : lock[f] # NoCommand => At(lock[f], "page") /\ FileOf(lock[f]) = f

Told(c) == ledger[c].result # Absent

\* What a Command was told it wrote stays written until a later version
\* replaces it, and no version is told to two Commands: of two operators who
\* change the same record at once, one learns that it came too late
\* (Store.Update and UpdateBinding under the file lock, Create without it).
ToldStands ==
    \A c \in Commands : Told(c) =>
        LET now == Stored(FileOf(c)) IN
        /\ now # Absent
        /\ now.version > ledger[c].result.version \/ now = ledger[c].result
        /\ \A d \in Commands \ {c} :
              Told(d) /\ FileOf(d) = FileOf(c)
                => ledger[d].result.version # ledger[c].result.version

\* An achieved or abandoned Goal stays as it is (goal.Record.transition:
\* "both terminal, both irreversible"), though two operators end it at once.
EndedGoalStays ==
    [][\A g \in Goals :
          goal[g] # Absent /\ goal[g].status # "active" => goal'[g] = goal[g]]_vars

\* A page that is missing or shows another status than the record is explained
\* by a Command on it that is under way or was not recorded as succeeded: in
\* particular the page a creation writes late never hides a newer one.
PageLagIsOnRecord ==
    \A f \in {"goal", "record"} \X Paged : f \in Files /\ Stored(f) # Absent =>
        \/ page[f[2]] = Stored(f).status
        \/ \E c \in Commands : /\ ~At(c, "idle") /\ FileOf(c) = f
                               /\ ledger[c].state \in {"running", "failed"}

\* Every Goal a Responsibility names exists, every Employee it is bound to is
\* known, a Binding has its Record; so a plan for an Active Responsibility
\* never stops for a Goal that is not there (service.Create, Assign).
RefsResolve ==
    /\ \A r \in Responsibilities :
          /\ record[r] # Absent => \A g \in record[r].refs : goal[g] # Absent
          /\ binding[r] # Absent =>
                record[r] # Absent /\ binding[r].employee \in Staff \cup {Vacant}
    /\ \A c \in Commands :
          At(c, "over") /\ cmd[c].req.kind = "responsibility.plan" => cmd[c].ok
=============================================================================
