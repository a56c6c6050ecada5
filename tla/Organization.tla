---------------------------- MODULE Organization ----------------------------
(***************************************************************************)
(* EmployeeStore and the Commands on it: hire, rename, ID repair, the sync *)
(* of Workspace State, and workspace.setup, which hires the starters as    *)
(* child Commands.                                                         *)
(*                                                                         *)
(* Employee Markdown is canonical: its file name is the name.  Workspace   *)
(* State, the references of Projects and Identity History are projections  *)
(* written after it, one file at a time and under one lock file.  Any      *)
(* write may fail, before it took effect or after (only the sync of the    *)
(* directory failed); any Command may die between two writes, and flock    *)
(* frees the lock.  Nobody repairs what a Command left half done but a     *)
(* later Command.                                                          *)
(***************************************************************************)
EXTENDS Identity

CONSTANTS Commands,      \* Command IDs: each is executed once (CommandLedger)
          Requests,      \* the hires, renames and syncs that are asked for
          Starters,      \* the candidates of workspace.setup, a sequence
          Organizations, \* the inventories there may be at the start
          ManagerName,   \* who the Workspace Manager is
          Seconds,       \* instants, as the names of intent files show them
          NoFile,        \* no Employee Markdown of that name
          NoCommand      \* the lock is free

\* Employee Markdown; who is hired; references and rows are told by ID and name.
Files == [id : Ids, role : Roles, heading : Names]

Candidates == [id : Ids, name : Names, role : Roles]

ASSUME OrganizationAssumption ==
    /\ Starters \in Seq(Candidates)
    /\ Requests \subseteq [kind : {"hire"}, id : Ids, name : Names, role : Roles]
                          \cup [kind : {"rename"}, id : Ids, old : Names, new : Names, at : Seconds]
                          \cup [kind : {"sync"}]
    /\ \A org \in Organizations :
          /\ DOMAIN org \subseteq Names
          /\ \A n \in DOMAIN org : org[n] \in [id : Ids, role : Roles]
    /\ ManagerName \in Names
    /\ NoFile \notin Files
    /\ NoCommand \notin Commands

VARIABLES
    layout,   \* whether the managed directories and Workspace State exist
    files,    \* Employee Markdown by name: [id, role, heading] or NoFile
    rows,     \* Workspace Manager table: a set of [id, name, work]
    refs,     \* structured references of Projects: a set of [id, name]
    identityHistory,   \* the renames Identity History tells of
    intents,  \* names of the intent files
    organizationLock,  \* who holds .workspace-os-organization.lock
    cmd,      \* where each Command is and what it holds
    ledger,   \* <<Command, 0 or the ID of the starter hired>> to its record
    effects   \* history: which keys of the ledger changed a document

documents == <<layout, files, rows, refs, identityHistory, intents>>
organizationVars == <<documents, organizationLock, cmd, ledger, effects>>

-----------------------------------------------------------------------------
(* What the loader reads *)

Pairs(set) == {[id |-> x.id, name |-> x.name] : x \in set}

\* LoadOrganizationInventory: Employees from their files, Managers from the
\* MGR- rows of Workspace State.
InventoryOf(fs, rs) ==
    {[id |-> fs[n].id, name |-> n, type |-> "employee", role |-> fs[n].role] :
        n \in {m \in Names : fs[m] # NoFile}}
    \cup {[id |-> r.id, name |-> r.name, type |-> "manager", role |-> NoRole] :
             r \in {x \in rs : x.id = ManagerId}}

Inventory == InventoryOf(files, rows)

Manager == [id |-> ManagerId, name |-> ManagerName, work |-> "idle"]

\* Mutation: a row is kept when its ID is still an Employee's.
ProjectedById ==
    {r \in rows : r.id = ManagerId \/ \E n \in Names : files[n] # NoFile /\ files[n].id = r.id}
    \cup {[id |-> files[n].id, name |-> n, work |-> "idle"] :
             n \in {m \in Names : files[m] # NoFile /\ files[m].id \notin {r.id : r \in rows}}}

\* What syncWorkspaceState writes: the MGR- rows as they are, a row for each
\* Employee, with the work of the row of that ID and that name.
Projected ==
    {r \in rows : r.id = ManagerId}
    \cup {[id |-> files[n].id, name |-> n,
           work |-> IF \E r \in rows : r.id = files[n].id /\ r.name = n
                      THEN (CHOOSE r \in rows : r.id = files[n].id /\ r.name = n).work
                      ELSE "idle"] : n \in {m \in Names : files[m] # NoFile}}

-----------------------------------------------------------------------------
(* Plans *)

\* PlanHire.
HirePlanned(candidate) ==
    /\ layout
    /\ candidate.id \notin IdsOf(Inventory)
    /\ Allowed(candidate.name, NamesOf(Inventory))

\* PlanWorkspaceStateSync.
SyncPlanned == layout /\ ValidInventory(Inventory)

\* Whom a repair is about, as a document tells of an Employee.
Whose(r) == [id |-> r.current, name |-> r.name]

RepairOf(repairs, name) == CHOOSE r \in repairs : r.name = name

\* updateStructuredRename and updateStructuredIDRepair: where the ID and the
\* name stand together.
RefRenamed(r, x) == IF x = [id |-> r.id, name |-> r.old] THEN [x EXCEPT !.name = r.new] ELSE x

RefRepaired(repairs, x) ==
    IF \E r \in repairs : x = Whose(r) THEN [x EXCEPT !.id = RepairOf(repairs, x.name).proposed] ELSE x

RefsRenamed(r) == {RefRenamed(r, x) : x \in refs}

RefsRepaired(repairs) == {RefRepaired(repairs, x) : x \in refs}

\* PlanRename: "already_applied".
AlreadyRenamed(r, fs, rs) ==
    /\ NamesOf(Unique(InventoryOf(fs, rs), r.id)) = {r.new}
    /\ fs[r.old] = NoFile

\* PlanRename: "ready".  updateWorkspaceRename wants one row of that ID, and
\* the old name in it.
RenameReady(r, fs, rs) ==
    LET identities == InventoryOf(fs, rs) IN
    /\ r.old # r.new
    /\ NamesOf(Unique(identities, r.id)) = {r.old}
    /\ fs[r.new] = NoFile
    /\ Allowed(r.new, NamesOf({i \in identities : i.id # r.id}))
    /\ {x.name : x \in {y \in rs : y.id = r.id}} = {r.old}

FilesRenamed(r, fs) == [fs EXCEPT ![r.new] = fs[r.old], ![r.old] = NoFile]

RowsRenamed(r, rs) == {IF x.id = r.id THEN [x EXCEPT !.name = r.new] ELSE x : x \in rs}

\* The contents PlanRename works out, and Rename writes later.
RenamePlan(r) ==
    [rows |-> RowsRenamed(r, rows), refs |-> RefsRenamed(r), history |-> identityHistory \cup {r}]

\* PlanRenameBatch: "ready".  The names together, and each rename as if alone.
BatchReady(requests) ==
    /\ layout
    /\ RenameBatchAllowed(Inventory, requests)
    /\ \A k \in DOMAIN requests :
          /\ ~AlreadyRenamed(requests[k], files, rows)
          /\ RenameReady(requests[k], files, rows)

\* PlanIDRepairs: updateWorkspaceIDs wants one row of the ID and name of each.
RepairPlanned(repairs) == layout /\ {Whose(r) : r \in repairs} \subseteq Pairs(rows)

RowsRepaired(repairs) ==
    {IF \E r \in repairs : [id |-> x.id, name |-> x.name] = Whose(r)
       THEN [x EXCEPT !.id = RepairOf(repairs, x.name).proposed] ELSE x : x \in rows}

RepairPlan(repairs) ==
    [rows |-> RowsRepaired(repairs), refs |-> RefsRepaired(repairs), history |-> identityHistory]

-----------------------------------------------------------------------------
(* Commands *)

NoRequest == [kind |-> "none"]

NoPlan == [rows |-> {}, refs |-> {}, history |-> {}]

\* A Command that was not asked for yet.  todo: starters still to be hired;
\* left: repairs still to be written; known: Employees as workspace.setup
\* inspected them.
Fresh == [pc |-> "idle", req |-> NoRequest, ok |-> TRUE, partial |-> FALSE, plan |-> NoPlan,
          todo |-> <<>>, left |-> {}, known |-> {}, effect |-> FALSE]

Active(c) == cmd[c].pc \notin {"idle", "done", "dead"}

\* Where a Command holds the lock.
Inside == {"create", "sync", "intent", "identity", "heading", "repairs",
           "rows", "refs", "history", "leave"}

\* The candidate of the hire that c executes: its own, or the next starter.
Candidate(c) == IF cmd[c].req.kind = "setup" THEN Head(cmd[c].todo) ELSE cmd[c].req

\* The record of what c is executing.
Key(c) ==
    IF cmd[c].req.kind = "setup" /\ cmd[c].pc \notin {"layout", "inspect", "candidate", "finish"}
      THEN <<c, Head(cmd[c].todo).id>> ELSE <<c, 0>>

Keys == Commands \X ({0} \cup {Starters[k].id : k \in DOMAIN Starters})

At(c, place) == cmd[c].pc = place

Go(c, place) == cmd' = [cmd EXCEPT ![c].pc = place]

\* The end of an operation, with or without error; a starter's hire has a
\* Ledger record of its own.
Ends(c, ok, partial) ==
    cmd' = [cmd EXCEPT ![c].ok = ok, ![c].partial = partial,
                       ![c].pc = IF cmd[c].req.kind = "setup" THEN "hired" ELSE "finish"]

\* Rename, Hire, RepairIDs and SyncWorkspaceState return: release runs.
Returns(c, ok, partial) == Ends(c, ok, partial) /\ organizationLock' = NoCommand

Touched(c) == effects' = effects \cup {Key(c)}

Kept == UNCHANGED documents

OrganizationInit ==
    /\ \E org \in Organizations :
          /\ files = [n \in Names |->
                        IF n \in DOMAIN org
                          THEN [id |-> org[n].id, role |-> org[n].role, heading |-> n] ELSE NoFile]
          /\ layout \in (IF DOMAIN org = {} THEN BOOLEAN ELSE {TRUE})
          /\ \E work \in {"idle", "busy"}, managers \in {{}, {Manager}} :
                rows = IF layout
                         THEN managers \cup {[id |-> org[n].id, name |-> n, work |-> work] : n \in DOMAIN org}
                         ELSE {}
          /\ refs \in {{}, {[id |-> org[n].id, name |-> n] : n \in DOMAIN org}}
    /\ identityHistory = {} /\ intents = {} /\ organizationLock = NoCommand
    /\ cmd = [c \in Commands |-> Fresh]
    /\ ledger = [k \in Keys |-> "none"]
    /\ effects = {}

\* A client asks; claimWorkspaceCommand writes the record.  The repairs a
\* repair expects are those its planning showed the operator.
Ask(c) ==
    /\ At(c, "idle")
    /\ \E r \in Requests
              \cup {[kind |-> "repair", expected |-> IDRepairPlan(Inventory), at |-> s] : s \in Seconds}
              \cup {[kind |-> "setup"]} :
          cmd' = [cmd EXCEPT ![c].req = r,
                             ![c].pc = CASE r.kind \in {"hire", "sync"} -> "check"
                                         [] r.kind = "setup" -> "layout"
                                         [] OTHER -> "enter",
                             ![c].todo = IF r.kind = "setup" THEN Starters ELSE <<>>]
    /\ ledger' = [ledger EXCEPT ![<<c, 0>>] = "running"]
    /\ Kept /\ UNCHANGED <<organizationLock, effects>>

\* PlanEmployeeHire and PlanOrganizationSync, before the lock is taken.
Check(c) ==
    /\ At(c, "check")
    /\ IF (IF cmd[c].req.kind = "sync" THEN SyncPlanned ELSE HirePlanned(Candidate(c)))
         THEN Go(c, "enter") ELSE Ends(c, FALSE, FALSE)
    /\ Kept /\ UNCHANGED <<organizationLock, ledger, effects>>

\* The lock is taken and the plan worked out again.
Enter(c) ==
    /\ At(c, "enter") /\ organizationLock = NoCommand
    /\ Kept /\ UNCHANGED <<ledger, effects>>

\* Mutation: the plan made before the lock is trusted.
EnterHireChecked(c) ==
    /\ Enter(c) /\ cmd[c].req.kind \in {"hire", "setup"}
    /\ Go(c, "create") /\ organizationLock' = c

EnterHire(c) ==
    /\ Enter(c) /\ cmd[c].req.kind \in {"hire", "setup"}
    /\ IF HirePlanned(Candidate(c))
         THEN Go(c, "create") /\ organizationLock' = c
         ELSE Returns(c, FALSE, FALSE)

EnterSync(c) ==
    /\ Enter(c) /\ cmd[c].req.kind = "sync"
    /\ IF SyncPlanned THEN Go(c, "sync") /\ organizationLock' = c ELSE Returns(c, FALSE, FALSE)

EnterRename(c) ==
    LET r == cmd[c].req IN
    /\ Enter(c) /\ r.kind = "rename"
    /\ CASE layout /\ AlreadyRenamed(r, files, rows) -> Returns(c, TRUE, FALSE)
         [] layout /\ ~AlreadyRenamed(r, files, rows) /\ RenameReady(r, files, rows) ->
               /\ cmd' = [cmd EXCEPT ![c].pc = "intent", ![c].plan = RenamePlan(r)]
               /\ organizationLock' = c
         [] OTHER -> Returns(c, FALSE, FALSE)

\* RepairIDs: the plan worked out again must be the one that was approved.
EnterRepair(c) ==
    LET r == cmd[c].req
        repairs == IDRepairPlan(Inventory)
    IN  /\ Enter(c) /\ r.kind = "repair"
        /\ CASE layout /\ repairs = {} -> Returns(c, r.expected = repairs, FALSE)
             [] RepairPlanned(repairs) /\ repairs # {} /\ r.expected = repairs ->
                   /\ cmd' = [cmd EXCEPT ![c].pc = "intent", ![c].plan = RepairPlan(repairs),
                                         ![c].left = repairs]
                   /\ organizationLock' = c
             [] OTHER -> Returns(c, FALSE, FALSE)

\* The outcomes of an atomic write: it succeeds, it fails, it takes effect and
\* fails.  A failure is partial if the Command had committed before, or (after)
\* if the write itself is what commits it.
Writes(c, change, document, place, before, after) ==
    /\ \/ change /\ Touched(c) /\ Go(c, place) /\ UNCHANGED organizationLock
       \/ UNCHANGED <<document, effects>> /\ Returns(c, FALSE, before)
       \/ change /\ Touched(c) /\ Returns(c, FALSE, after)
    /\ UNCHANGED ledger

\* Hire: atomicCreateFile is the commit of the identity.
Create(c) ==
    /\ At(c, "create")
    /\ Writes(c, files' = [files EXCEPT ![Candidate(c).name] =
                             [id |-> Candidate(c).id, role |-> Candidate(c).role,
                              heading |-> Candidate(c).name]],
              files, "sync", FALSE, TRUE)
    /\ UNCHANGED <<layout, rows, refs, identityHistory, intents>>

\* Mutation: a failed projection is a plain failure.
SyncNeverPartial(c) ==
    /\ At(c, "sync")
    /\ IF ValidInventory(Inventory)
         THEN Writes(c, rows' = Projected, rows, "leave", FALSE, FALSE)
         ELSE Returns(c, FALSE, FALSE) /\ UNCHANGED <<rows, ledger, effects>>
    /\ UNCHANGED <<layout, files, refs, identityHistory, intents>>

\* syncWorkspaceState reads and checks the inventory again.  After a hire its
\* failure is partial; organization.sync always records plain failure.
Sync(c) ==
    /\ At(c, "sync")
    /\ IF ValidInventory(Inventory)
         THEN Writes(c, rows' = Projected, rows, "leave",
                     cmd[c].req.kind # "sync", cmd[c].req.kind # "sync")
         ELSE /\ Returns(c, FALSE, cmd[c].req.kind # "sync")
              /\ UNCHANGED <<rows, ledger, effects>>
    /\ UNCHANGED <<layout, files, refs, identityHistory, intents>>

\* The name of the intent file: one per second, and Employee for a rename.
IntentPath(r) == IF r.kind = "rename" THEN <<"rename", r.at, r.id>> ELSE <<"repair", r.at, 0>>

\* MkdirAll, and an atomicCreateFile that overwrites no intent.
Intent(c) ==
    LET path == IntentPath(cmd[c].req) IN
    /\ At(c, "intent")
    /\ \/ /\ path \notin intents
          /\ Writes(c, intents' = intents \cup {path}, intents,
                    IF cmd[c].req.kind = "rename" THEN "identity" ELSE "repairs",
                    FALSE, TRUE)
       \/ /\ path \in intents
          /\ Returns(c, FALSE, FALSE)
          /\ UNCHANGED <<intents, ledger, effects>>
    /\ UNCHANGED <<layout, files, rows, refs, identityHistory>>

\* Rename: os.Rename of the file is the commit; then its directory is synced.
Identify(c) ==
    LET r == cmd[c].req IN
    /\ At(c, "identity")
    /\ Writes(c, files' = FilesRenamed(r, files), files, "heading", TRUE, TRUE)
    /\ UNCHANGED <<layout, rows, refs, identityHistory, intents>>

\* updateEmployeeRenameContent: the heading, where it shows the old name.
WriteHeading(c) ==
    LET r == cmd[c].req IN
    /\ At(c, "heading")
    /\ Writes(c, files' = [files EXCEPT ![r.new].heading = IF @ = r.old THEN r.new ELSE @],
              files, "rows", TRUE, TRUE)
    /\ UNCHANGED <<layout, rows, refs, identityHistory, intents>>

FirstLeft(c, r) ==
    \A other \in cmd[c].left : r.place <= other.place

Repaired(c, r) ==
    cmd' = [cmd EXCEPT ![c].left = @ \ {r}, ![c].pc = IF cmd[c].left = {r} THEN "rows" ELSE @]

\* Mutation: Workspace State is rewritten first.
RepairNextProjects(c) ==
    /\ At(c, "repairs")
    /\ \E r \in cmd[c].left :
          /\ FirstLeft(c, r)
          /\ files' = [files EXCEPT ![r.name].id = r.proposed]
          /\ Repaired(c, r)
    /\ rows' = cmd[c].plan.rows
    /\ Touched(c)
    /\ UNCHANGED <<organizationLock, ledger, layout, refs, identityHistory, intents>>

\* RepairIDs: Employee Markdown in the order of the plan.
RepairNext(c) ==
    /\ At(c, "repairs")
    /\ \E r \in cmd[c].left :
          LET change == files' = [files EXCEPT ![r.name].id = r.proposed] IN
          /\ FirstLeft(c, r)
          /\ \/ change /\ Touched(c) /\ Repaired(c, r) /\ UNCHANGED organizationLock
             \/ UNCHANGED <<files, effects>> /\ Returns(c, FALSE, TRUE)
             \/ change /\ Touched(c) /\ Returns(c, FALSE, TRUE)
    /\ UNCHANGED <<ledger, layout, rows, refs, identityHistory, intents>>

\* The projections, as the plan worked them out.
WriteRows(c) ==
    /\ At(c, "rows")
    /\ Writes(c, rows' = cmd[c].plan.rows, rows, "refs", TRUE, TRUE)
    /\ UNCHANGED <<layout, files, refs, identityHistory, intents>>

\* The references stand in several Project files, rewritten one after the
\* other: what `done` tells of is rewritten in some file, `left` in some not.
WriteSomeRefs(c) ==
    LET r == cmd[c].req
        Rewritten(x) == IF r.kind = "rename" THEN RefRenamed(r, x) ELSE RefRepaired(r.expected, x)
    IN  /\ At(c, "refs")
        /\ \E done, left \in SUBSET refs :
              /\ done \cup left = refs
              /\ refs' = {Rewritten(x) : x \in done} \cup left
        /\ Touched(c)
        /\ UNCHANGED <<layout, files, rows, identityHistory, intents, organizationLock, cmd, ledger>>

\* The last of them.  Files that the plan leaves as they are are not written.
WriteRefs(c) ==
    LET next == IF cmd[c].req.kind = "rename" THEN "history" ELSE "leave" IN
    /\ At(c, "refs")
    /\ IF cmd[c].plan.refs = refs
         THEN Go(c, next) /\ UNCHANGED <<refs, effects, ledger, organizationLock>>
         ELSE Writes(c, refs' = cmd[c].plan.refs, refs, next, TRUE, TRUE)
    /\ UNCHANGED <<layout, files, rows, identityHistory, intents>>

WriteHistory(c) ==
    /\ At(c, "history")
    /\ Writes(c, identityHistory' = cmd[c].plan.history, identityHistory, "leave", TRUE, TRUE)
    /\ UNCHANGED <<layout, files, rows, refs, intents>>

Leave(c) ==
    /\ At(c, "leave")
    /\ Returns(c, TRUE, FALSE)
    /\ Kept /\ UNCHANGED <<ledger, effects>>

-----------------------------------------------------------------------------
(* workspace.setup *)

\* BootstrapWorkspaceLayout: directories, then Workspace State, where missing.
\* Any step may fail, also once Workspace State is there: reading it, or
\* creating it (`created`), which reports an error and is not counted then.
Layout(c) ==
    /\ At(c, "layout")
    /\ \/ /\ layout' = TRUE
          /\ cmd' = [cmd EXCEPT ![c].pc = "inspect", ![c].effect = ~layout]
          /\ effects' = IF layout THEN effects ELSE effects \cup {Key(c)}
       \/ \E directories, created \in (IF layout THEN {FALSE} ELSE BOOLEAN) :
             /\ layout' = (layout \/ created)
             /\ cmd' = [cmd EXCEPT ![c].pc = "finish", ![c].ok = FALSE, ![c].partial = directories]
             /\ effects' = IF directories \/ created THEN effects \cup {Key(c)} ELSE effects
    /\ UNCHANGED <<files, rows, refs, identityHistory, intents, organizationLock, ledger>>

\* byID: of several Employees with one ID the last file is kept.  The reading
\* may fail.
Inspect(c) ==
    /\ At(c, "inspect")
    /\ \/ cmd' = [cmd EXCEPT ![c].pc = "candidate",
                             ![c].known = {e \in Employees(Inventory) :
                                             \A d \in Employees(Inventory) : d.id = e.id => d.name <= e.name}]
       \/ cmd' = [cmd EXCEPT ![c].pc = "finish", ![c].ok = FALSE, ![c].partial = cmd[c].effect]
    /\ Kept /\ UNCHANGED <<organizationLock, ledger, effects>>

\* A starter who exists is kept when the role agrees; one who does not is
\* hired by a child Command, claimed first.
NextStarter(c) ==
    /\ At(c, "candidate")
    /\ Kept /\ UNCHANGED <<organizationLock, effects>>
    /\ LET starter == Head(cmd[c].todo)
           existing == {e \in cmd[c].known : e.id = starter.id}
       IN  \/ /\ cmd[c].todo = <<>>
              /\ Go(c, "finish") /\ UNCHANGED ledger
           \/ /\ cmd[c].todo # <<>> /\ existing # {}
              /\ cmd' = IF \E e \in existing : e.role = starter.role
                          THEN [cmd EXCEPT ![c].todo = Tail(@)]
                          ELSE [cmd EXCEPT ![c].pc = "finish", ![c].ok = FALSE,
                                           ![c].partial = cmd[c].effect]
              /\ UNCHANGED ledger
           \/ /\ cmd[c].todo # <<>> /\ existing = {}
              /\ Go(c, "check")
              /\ ledger' = [ledger EXCEPT ![<<c, starter.id>>] = "running"]

\* The status finishDurableCommand records.
Outcome(ok, partial) == CASE ok -> "succeeded" [] ~ok /\ partial -> "partial" [] OTHER -> "failed"

\* The child's outcome is recorded, or that fails too; an error of either
\* ends the setup, partial when an earlier step took effect.
Hired(c) ==
    /\ At(c, "hired")
    /\ \E recorded \in BOOLEAN :
          /\ ledger' = IF recorded
                         THEN [ledger EXCEPT ![Key(c)] = Outcome(cmd[c].ok, cmd[c].partial)] ELSE ledger
          /\ cmd' = IF cmd[c].ok /\ recorded
                      THEN [cmd EXCEPT ![c].effect = TRUE, ![c].todo = Tail(@), ![c].pc = "candidate"]
                      ELSE [cmd EXCEPT ![c].pc = "finish", ![c].ok = FALSE, ![c].partial = cmd[c].effect]
    /\ Kept /\ UNCHANGED <<organizationLock, effects>>

-----------------------------------------------------------------------------

\* finishDurableCommand; its own write may fail and leave "running".
Finish(c) ==
    /\ At(c, "finish")
    /\ ledger' \in {ledger, [ledger EXCEPT ![<<c, 0>>] = Outcome(cmd[c].ok, cmd[c].partial)]}
    /\ cmd' = [cmd EXCEPT ![c] = [Fresh EXCEPT !.pc = "done", !.req = cmd[c].req]]
    /\ Kept /\ UNCHANGED <<organizationLock, effects>>

\* The process of c dies: flock frees what it held.
Die(c) ==
    /\ Active(c)
    /\ cmd' = [cmd EXCEPT ![c] = [Fresh EXCEPT !.pc = "dead", !.req = cmd[c].req]]
    /\ organizationLock' = IF organizationLock = c THEN NoCommand ELSE organizationLock
    /\ Kept /\ UNCHANGED <<ledger, effects>>

OrganizationNext ==
    \E c \in Commands :
        \/ Ask(c) \/ Check(c)
        \/ EnterHire(c) \/ EnterSync(c) \/ EnterRename(c) \/ EnterRepair(c)
        \/ Create(c) \/ Sync(c) \/ Intent(c) \/ Identify(c) \/ WriteHeading(c) \/ RepairNext(c)
        \/ WriteRows(c) \/ WriteSomeRefs(c) \/ WriteRefs(c) \/ WriteHistory(c) \/ Leave(c)
        \/ Layout(c) \/ Inspect(c) \/ NextStarter(c) \/ Hired(c)
        \/ Finish(c) \/ Die(c)

OrganizationSpec == OrganizationInit /\ [][OrganizationNext]_organizationVars

-----------------------------------------------------------------------------
(* Properties *)

\* The documents keep their forms, and the lock is held by a Command that is
\* inside Hire, Rename, RepairIDs or SyncWorkspaceState.
OrganizationTypeOK ==
    /\ layout \in BOOLEAN
    /\ files \in [Names -> Files \cup {NoFile}]
    /\ rows \subseteq [id : Ids \cup {ManagerId}, name : Names, work : {"idle", "busy"}]
    /\ refs \subseteq [id : Ids, name : Names]
    /\ ledger \in [Keys -> {"none", "running", "succeeded", "failed", "partial"}]
    /\ effects \subseteq Keys
    /\ \A c \in Commands :
          organizationLock = c <=> cmd[c].pc \in Inside

\* No operation, whatever runs beside it or died before it, gives the
\* organization a problem the identity audit did not report already: two
\* identities of one ID, of one name, of names that are one when normalised,
\* or of one given name (docs/IdentityPolicy.md).
NoNewIssue == [][BlockingIssues(Inventory)' \subseteq BlockingIssues(Inventory)]_organizationVars

\* A Command that is about to report success has every document it promised
\* in place, canonical and projections, whatever earlier ones left undone.
LeavesComplete ==
    \A c \in Commands : At(c, "leave") =>
        LET r == cmd[c].req IN
        CASE r.kind \in {"hire", "setup"} ->
                LET e == [id |-> Candidate(c).id, name |-> Candidate(c).name]
                IN  e \in Pairs(Employees(Inventory)) /\ e \in Pairs(rows)
          [] r.kind = "rename" ->
                /\ files[r.old] = NoFile /\ files[r.new] # NoFile
                /\ files[r.new].id = r.id /\ files[r.new].heading # r.old
                /\ {x.name : x \in {y \in rows : y.id = r.id}} = {r.new}
                /\ [id |-> r.id, name |-> r.old] \notin refs
                /\ r \in identityHistory
          [] r.kind = "repair" ->
                /\ ValidInventory(Inventory)
                /\ \A repair \in r.expected : Whose(repair) \notin Pairs(rows) \cup refs
          [] OTHER -> Pairs({x \in rows : x.id # ManagerId}) = Pairs(Employees(Inventory))

\* Workspace State, the references and the headings tell what the files do.
UpToDate ==
    /\ Pairs({x \in rows : x.id # ManagerId}) = Pairs(Employees(Inventory))
    /\ refs \subseteq Pairs(Employees(Inventory))
    /\ \A n \in Names : files[n] # NoFile => files[n].heading = n

\* While nobody works on the organization, a projection that lags behind the
\* Employee files is on record: some Command changed a document and its
\* record says partial_failure, or still running because it died.
LagIsOnRecord ==
    organizationLock = NoCommand /\ ~UpToDate =>
        \E k \in effects :
            /\ ledger[k] \in {"running", "partial"}
            /\ Active(k[1]) => ~cmd[k[1]].ok

\* However many Commands died half way, one of the two ways back is open: the
\* sync of Workspace State, or the ID repair that the duplicates ask for.
CanBeRepaired ==
    organizationLock = NoCommand /\ layout => SyncPlanned \/ RepairPlanned(IDRepairPlan(Inventory))

\* A hire, rename or ID repair that is recorded as failed, not as a partial
\* failure, changed no document.
FailedChangedNothing ==
    \A k \in Keys :
        ledger[k] = "failed" /\ (k[2] # 0 \/ cmd[k[1]].req.kind \in {"hire", "rename", "repair"})
            => k \notin effects

\* A batch of renames that is "ready" as a whole can be carried out one after
\* the other, as the CLI does: the first makes none of the others refused.
BatchIsSafe ==
    \A r, q \in {x \in Requests : x.kind = "rename"} :
        BatchReady(<<r, q>>) =>
            RenameReady(q, FilesRenamed(r, files), RowsRenamed(r, rows))

\* docs/adr/ADR-0037: a setup that fails after the layout or an Employee was
\* committed is a partial failure.
\* The code does not keep it (README, Observations).
SetupFailureIsPartial ==
    \A c \in Commands :
        cmd[c].req.kind = "setup" /\ ledger[<<c, 0>>] = "failed"
            => \A k \in effects : k[1] # c
=============================================================================
