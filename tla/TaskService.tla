----------------------------- MODULE TaskService -----------------------------
(***************************************************************************)
(* TaskService over the Vault: TaskService.Create/mutate, the TaskStore    *)
(* that keeps all Tasks of a Project in one Tasks.md behind a file lock,   *)
(* and the Audit subscriber the committed change is published to.          *)
(*                                                                         *)
(* A caller is any process that changes Tasks: an execution, a recovery,   *)
(* a revision, an operator.  A write replaces the WHOLE document, may fail *)
(* before or after the rename, and its caller may die at any point; the    *)
(* kernel then drops the lock.                                             *)
(***************************************************************************)
EXTENDS Task, FiniteSets

CONSTANTS Callers,    \* concurrent callers
          Tasks,      \* Task IDs of one Project
          NoOne       \* the lock is free

ASSUME NoOneAssumption == NoOne \notin Callers

VARIABLES doc,        \* Tasks.md: [Tasks -> TaskRecords \cup {NoTask}]
          lock,       \* holder of .tasks.lock
          pc,         \* where each caller is
          op,         \* what each caller asked for
          base,       \* the record Get returned to it
          loaded,     \* the document it loaded under the lock
          audit,      \* the Events in Audit Log.md
          reply,      \* what it was told
          history,    \* history: the record each version of each Task had
          commits     \* history: how often the caller's request was committed

serviceVars == <<doc, lock, pc, op, base, loaded, audit, reply, history, commits>>

-----------------------------------------------------------------------------
Places == {"idle", "get", "lock", "persist", "publish", "replied"}

\* An expected version of 0 means "whatever version Get returns".
Ops ==
    {o \in [kind : Changes \cup {"create"}, task : Tasks, reason : Reasons,
            expected : 0 .. MaxVersion] :
        o.expected # 0 => o.kind \in {"complete", "fail", "hold"}}

Blank == [t \in Tasks |-> NoTask]

NoReply == [kind |-> "none", task |-> NoTask]

ReplyKinds == {"none", "ok", "rejected", "conflict", "error", "publication_failed"}

\* newTaskEvent: the Event describes the record the change leads to.
EventOf(t, kind, rec) ==
    [type |-> kind, task |-> t, status |-> rec.status, version |-> rec.version]

Events ==
    [type : Changes \cup {"create"}, task : Tasks, status : Statuses, version : Versions]

\* The record a caller is about to write.
NextRecord(a) ==
    IF op[a].kind = "create" THEN NewTask
                             ELSE Changed(base[a], op[a].kind, op[a].reason)

Return(a, kind, rec) ==
    /\ pc' = [pc EXCEPT ![a] = "replied"]
    /\ reply' = [reply EXCEPT ![a] = [kind |-> kind, task |-> rec]]

Goto(a, place) ==
    /\ pc' = [pc EXCEPT ![a] = place]
    /\ UNCHANGED reply

Release == lock' = NoOne

-----------------------------------------------------------------------------
ServiceInit ==
    /\ doc = Blank
    /\ lock = NoOne
    /\ pc = [a \in Callers |-> "idle"]
    /\ op \in [Callers -> {o \in Ops : o.kind = "create"}]
    /\ base = [a \in Callers |-> NoTask]
    /\ loaded = [a \in Callers |-> Blank]
    /\ audit = {}
    /\ reply = [a \in Callers |-> NoReply]
    /\ history = [t \in Tasks |-> [v \in Versions |-> NoTask]]
    /\ commits = [a \in Callers |-> 0]

\* A call of Create, Start, Complete, Fail, Hold, Resume or one of the
\* Expected variants; an expected version is one its caller inspected.
Request(a, o) ==
    /\ pc[a] \in {"idle", "replied"}
    /\ o.expected # 0 => history[o.task][o.expected] # NoTask
    /\ op' = [op EXCEPT ![a] = o]
    /\ base' = [base EXCEPT ![a] = NoTask]
    /\ commits' = [commits EXCEPT ![a] = 0]
    /\ pc' = [pc EXCEPT ![a] = IF o.kind = "create" THEN "lock" ELSE "get"]
    /\ reply' = [reply EXCEPT ![a] = NoReply]
    /\ UNCHANGED <<doc, lock, loaded, audit, history>>

\* mutate up to Update: Get under the lock, the expected version, the change.
Get(a) ==
    LET rec == doc[op[a].task]
        accepted == /\ rec # NoTask
                    /\ op[a].expected \in {0, rec.version}
                    /\ CanChange(rec, op[a].kind)
    IN /\ pc[a] = "get"
       /\ lock = NoOne
       /\ \/ /\ accepted
             /\ rec.version < MaxVersion
             /\ base' = [base EXCEPT ![a] = rec]
             /\ Goto(a, "lock")
          \/ /\ ~accepted
             /\ Return(a, "rejected", NoTask)
             /\ UNCHANGED base
       /\ UNCHANGED <<doc, lock, op, loaded, audit, history, commits>>

\* Get, or the wait for the lock (it ends with the context), fails.
Fails(a) ==
    /\ pc[a] \in {"get", "lock"}
    /\ Return(a, "error", NoTask)
    /\ UNCHANGED <<doc, lock, op, base, loaded, audit, history, commits>>

\* Mutation: the document of the preflight, read before the lock, is used.
AcquireAfterLoad(a) ==
    /\ pc[a] = "lock"
    /\ lock = NoOne \/ loaded[a] = Blank
    /\ lock' = IF lock = NoOne THEN a ELSE lock
    /\ loaded' = [loaded EXCEPT ![a] = IF @ = Blank THEN doc ELSE @]
    /\ IF lock = NoOne THEN Goto(a, "persist") ELSE UNCHANGED <<pc, reply>>
    /\ UNCHANGED <<doc, op, base, audit, history, commits>>

\* withExclusiveLock + load: the document is read under the lock.
Acquire(a) ==
    /\ pc[a] = "lock"
    /\ lock = NoOne
    /\ lock' = a
    /\ loaded' = [loaded EXCEPT ![a] = doc]
    /\ Goto(a, "persist")
    /\ UNCHANGED <<doc, op, base, audit, history, commits>>

\* Create wants no row; Update wants the row at the version Get returned.
Unchanged(a) ==
    LET rec == loaded[a][op[a].task] IN
    IF op[a].kind = "create" THEN rec = NoTask
                             ELSE rec # NoTask /\ rec.version = base[a].version

\* ErrVersionConflict, ErrTaskAlreadyExists.
Conflict(a) ==
    /\ pc[a] = "persist"
    /\ ~Unchanged(a)
    /\ Release
    /\ loaded' = [loaded EXCEPT ![a] = Blank]
    /\ Return(a, "conflict", NoTask)
    /\ UNCHANGED <<doc, op, base, audit, history, commits>>

\* Mutation: the stored version is not compared under the lock.
PersistUnchecked(a) ==
    LET t == op[a].task
        next == NextRecord(a)
    IN /\ pc[a] = "persist"
       /\ doc' = [loaded[a] EXCEPT ![t] = next]
       /\ history' = [history EXCEPT ![t][next.version] = next]
       /\ commits' = [commits EXCEPT ![a] = @ + 1]
       /\ Release
       /\ loaded' = [loaded EXCEPT ![a] = Blank]
       /\ \/ Goto(a, "publish")
          \/ Return(a, "error", NoTask)
       /\ UNCHANGED <<op, base, audit>>

\* The whole document is replaced.  Replace may still report an error after
\* the rename: the caller is told that nothing happened and publishes nothing.
Persist(a) ==
    LET t == op[a].task
        next == NextRecord(a)
    IN /\ pc[a] = "persist"
       /\ Unchanged(a)
       /\ doc' = [loaded[a] EXCEPT ![t] = next]
       /\ history' = [history EXCEPT ![t][next.version] = next]
       /\ commits' = [commits EXCEPT ![a] = @ + 1]
       /\ Release
       /\ loaded' = [loaded EXCEPT ![a] = Blank]
       /\ \/ Goto(a, "publish")
          \/ Return(a, "error", NoTask)
       /\ UNCHANGED <<op, base, audit>>

\* Rendering or writing fails before the rename.
PersistFails(a) ==
    /\ pc[a] = "persist"
    /\ Release
    /\ loaded' = [loaded EXCEPT ![a] = Blank]
    /\ Return(a, "error", NoTask)
    /\ UNCHANGED <<doc, op, base, audit, history, commits>>

\* Mutation: the Event is built from the record Get returned.
PublishBase(a) ==
    LET t == op[a].task
        next == NextRecord(a)
        rec == IF base[a] = NoTask THEN next ELSE base[a]
    IN /\ pc[a] = "publish"
       /\ audit' = audit \cup {EventOf(t, op[a].kind, rec)}
       /\ Return(a, "ok", next)
       /\ UNCHANGED <<doc, lock, op, base, loaded, history, commits>>

\* Bus.Publish calls the Audit subscriber; the Event is appended or not, and
\* an error may be reported either way.
Publish(a) ==
    LET t == op[a].task
        next == NextRecord(a)
        published == audit \cup {EventOf(t, op[a].kind, next)}
    IN /\ pc[a] = "publish"
       /\ \/ /\ audit' = published
             /\ Return(a, "ok", next)
          \/ /\ audit' \in {audit, published}
             /\ Return(a, "publication_failed", next)
       /\ UNCHANGED <<doc, lock, op, base, loaded, history, commits>>

\* The process dies; its lock goes with it.
Crash(a) ==
    /\ pc[a] \notin {"idle", "replied"}
    /\ lock' = IF lock = a THEN NoOne ELSE lock
    /\ pc' = [pc EXCEPT ![a] = "idle"]
    /\ loaded' = [loaded EXCEPT ![a] = Blank]
    /\ base' = [base EXCEPT ![a] = NoTask]
    /\ UNCHANGED <<doc, op, audit, reply, history, commits>>

Step(a) ==
    \/ Get(a)
    \/ Fails(a)
    \/ Acquire(a)
    \/ Conflict(a)
    \/ Persist(a)
    \/ PersistFails(a)
    \/ Publish(a)

ServiceNext ==
    \E a \in Callers :
        \/ \E o \in Ops : Request(a, o)
        \/ Step(a)
        \/ Crash(a)

ServiceSpec == ServiceInit /\ [][ServiceNext]_serviceVars

-----------------------------------------------------------------------------
(* Properties *)

ServiceTypeOK ==
    /\ doc \in [Tasks -> TaskRecords \cup {NoTask}]
    /\ lock \in Callers \cup {NoOne}
    /\ pc \in [Callers -> Places]
    /\ op \in [Callers -> Ops]
    /\ base \in [Callers -> TaskRecords \cup {NoTask}]
    /\ loaded \in [Callers -> [Tasks -> TaskRecords \cup {NoTask}]]
    /\ audit \subseteq Events
    /\ reply \in [Callers -> [kind : ReplyKinds, task : TaskRecords \cup {NoTask}]]
    /\ history \in [Tasks -> [Versions -> TaskRecords \cup {NoTask}]]
    /\ commits \in [Callers -> 0 .. 1]

\* The kinds of change that can lead from one version of a Task to the next.
Explains(kind, before, after) ==
    /\ before # NoTask
    /\ CanChange(before, kind)
    /\ \E reason \in Reasons : after = Changed(before, kind, reason)

\* Every audited Event tells a change that was committed: the Task had that
\* version, with that status, and reached it by that change (TaskService
\* publishes only after the store committed).
AuditTellsHistory ==
    \A e \in audit :
        LET after == history[e.task][e.version] IN
        /\ after # NoTask
        /\ after.status = e.status
        /\ IF e.version = 1 THEN e.type = "create"
           ELSE Explains(e.type, history[e.task][e.version - 1], after)

\* A caller told of a result is told a version its Task really had and that
\* it committed itself, once; a caller told of a conflict or a rejection
\* changed nothing.
ReplyTellsCommit ==
    \A a \in Callers :
        /\ reply[a].kind \in {"ok", "publication_failed"} =>
              /\ commits[a] = 1
              /\ reply[a].task # NoTask
              /\ history[op[a].task][reply[a].task.version] = reply[a].task
        /\ reply[a].kind \in {"rejected", "conflict"} => commits[a] = 0

\* The expected version of a recovery: a change planned against one version
\* of a Task is committed on top of that version or not at all.
ExpectedVersionFenced ==
    [][\A a \in Callers :
          (commits'[a] > commits[a] /\ op[a].expected # 0)
             => doc[op[a].task].version = op[a].expected]_serviceVars

\* missingAuditFindings: the kind of Event that should be on record for a
\* Task that looks like rec.
ExpectedEvent(rec) ==
    CASE rec.status = "in_progress" /\ rec.failure # NoReason -> "fail"
      [] rec.status = "in_progress" /\ rec.failure = NoReason -> "start"
      [] rec.status = "completed"                             -> "complete"
      [] rec.status = "on_hold"                               -> "hold"
      [] rec.status = "unstarted" /\ rec.version = 1          -> "create"
      [] rec.status = "unstarted" /\ rec.version # 1          -> "resume"

\* recovery-inspect reports audit_unverifiable for Task t.
AuditUnverifiable(t) ==
    /\ doc[t] # NoTask
    /\ \A e \in audit : e.task = t => e.type # ExpectedEvent(doc[t])

Audited(t, v) == \E e \in audit : e.task = t /\ e.version = v

\* A Task all of whose changes are on record is never reported unverifiable.
NoFalseAlarm ==
    \A t \in Tasks :
        (doc[t] # NoTask /\ \A v \in 1 .. doc[t].version : Audited(t, v))
            => ~AuditUnverifiable(t)

\* docs/Recovery.md: a Task change that was saved while its Event or Audit
\* record failed is diagnosed as unverifiable.
\* The code does not keep it (README, Observations).
LostAuditDiagnosed ==
    \A t \in Tasks :
        (/\ doc[t] # NoTask
         /\ ~Audited(t, doc[t].version)
         /\ \A a \in Callers : ~(pc[a] = "publish" /\ op[a].task = t))
            => AuditUnverifiable(t)

\* The Task list behaves like independent Task state machines: no lost
\* update, no skipped version, no change outside the transition table.
Lifecycle == INSTANCE TaskLifecycle WITH tasks <- doc

ImplementsLifecycle == Lifecycle!Spec
=============================================================================
