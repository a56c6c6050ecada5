--------------------------- MODULE TaskPlanProofs ---------------------------
(***************************************************************************)
(* Proofs about the Tasks of a Project (TaskService) and about the CEO     *)
(* Plans that become Tasks (Planning): the two share no state, and no      *)
(* definition of one part occurs in the other.                             *)
(***************************************************************************)
EXTENDS TaskService, Planning, FiniteSetTheorems, WellFoundedInduction, TLAPS

-----------------------------------------------------------------------------
(***************************************************************************)
(* Proofs about TaskService for any number of callers, Tasks and versions. *)
(*                                                                         *)
(* Two facts carry everything.  Under the lock the loaded document IS the  *)
(* document, so replacing the whole of it changes one Task only.  And the  *)
(* record a change was computed from is a version its Task really had, so  *)
(* comparing version numbers under the lock compares records.              *)
(***************************************************************************)

\* Whoever is about to replace the document holds the lock on a fresh copy.
HolderIsFresh ==
    \A a \in Callers :
        /\ lock = a <=> pc[a] = "persist"
        /\ pc[a] = "persist" => loaded[a] = doc

\* The document shows the last version of every Task, and only versions up
\* to it exist.
LatestIsShown ==
    \A t \in Tasks : \A v \in Versions :
        /\ history[t][v] # NoTask => doc[t] # NoTask /\ v <= doc[t].version
        /\ history[t][v] # NoTask => history[t][v].version = v
        /\ doc[t] # NoTask /\ doc[t].version = v => history[t][v] = doc[t]

\* A prepared change: what Get returned was a version of the Task, and the
\* change applies to it.
Prepared(a) ==
    IF op[a].kind = "create" THEN TRUE
    ELSE /\ base[a] \in TaskRecords
         /\ base[a].version < MaxVersion
         /\ op[a].expected \in {0, base[a].version}
         /\ CanChange(base[a], op[a].kind)
         /\ history[op[a].task][base[a].version] = base[a]

PreparedInFlight ==
    \A a \in Callers : pc[a] \in {"lock", "persist", "publish"} => Prepared(a)

\* A caller commits between "persist" and "publish", and answers at the end.
CommitInFlight ==
    \A a \in Callers :
        /\ pc[a] \in {"get", "lock", "persist"} => commits[a] = 0
        /\ pc[a] = "publish" =>
              /\ commits[a] = 1
              /\ history[op[a].task][NextRecord(a).version] = NextRecord(a)
        /\ reply[a].kind # "none" => pc[a] = "replied"

ServiceIInv ==
    /\ ServiceTypeOK
    /\ HolderIsFresh
    /\ LatestIsShown
    /\ PreparedInFlight
    /\ CommitInFlight
    /\ AuditTellsHistory
    /\ ReplyTellsCommit

-----------------------------------------------------------------------------
USE DEF Versions

\* A new Task and every change of one are records again, one version on.
LEMMA RecordsTyped ==
    /\ NewTask \in TaskRecords
    /\ NewTask.version = 1
    /\ \A rec \in TaskRecords, kind \in Changes, reason \in Reasons :
          rec.version < MaxVersion =>
              /\ Changed(rec, kind, reason) \in TaskRecords
              /\ Changed(rec, kind, reason).version = rec.version + 1
<1>1. NewTask \in TaskRecords /\ NewTask.version = 1
  BY MaxVersionAssumption DEF NewTask, TaskRecords, Statuses
<1>2. ASSUME NEW rec \in TaskRecords, NEW kind \in Changes, NEW reason \in Reasons,
             rec.version < MaxVersion
      PROVE  /\ Changed(rec, kind, reason) \in TaskRecords
             /\ Changed(rec, kind, reason).version = rec.version + 1
  <2>0. /\ rec.version + 1 \in Versions
        /\ rec.status \in Statuses /\ rec.hold \in Reasons \cup {NoReason}
        /\ rec.failure \in Reasons \cup {NoReason}
        /\ rec = [status |-> rec.status, version |-> rec.version,
                  hold |-> rec.hold, failure |-> rec.failure]
    BY <1>2, MaxVersionAssumption DEF TaskRecords
  <2>1. CASE kind = "fail"
    <3>1. Changed(rec, kind, reason) =
            [status |-> rec.status, version |-> rec.version + 1,
             hold |-> rec.hold, failure |-> reason]
      BY <2>0, <2>1 DEF Changed, FailedAttempt
    <3>2. QED
      BY <2>0, <3>1 DEF TaskRecords
  <2>2. CASE kind # "fail"
    <3>1. Target(kind) \in Statuses
      BY <2>2 DEF Target, Statuses, Changes
    <3>2. Changed(rec, kind, reason) =
            [status |-> Target(kind), version |-> rec.version + 1,
             hold |-> IF Target(kind) = "on_hold" THEN reason ELSE NoReason,
             failure |-> rec.failure]
      BY <2>0, <2>2 DEF Changed, Moved
    <3>3. QED
      BY <2>0, <3>1, <3>2 DEF TaskRecords
  <2>3. QED
    BY <2>1, <2>2
<1>3. QED
  BY <1>1, <1>2

\* A prepared caller is about to write a record, the successor of its base.
LEMMA PreparedTyped ==
    ASSUME ServiceTypeOK, NEW a \in Callers, Prepared(a)
    PROVE  /\ NextRecord(a) \in TaskRecords
           /\ op[a].kind = "create" => NextRecord(a) = NewTask /\ NextRecord(a).version = 1
           /\ op[a].kind # "create" => /\ op[a].kind \in Changes
                                      /\ NextRecord(a) = Changed(base[a], op[a].kind, op[a].reason)
                                      /\ NextRecord(a).version = base[a].version + 1
<1>1. op[a].kind \in Changes \cup {"create"} /\ op[a].reason \in Reasons
  BY DEF ServiceTypeOK, Ops
<1>2. QED
  BY <1>1, RecordsTyped DEF Prepared, NextRecord

\* The type invariant holds initially.
LEMMA ServiceInitHolds == ServiceInit => ServiceIInv
<1> SUFFICES ASSUME ServiceInit PROVE ServiceIInv
  OBVIOUS
<1>1. ServiceTypeOK
  BY MaxVersionAssumption DEF ServiceInit, ServiceTypeOK, Blank, Places, NoReply, ReplyKinds
<1>2. HolderIsFresh
  BY NoOneAssumption DEF ServiceInit, HolderIsFresh
<1>3. LatestIsShown
  BY DEF ServiceInit, LatestIsShown, Blank
<1>4. PreparedInFlight /\ CommitInFlight /\ AuditTellsHistory /\ ReplyTellsCommit
  BY DEF ServiceInit, PreparedInFlight, CommitInFlight, AuditTellsHistory, ReplyTellsCommit, NoReply
<1>5. QED
  BY <1>1, <1>2, <1>3, <1>4 DEF ServiceIInv

\* An answer keeps the types of a caller's place and reply.
LEMMA ReturnTyped ==
    ASSUME ServiceTypeOK, NEW a \in Callers, NEW kind \in ReplyKinds,
           NEW rec \in TaskRecords \cup {NoTask}, Return(a, kind, rec)
    PROVE  /\ pc' \in [Callers -> Places]
           /\ reply' \in [Callers -> [kind : ReplyKinds, task : TaskRecords \cup {NoTask}]]
           /\ pc'[a] = "replied"
           /\ reply'[a].kind = kind
           /\ reply'[a].task = rec
           /\ \A b \in Callers \ {a} : pc'[b] = pc[b] /\ reply'[b] = reply[b]
<1>1. [kind |-> kind, task |-> rec] \in [kind : ReplyKinds, task : TaskRecords \cup {NoTask}]
  OBVIOUS
<1>2. "replied" \in Places
  BY DEF Places
<1>3. QED
  BY <1>1, <1>2 DEF ServiceTypeOK, Return

LEMMA GotoTyped ==
    ASSUME ServiceTypeOK, NEW a \in Callers, NEW place \in Places, Goto(a, place)
    PROVE  /\ pc' \in [Callers -> Places]
           /\ pc'[a] = place
           /\ \A b \in Callers \ {a} : pc'[b] = pc[b]
  BY DEF ServiceTypeOK, Goto

-----------------------------------------------------------------------------
(* Steps that write neither the document nor the Audit Log *)

\* Only the caller's own state changes: what the others rely on stays.
LEMMA QuietStep ==
    ASSUME ServiceIInv, NEW a \in Callers,
           UNCHANGED <<doc, audit, history>>,
           \A b \in Callers \ {a} :
               /\ pc'[b] = pc[b]
               /\ op'[b] = op[b]
               /\ base'[b] = base[b]
               /\ commits'[b] = commits[b]
               /\ reply'[b] = reply[b]
               /\ loaded'[b] = loaded[b],
           pc'[a] \in {"lock", "persist", "publish"} => Prepared(a)',
           pc'[a] \in {"get", "lock", "persist"} => commits'[a] = 0,
           pc'[a] # "publish",
           reply'[a].kind # "none" => pc'[a] = "replied",
           reply'[a].kind \notin {"ok", "publication_failed"},
           reply'[a].kind \in {"rejected", "conflict"} => commits'[a] = 0
    PROVE  /\ LatestIsShown'
           /\ PreparedInFlight'
           /\ CommitInFlight'
           /\ AuditTellsHistory'
           /\ ReplyTellsCommit'
<1>1. LatestIsShown' /\ AuditTellsHistory'
  BY DEF ServiceIInv, LatestIsShown, AuditTellsHistory
<1>2. ASSUME NEW b \in Callers, b # a
      PROVE  (Prepared(b)' <=> Prepared(b)) /\ NextRecord(b)' = NextRecord(b)
  BY <1>2 DEF Prepared, NextRecord
<1>3. PreparedInFlight'
  BY <1>2 DEF ServiceIInv, PreparedInFlight
<1>4. ASSUME NEW b \in Callers, b # a
      PROVE  /\ pc'[b] \in {"get", "lock", "persist"} => commits'[b] = 0
             /\ pc'[b] = "publish" =>
                  /\ commits'[b] = 1
                  /\ history'[op'[b].task][NextRecord(b)'.version] = NextRecord(b)'
             /\ reply'[b].kind # "none" => pc'[b] = "replied"
  <2>1. NextRecord(b)' = NextRecord(b)
    BY <1>2, <1>4
  <2>2. QED
    BY <1>4, <2>1 DEF ServiceIInv, CommitInFlight
<1>5. CommitInFlight'
  BY <1>4 DEF CommitInFlight
<1>6. ReplyTellsCommit'
  BY DEF ServiceIInv, ReplyTellsCommit
<1>7. QED
  BY <1>1, <1>3, <1>5, <1>6

LEMMA RequestStep ==
    ASSUME ServiceIInv, NEW a \in Callers, NEW o \in Ops, Request(a, o)
    PROVE  ServiceIInv'
<1>1. ServiceTypeOK'
  BY DEF ServiceIInv, Request, ServiceTypeOK, Places, NoReply, ReplyKinds
<1>2. /\ pc'[a] \in {"get", "lock"} /\ commits'[a] = 0 /\ op'[a] = o
      /\ reply'[a].kind = "none"
      /\ pc'[a] = "lock" => o.kind = "create"
      /\ pc[a] \in {"idle", "replied"}
      /\ \A b \in Callers \ {a} :
            /\ pc'[b] = pc[b] /\ op'[b] = op[b] /\ base'[b] = base[b]
            /\ commits'[b] = commits[b] /\ reply'[b] = reply[b] /\ loaded'[b] = loaded[b]
  BY DEF ServiceIInv, ServiceTypeOK, Request, NoReply
<1>3. HolderIsFresh'
  BY <1>2 DEF ServiceIInv, HolderIsFresh, Request
<1>4. pc'[a] = "lock" => Prepared(a)'
  BY <1>2 DEF Prepared
<1>5. UNCHANGED <<doc, audit, history>>
  BY DEF Request
<1>6. QED
  BY <1>1, <1>2, <1>3, <1>4, <1>5, QuietStep DEF ServiceIInv

LEMMA GetStep ==
    ASSUME ServiceIInv, NEW a \in Callers, Get(a)
    PROVE  ServiceIInv'
<1> DEFINE rec == doc[op[a].task]
<1>0. /\ op[a] \in Ops /\ op[a].task \in Tasks /\ rec \in TaskRecords \cup {NoTask}
      /\ pc[a] = "get" /\ commits[a] = 0 /\ reply[a].kind = "none"
  BY DEF ServiceIInv, ServiceTypeOK, Ops, Get, CommitInFlight
<1>1. CASE /\ rec # NoTask /\ op[a].expected \in {0, rec.version}
           /\ CanChange(rec, op[a].kind) /\ rec.version < MaxVersion
           /\ base' = [base EXCEPT ![a] = rec] /\ Goto(a, "lock")
  <2>1. /\ pc' \in [Callers -> Places] /\ pc'[a] = "lock" /\ reply' = reply
        /\ \A b \in Callers \ {a} : pc'[b] = pc[b]
    BY <1>1, GotoTyped DEF ServiceIInv, Places, Goto
  <2>2. base'[a] = rec /\ \A b \in Callers \ {a} : base'[b] = base[b]
    BY <1>1 DEF ServiceIInv, ServiceTypeOK
  <2>3. ServiceTypeOK'
    BY <1>0, <1>1, <2>1 DEF ServiceIInv, ServiceTypeOK, Get
  <2>4. HolderIsFresh'
    BY <1>0, <2>1 DEF ServiceIInv, HolderIsFresh, Get
  <2>5. history[op[a].task][rec.version] = rec
    BY <1>0, <1>1 DEF ServiceIInv, LatestIsShown, TaskRecords
  <2>6. Prepared(a)'
    BY <1>0, <1>1, <2>2, <2>5 DEF Prepared, Get
  <2>7. UNCHANGED <<doc, audit, history, op, commits, loaded>>
    BY DEF Get
  <2>8. QED
    BY <1>0, <2>1, <2>2, <2>3, <2>4, <2>6, <2>7, QuietStep DEF ServiceIInv
<1>2. CASE Return(a, "rejected", NoTask) /\ UNCHANGED base
  <2>1. /\ pc' \in [Callers -> Places]
        /\ reply' \in [Callers -> [kind : ReplyKinds, task : TaskRecords \cup {NoTask}]]
        /\ pc'[a] = "replied" /\ reply'[a].kind = "rejected"
        /\ \A b \in Callers \ {a} : pc'[b] = pc[b] /\ reply'[b] = reply[b]
    BY <1>2, ReturnTyped DEF ServiceIInv, ReplyKinds
  <2>2. UNCHANGED <<doc, audit, history, op, commits, loaded, lock>>
    BY DEF Get
  <2>3. ServiceTypeOK'
    BY <1>2, <2>1, <2>2 DEF ServiceIInv, ServiceTypeOK
  <2>4. HolderIsFresh'
    BY <1>0, <2>1, <2>2 DEF ServiceIInv, HolderIsFresh
  <2>5. QED
    BY <1>0, <1>2, <2>1, <2>2, <2>3, <2>4, QuietStep DEF ServiceIInv
<1>3. QED
  BY <1>1, <1>2 DEF Get

LEMMA FailsStep ==
    ASSUME ServiceIInv, NEW a \in Callers, Fails(a)
    PROVE  ServiceIInv'
<1>1. /\ pc' \in [Callers -> Places]
      /\ reply' \in [Callers -> [kind : ReplyKinds, task : TaskRecords \cup {NoTask}]]
      /\ pc'[a] = "replied" /\ reply'[a].kind = "error"
      /\ \A b \in Callers \ {a} : pc'[b] = pc[b] /\ reply'[b] = reply[b]
  BY ReturnTyped DEF ServiceIInv, ReplyKinds, Fails
<1>2. UNCHANGED <<doc, audit, history, op, base, commits, loaded, lock>> /\ pc[a] # "persist"
  BY DEF Fails
<1>3. ServiceTypeOK'
  BY <1>1, <1>2 DEF ServiceIInv, ServiceTypeOK
<1>4. HolderIsFresh'
  BY <1>1, <1>2 DEF ServiceIInv, HolderIsFresh
<1>5. QED
  BY <1>1, <1>2, <1>3, <1>4, QuietStep DEF ServiceIInv

LEMMA AcquireStep ==
    ASSUME ServiceIInv, NEW a \in Callers, Acquire(a)
    PROVE  ServiceIInv'
<1>1. /\ pc' \in [Callers -> Places] /\ pc'[a] = "persist" /\ reply' = reply
      /\ \A b \in Callers \ {a} : pc'[b] = pc[b]
  BY GotoTyped DEF ServiceIInv, Places, Acquire, Goto
<1>2. /\ UNCHANGED <<doc, audit, history, op, base, commits>>
      /\ pc[a] = "lock" /\ lock = NoOne /\ lock' = a
      /\ loaded'[a] = doc
      /\ \A b \in Callers \ {a} : loaded'[b] = loaded[b]
  BY DEF Acquire, ServiceIInv, ServiceTypeOK
<1>3. ServiceTypeOK'
  BY <1>1, <1>2 DEF ServiceIInv, ServiceTypeOK, Acquire
<1>4. HolderIsFresh'
  BY <1>1, <1>2, NoOneAssumption DEF ServiceIInv, HolderIsFresh
<1>5. Prepared(a) /\ (Prepared(a)' <=> Prepared(a)) /\ commits[a] = 0 /\ reply[a].kind = "none"
  BY <1>2 DEF ServiceIInv, PreparedInFlight, CommitInFlight, Prepared
<1>6. QED
  BY <1>1, <1>2, <1>3, <1>4, <1>5, QuietStep DEF ServiceIInv

\* A holder that gives up: conflict or failed write.
LEMMA GiveUpStep ==
    ASSUME ServiceIInv, NEW a \in Callers, Conflict(a) \/ PersistFails(a)
    PROVE  ServiceIInv'
<1> DEFINE kind == reply'[a].kind
<1>1. /\ pc' \in [Callers -> Places]
      /\ reply' \in [Callers -> [kind : ReplyKinds, task : TaskRecords \cup {NoTask}]]
      /\ pc'[a] = "replied" /\ kind \in {"conflict", "error"}
      /\ \A b \in Callers \ {a} : pc'[b] = pc[b] /\ reply'[b] = reply[b]
  <2>1. CASE Conflict(a)
    BY <2>1, ReturnTyped DEF ServiceIInv, ReplyKinds, Conflict
  <2>2. CASE PersistFails(a)
    BY <2>2, ReturnTyped DEF ServiceIInv, ReplyKinds, PersistFails
  <2>3. QED
    BY <2>1, <2>2
<1>2. /\ UNCHANGED <<doc, audit, history, op, base, commits>>
      /\ pc[a] = "persist" /\ lock' = NoOne
      /\ loaded' = [loaded EXCEPT ![a] = Blank]
      /\ \A b \in Callers \ {a} : loaded'[b] = loaded[b]
  BY DEF Conflict, PersistFails, Release, ServiceIInv, ServiceTypeOK
<1>3. ServiceTypeOK'
  BY <1>1, <1>2 DEF ServiceIInv, ServiceTypeOK, Blank
<1>4. HolderIsFresh'
  BY <1>1, <1>2, NoOneAssumption DEF ServiceIInv, HolderIsFresh
<1>5. commits[a] = 0
  BY <1>2 DEF ServiceIInv, CommitInFlight
<1>6. QED
  BY <1>1, <1>2, <1>3, <1>4, <1>5, QuietStep DEF ServiceIInv

LEMMA CrashStep ==
    ASSUME ServiceIInv, NEW a \in Callers, Crash(a)
    PROVE  ServiceIInv'
<1>1. /\ UNCHANGED <<doc, audit, history, op, commits, reply>>
      /\ pc[a] \notin {"idle", "replied"} /\ pc'[a] = "idle"
      /\ lock' = IF lock = a THEN NoOne ELSE lock
      /\ loaded' = [loaded EXCEPT ![a] = Blank]
      /\ \A b \in Callers \ {a} : pc'[b] = pc[b] /\ loaded'[b] = loaded[b] /\ base'[b] = base[b]
  BY DEF Crash, ServiceIInv, ServiceTypeOK
<1>2. ServiceTypeOK'
  BY DEF Crash, ServiceIInv, ServiceTypeOK, Blank, Places
<1>3. HolderIsFresh'
  BY <1>1, NoOneAssumption DEF ServiceIInv, HolderIsFresh
<1>4. reply[a].kind = "none"
  BY <1>1 DEF ServiceIInv, CommitInFlight
<1>5. QED
  BY <1>1, <1>2, <1>3, <1>4, QuietStep DEF ServiceIInv

-----------------------------------------------------------------------------
(* The steps that write *)

\* A prepared write under the lock: it goes on top of the shown version, the
\* version it creates did not exist, and the rest of the document stays.
LEMMA PersistWrites ==
    ASSUME ServiceIInv, NEW a \in Callers, Persist(a)
    PROVE  LET t == op[a].task
               next == NextRecord(a)
           IN /\ t \in Tasks
              /\ next \in TaskRecords
              /\ next.version \in Versions
              /\ doc' = [doc EXCEPT ![t] = next]
              /\ history' = [history EXCEPT ![t][next.version] = next]
              /\ history[t][next.version] = NoTask
              /\ op[a].kind = "create" => doc[t] = NoTask /\ next = NewTask
              /\ op[a].kind # "create" =>
                    /\ doc[t] = base[a] /\ doc[t] \in TaskRecords
                    /\ doc[t].version < MaxVersion
                    /\ op[a].kind \in Changes
                    /\ op[a].expected \in {0, doc[t].version}
                    /\ CanChange(doc[t], op[a].kind)
                    /\ next = Changed(doc[t], op[a].kind, op[a].reason)
                    /\ next.version = doc[t].version + 1
<1> DEFINE t == op[a].task
           next == NextRecord(a)
<1>1. /\ t \in Tasks /\ pc[a] = "persist" /\ loaded[a] = doc /\ Prepared(a)
      /\ doc[t] \in TaskRecords \cup {NoTask}
  BY DEF ServiceIInv, ServiceTypeOK, Ops, Persist, HolderIsFresh, PreparedInFlight
<1>2. /\ next \in TaskRecords
      /\ op[a].kind = "create" => next = NewTask /\ next.version = 1
      /\ op[a].kind # "create" => /\ op[a].kind \in Changes
                                 /\ next = Changed(base[a], op[a].kind, op[a].reason)
                                 /\ next.version = base[a].version + 1
  BY <1>1, PreparedTyped DEF ServiceIInv
<1>3. next.version \in Versions
  BY <1>2 DEF TaskRecords
<1>4. /\ doc' = [doc EXCEPT ![t] = next]
      /\ history' = [history EXCEPT ![t][next.version] = next]
      /\ Unchanged(a)
  BY <1>1 DEF Persist
<1>5. CASE op[a].kind = "create"
  <2>1. doc[t] = NoTask
    BY <1>1, <1>4, <1>5 DEF Unchanged
  <2>2. history[t][next.version] = NoTask
    BY <1>1, <1>3, <2>1 DEF ServiceIInv, LatestIsShown
  <2>3. QED
    BY <1>1, <1>2, <1>3, <1>4, <1>5, <2>1, <2>2
<1>6. CASE op[a].kind # "create"
  <2>1. /\ doc[t] # NoTask /\ doc[t].version = base[a].version
        /\ doc[t] \in TaskRecords
    BY <1>1, <1>4, <1>6 DEF Unchanged
  <2>2. doc[t].version \in Versions
    BY <2>1 DEF TaskRecords
  <2>3. history[t][doc[t].version] = doc[t]
    BY <1>1, <2>1, <2>2 DEF ServiceIInv, LatestIsShown
  <2>4. doc[t] = base[a]
    BY <1>1, <1>6, <2>1, <2>3 DEF Prepared
  <2>5. ~(next.version <= doc[t].version)
    BY <1>2, <1>6, <2>1, <2>2, MaxVersionAssumption
  <2>6. history[t][next.version] = NoTask
    BY <1>1, <1>3, <2>5 DEF ServiceIInv, LatestIsShown
  <2>7. QED
    BY <1>1, <1>2, <1>3, <1>4, <1>6, <2>1, <2>4, <2>6 DEF Prepared
<1>7. QED
  BY <1>5, <1>6

LEMMA PersistStep ==
    ASSUME ServiceIInv, NEW a \in Callers, Persist(a)
    PROVE  ServiceIInv'
<1> DEFINE t == op[a].task
           next == NextRecord(a)
<1>1. /\ t \in Tasks /\ next \in TaskRecords /\ next.version \in Versions
      /\ doc' = [doc EXCEPT ![t] = next]
      /\ history' = [history EXCEPT ![t][next.version] = next]
      /\ history[t][next.version] = NoTask
      /\ op[a].kind = "create" => doc[t] = NoTask /\ next = NewTask
      /\ op[a].kind # "create" =>
            doc[t] \in TaskRecords /\ next.version = doc[t].version + 1
  BY PersistWrites
<1>2. /\ UNCHANGED <<op, base, audit>>
      /\ pc[a] = "persist" /\ lock' = NoOne
      /\ commits' = [commits EXCEPT ![a] = @ + 1] /\ commits[a] = 0
      /\ loaded' = [loaded EXCEPT ![a] = Blank]
      /\ reply[a].kind = "none" /\ Prepared(a)
  BY DEF Persist, Release, ServiceIInv, CommitInFlight, PreparedInFlight
<1>3. /\ pc' \in [Callers -> Places]
      /\ reply' \in [Callers -> [kind : ReplyKinds, task : TaskRecords \cup {NoTask}]]
      /\ \/ pc'[a] = "publish" /\ reply'[a].kind = "none"
         \/ pc'[a] = "replied" /\ reply'[a].kind = "error"
      /\ \A b \in Callers \ {a} : pc'[b] = pc[b] /\ reply'[b] = reply[b]
  <2>1. CASE Goto(a, "publish")
    <3>1. reply' = reply /\ reply \in [Callers -> [kind : ReplyKinds, task : TaskRecords \cup {NoTask}]]
      BY <2>1 DEF Goto, ServiceIInv, ServiceTypeOK
    <3>2. QED
      BY <1>2, <2>1, <3>1, GotoTyped DEF ServiceIInv, Places
  <2>2. CASE Return(a, "error", NoTask)
    BY <2>2, ReturnTyped DEF ServiceIInv, ReplyKinds
  <2>3. QED
    BY <2>1, <2>2 DEF Persist
<1>4. /\ commits' \in [Callers -> 0 .. 1] /\ commits'[a] = 1
      /\ \A b \in Callers \ {a} : commits'[b] = commits[b]
  BY <1>2 DEF ServiceIInv, ServiceTypeOK
<1>5. /\ \A u \in Tasks, v \in Versions :
            history'[u][v] = IF u = t /\ v = next.version THEN next ELSE history[u][v]
      /\ history' \in [Tasks -> [Versions -> TaskRecords \cup {NoTask}]]
  BY <1>1 DEF ServiceIInv, ServiceTypeOK
<1>6. \A u \in Tasks, v \in Versions :
          history[u][v] # NoTask => history'[u][v] = history[u][v]
  BY <1>1, <1>5
<1>7. ServiceTypeOK'
  BY <1>1, <1>2, <1>3, <1>4, <1>5 DEF ServiceIInv, ServiceTypeOK, Blank
<1>8. HolderIsFresh'
  BY <1>2, <1>3, NoOneAssumption DEF ServiceIInv, HolderIsFresh
<1>9. LatestIsShown'
  <2> SUFFICES ASSUME NEW u \in Tasks, NEW v \in Versions
               PROVE  /\ history'[u][v] # NoTask => doc'[u] # NoTask /\ v <= doc'[u].version
                      /\ history'[u][v] # NoTask => history'[u][v].version = v
                      /\ doc'[u] # NoTask /\ doc'[u].version = v => history'[u][v] = doc'[u]
    BY DEF LatestIsShown
  <2>1. /\ history[u][v] # NoTask => doc[u] # NoTask /\ v <= doc[u].version
        /\ history[u][v] # NoTask => history[u][v].version = v
        /\ doc[u] # NoTask /\ doc[u].version = v => history[u][v] = doc[u]
    BY DEF ServiceIInv, LatestIsShown
  <2>2. CASE u # t
    <3>1. doc'[u] = doc[u] /\ history'[u][v] = history[u][v]
      BY <1>1, <1>5, <2>2 DEF ServiceIInv, ServiceTypeOK
    <3>2. QED
      BY <2>1, <3>1
  <2>3. CASE u = t
    <3>1. doc'[u] = next /\ next # NoTask
      BY <1>1, <2>3, NoTaskAssumption DEF ServiceIInv, ServiceTypeOK
    <3>2. CASE v = next.version
      BY <1>1, <1>5, <2>3, <3>1, <3>2
    <3>3. CASE v # next.version
      <4>1. history'[u][v] = history[u][v]
        BY <1>5, <3>3
      <4>2. history[u][v] # NoTask => v <= next.version
        BY <1>1, <2>1, <2>3, MaxVersionAssumption DEF ServiceIInv, ServiceTypeOK, Ops, TaskRecords
      <4>3. QED
        BY <2>1, <3>1, <3>3, <4>1, <4>2
    <3>4. QED
      BY <3>2, <3>3
  <2>4. QED
    BY <2>2, <2>3
<1>10. ASSUME NEW b \in Callers
       PROVE  /\ NextRecord(b)' = NextRecord(b)
              /\ Prepared(b) => Prepared(b)'
  <2>1. NextRecord(b)' = NextRecord(b)
    BY <1>2 DEF NextRecord
  <2>2. ASSUME Prepared(b), op[b].kind # "create" PROVE Prepared(b)'
    <3>1. /\ base[b] \in TaskRecords /\ base[b].version \in Versions
          /\ op[b].task \in Tasks
          /\ history[op[b].task][base[b].version] = base[b]
      BY <2>2 DEF Prepared, TaskRecords, ServiceIInv, ServiceTypeOK, Ops
    <3>2. history'[op[b].task][base[b].version] = base[b]
      BY <1>6, <3>1, NoTaskAssumption
    <3>3. QED
      BY <1>2, <2>2, <3>2 DEF Prepared
  <2>3. QED
    BY <1>2, <2>1, <2>2 DEF Prepared
<1>11. PreparedInFlight'
  BY <1>2, <1>3, <1>10 DEF ServiceIInv, PreparedInFlight
<1>12. ASSUME NEW b \in Callers, b # a, pc[b] = "publish"
       PROVE  /\ commits'[b] = 1
              /\ history'[op[b].task][NextRecord(b).version] = NextRecord(b)
  <2>1. /\ Prepared(b) /\ commits[b] = 1 /\ op[b].task \in Tasks
        /\ history[op[b].task][NextRecord(b).version] = NextRecord(b)
    BY <1>12 DEF ServiceIInv, PreparedInFlight, CommitInFlight, ServiceTypeOK, Ops
  <2>2. NextRecord(b) \in TaskRecords /\ NextRecord(b).version \in Versions
    BY <2>1, PreparedTyped DEF ServiceIInv, TaskRecords
  <2>3. QED
    BY <1>4, <1>6, <1>12, <2>1, <2>2, NoTaskAssumption
<1>13. CommitInFlight'
  <2> SUFFICES ASSUME NEW b \in Callers
               PROVE  /\ pc'[b] \in {"get", "lock", "persist"} => commits'[b] = 0
                      /\ pc'[b] = "publish" =>
                            /\ commits'[b] = 1
                            /\ history'[op'[b].task][NextRecord(b)'.version] = NextRecord(b)'
                      /\ reply'[b].kind # "none" => pc'[b] = "replied"
    BY DEF CommitInFlight
  <2>1. CASE b = a
    BY <1>1, <1>2, <1>3, <1>4, <1>5, <1>10, <2>1
  <2>2. CASE b # a
    BY <1>2, <1>3, <1>4, <1>10, <1>12, <2>2 DEF ServiceIInv, CommitInFlight
  <2>3. QED
    BY <2>1, <2>2
<1>14. AuditTellsHistory'
  <2> SUFFICES ASSUME NEW e \in audit
               PROVE  /\ history'[e.task][e.version] # NoTask
                      /\ history'[e.task][e.version].status = e.status
                      /\ IF e.version = 1 THEN e.type = "create"
                         ELSE Explains(e.type, history'[e.task][e.version - 1],
                                       history'[e.task][e.version])
    BY <1>2 DEF AuditTellsHistory, Explains
  <2>1. e.task \in Tasks /\ e.version \in Versions
    BY DEF ServiceIInv, ServiceTypeOK, Events
  <2>2. /\ history[e.task][e.version] # NoTask
        /\ history[e.task][e.version].status = e.status
        /\ IF e.version = 1 THEN e.type = "create"
           ELSE Explains(e.type, history[e.task][e.version - 1], history[e.task][e.version])
    BY DEF ServiceIInv, AuditTellsHistory
  <2>3. history'[e.task][e.version] = history[e.task][e.version]
    BY <1>6, <2>1, <2>2
  <2>4. CASE e.version # 1
    <3>1. /\ e.version - 1 \in Versions
          /\ Explains(e.type, history[e.task][e.version - 1], history[e.task][e.version])
      BY <2>1, <2>2, <2>4, MaxVersionAssumption
    <3>2. history[e.task][e.version - 1] # NoTask
      BY <3>1 DEF Explains
    <3>3. history'[e.task][e.version - 1] = history[e.task][e.version - 1]
      BY <1>6, <2>1, <3>1, <3>2
    <3>4. QED
      BY <2>2, <2>3, <2>4, <3>3
  <2>5. QED
    BY <2>2, <2>3, <2>4
<1>15. ReplyTellsCommit'
  <2> SUFFICES ASSUME NEW b \in Callers
               PROVE  /\ reply'[b].kind \in {"ok", "publication_failed"} =>
                            /\ commits'[b] = 1
                            /\ reply'[b].task # NoTask
                            /\ history'[op[b].task][reply'[b].task.version] = reply'[b].task
                      /\ reply'[b].kind \in {"rejected", "conflict"} => commits'[b] = 0
    BY <1>2 DEF ReplyTellsCommit
  <2>1. CASE b = a
    BY <1>3, <2>1
  <2>2. CASE b # a
    <3>1. reply'[b] = reply[b] /\ commits'[b] = commits[b] /\ op[b].task \in Tasks
      BY <1>3, <1>4, <2>2 DEF ServiceIInv, ServiceTypeOK, Ops
    <3>2. /\ reply[b].kind \in {"ok", "publication_failed"} =>
                /\ commits[b] = 1
                /\ reply[b].task # NoTask
                /\ reply[b].task \in TaskRecords
                /\ reply[b].task.version \in Versions
                /\ history[op[b].task][reply[b].task.version] = reply[b].task
          /\ reply[b].kind \in {"rejected", "conflict"} => commits[b] = 0
      BY DEF ServiceIInv, ReplyTellsCommit, ServiceTypeOK, TaskRecords
    <3>3. QED
      BY <1>6, <3>1, <3>2
  <2>3. QED
    BY <2>1, <2>2
<1>16. QED
  BY <1>7, <1>8, <1>9, <1>11, <1>13, <1>14, <1>15 DEF ServiceIInv

LEMMA PublishStep ==
    ASSUME ServiceIInv, NEW a \in Callers, Publish(a)
    PROVE  ServiceIInv'
<1> DEFINE t == op[a].task
           next == NextRecord(a)
           e == EventOf(t, op[a].kind, next)
<1>1. /\ pc[a] = "publish" /\ Prepared(a) /\ t \in Tasks
      /\ op[a].kind \in Changes \cup {"create"} /\ op[a].reason \in Reasons
      /\ commits[a] = 1 /\ history[t][next.version] = next
  BY DEF Publish, ServiceIInv, PreparedInFlight, CommitInFlight, ServiceTypeOK, Ops
<1>2. /\ next \in TaskRecords /\ next.version \in Versions /\ next.status \in Statuses
      /\ op[a].kind = "create" => next = NewTask /\ next.version = 1
      /\ op[a].kind # "create" => /\ op[a].kind \in Changes
                                 /\ next = Changed(base[a], op[a].kind, op[a].reason)
                                 /\ next.version = base[a].version + 1
  BY <1>1, PreparedTyped DEF ServiceIInv, TaskRecords
<1>3. /\ UNCHANGED <<doc, lock, op, base, loaded, history, commits>>
      /\ audit' \subseteq audit \cup {e}
      /\ \/ Return(a, "ok", next)
         \/ Return(a, "publication_failed", next)
  BY DEF Publish
<1>4. /\ pc' \in [Callers -> Places]
      /\ reply' \in [Callers -> [kind : ReplyKinds, task : TaskRecords \cup {NoTask}]]
      /\ pc'[a] = "replied" /\ reply'[a].kind \in {"ok", "publication_failed"}
      /\ reply'[a].task = next
      /\ \A b \in Callers \ {a} : pc'[b] = pc[b] /\ reply'[b] = reply[b]
  <2>1. CASE Return(a, "ok", next)
    BY <1>2, <2>1, ReturnTyped DEF ServiceIInv, ReplyKinds
  <2>2. CASE Return(a, "publication_failed", next)
    BY <1>2, <2>2, ReturnTyped DEF ServiceIInv, ReplyKinds
  <2>3. QED
    BY <1>3, <2>1, <2>2
<1>5. e \in Events
  BY <1>1, <1>2 DEF EventOf, Events
<1>6. ServiceTypeOK'
  BY <1>3, <1>4, <1>5 DEF ServiceIInv, ServiceTypeOK
<1>7. HolderIsFresh'
  BY <1>1, <1>3, <1>4 DEF ServiceIInv, HolderIsFresh
<1>8. LatestIsShown'
  BY <1>3 DEF ServiceIInv, LatestIsShown
<1>9. \A b \in Callers : (Prepared(b)' <=> Prepared(b)) /\ NextRecord(b)' = NextRecord(b)
  BY <1>3 DEF Prepared, NextRecord
<1>10. PreparedInFlight'
  BY <1>4, <1>9 DEF ServiceIInv, PreparedInFlight
<1>11. CommitInFlight'
  <2> SUFFICES ASSUME NEW b \in Callers
               PROVE  /\ pc'[b] \in {"get", "lock", "persist"} => commits[b] = 0
                      /\ pc'[b] = "publish" =>
                            /\ commits[b] = 1
                            /\ history[op[b].task][NextRecord(b).version] = NextRecord(b)
                      /\ reply'[b].kind # "none" => pc'[b] = "replied"
    BY <1>3, <1>9 DEF CommitInFlight
  <2>1. QED
    BY <1>4 DEF ServiceIInv, CommitInFlight
<1>12. /\ history[e.task][e.version] # NoTask
       /\ history[e.task][e.version].status = e.status
       /\ IF e.version = 1 THEN e.type = "create"
          ELSE Explains(e.type, history[e.task][e.version - 1], history[e.task][e.version])
  <2>1. /\ e.type = op[a].kind /\ e.task = t /\ e.status = next.status
        /\ e.version = next.version
    BY DEF EventOf
  <2>2. next # NoTask
    BY <1>2, NoTaskAssumption
  <2>3. CASE op[a].kind = "create"
    BY <1>1, <1>2, <2>1, <2>2, <2>3
  <2>4. CASE op[a].kind # "create"
    <3>1. /\ base[a] \in TaskRecords /\ base[a] # NoTask /\ base[a].version \in Versions
          /\ CanChange(base[a], op[a].kind)
          /\ history[t][base[a].version] = base[a]
      BY <1>1, <2>4, NoTaskAssumption DEF Prepared, TaskRecords
    <3>2. e.version # 1 /\ e.version - 1 = base[a].version
      BY <1>2, <2>1, <2>4, <3>1, MaxVersionAssumption
    <3>3. Explains(op[a].kind, base[a], next)
      BY <1>1, <1>2, <2>4, <3>1 DEF Explains
    <3>4. QED
      BY <1>1, <2>1, <2>2, <3>1, <3>2, <3>3
  <2>5. QED
    BY <2>3, <2>4
<1>13. AuditTellsHistory'
  <2>1. ASSUME NEW f \in audit'
        PROVE  /\ history[f.task][f.version] # NoTask
               /\ history[f.task][f.version].status = f.status
               /\ IF f.version = 1 THEN f.type = "create"
                  ELSE Explains(f.type, history[f.task][f.version - 1], history[f.task][f.version])
    <3>1. CASE f = e
      BY <1>12, <3>1
    <3>2. CASE f # e
      BY <1>3, <3>2 DEF ServiceIInv, AuditTellsHistory
    <3>3. QED
      BY <3>1, <3>2
  <2>2. QED
    BY <1>3, <2>1 DEF AuditTellsHistory, Explains
<1>14. ReplyTellsCommit'
  <2> SUFFICES ASSUME NEW b \in Callers
               PROVE  /\ reply'[b].kind \in {"ok", "publication_failed"} =>
                            /\ commits[b] = 1
                            /\ reply'[b].task # NoTask
                            /\ history[op[b].task][reply'[b].task.version] = reply'[b].task
                      /\ reply'[b].kind \in {"rejected", "conflict"} => commits[b] = 0
    BY <1>3 DEF ReplyTellsCommit
  <2>1. CASE b = a
    BY <1>1, <1>2, <1>4, <2>1, NoTaskAssumption
  <2>2. CASE b # a
    BY <1>4, <2>2 DEF ServiceIInv, ReplyTellsCommit
  <2>3. QED
    BY <2>1, <2>2
<1>15. QED
  BY <1>6, <1>7, <1>8, <1>10, <1>11, <1>13, <1>14 DEF ServiceIInv

LEMMA InvariantStep == ServiceIInv /\ [ServiceNext]_serviceVars => ServiceIInv'
<1> SUFFICES ASSUME ServiceIInv, [ServiceNext]_serviceVars PROVE ServiceIInv'
  OBVIOUS
<1>1. ASSUME NEW a \in Callers, NEW o \in Ops, Request(a, o) PROVE ServiceIInv'
  BY <1>1, RequestStep
<1>2. ASSUME NEW a \in Callers, Step(a) PROVE ServiceIInv'
  BY <1>2, GetStep, FailsStep, AcquireStep, GiveUpStep, PersistStep, PublishStep DEF Step
<1>3. ASSUME NEW a \in Callers, Crash(a) PROVE ServiceIInv'
  BY <1>3, CrashStep
<1>4. CASE UNCHANGED serviceVars
  <2>1. \A a \in Callers : (Prepared(a)' <=> Prepared(a)) /\ NextRecord(a)' = NextRecord(a)
    BY <1>4 DEF serviceVars, Prepared, NextRecord
  <2>2. PreparedInFlight' /\ CommitInFlight'
    BY <1>4, <2>1 DEF serviceVars, ServiceIInv, PreparedInFlight, CommitInFlight
  <2>3. ServiceTypeOK' /\ HolderIsFresh' /\ LatestIsShown'
    BY <1>4 DEF serviceVars, ServiceIInv, ServiceTypeOK, HolderIsFresh, LatestIsShown
  <2>4. AuditTellsHistory' /\ ReplyTellsCommit'
    BY <1>4 DEF serviceVars, ServiceIInv, AuditTellsHistory, Explains, ReplyTellsCommit
  <2>5. QED
    BY <2>2, <2>3, <2>4 DEF ServiceIInv
<1>5. QED
  BY <1>1, <1>2, <1>3, <1>4 DEF ServiceNext

-----------------------------------------------------------------------------
\* The inductive invariant holds in every reachable state.
THEOREM Invariance == ServiceSpec => []ServiceIInv
  BY ServiceInitHolds, InvariantStep, PTL DEF ServiceSpec

\* Every reachable state has the types of ServiceTypeOK.
THEOREM ServiceTypeCorrect == ServiceSpec => []ServiceTypeOK
<1>1. ServiceIInv => ServiceTypeOK
  BY DEF ServiceIInv
<1>2. QED
  BY <1>1, Invariance, PTL

\* The Audit Log tells only changes that were committed (TaskService.mutate
\* publishes after the store has committed, and what it committed).
THEOREM AuditFaithful == ServiceSpec => []AuditTellsHistory
<1>1. ServiceIInv => AuditTellsHistory
  BY DEF ServiceIInv
<1>2. QED
  BY <1>1, Invariance, PTL

\* A caller told of a committed Task committed that version itself, once; a
\* caller told of a conflict or a rejection changed nothing.
THEOREM ReplyFaithful == ServiceSpec => []ReplyTellsCommit
<1>1. ServiceIInv => ReplyTellsCommit
  BY DEF ServiceIInv
<1>2. QED
  BY <1>1, Invariance, PTL

-----------------------------------------------------------------------------
\* Only Persist commits: every other step leaves the document, its history
\* and the commit counts as they are or resets a count.
LEMMA CommitFootprint ==
    ASSUME ServiceIInv, [ServiceNext]_serviceVars
    PROVE  \/ \E a \in Callers : Persist(a)
           \/ /\ UNCHANGED <<doc, history>>
              /\ \A b \in Callers : commits'[b] \in {0, commits[b]}
<1>1. ASSUME NEW a \in Callers, NEW o \in Ops, Request(a, o)
      PROVE  UNCHANGED <<doc, history>> /\ \A b \in Callers : commits'[b] \in {0, commits[b]}
  BY <1>1 DEF Request, ServiceIInv, ServiceTypeOK
<1>2. ASSUME NEW a \in Callers, Step(a), ~Persist(a)
      PROVE  UNCHANGED <<doc, history, commits>>
  BY <1>2 DEF Step, Get, Fails, Acquire, Conflict, PersistFails, Publish
<1>3. ASSUME NEW a \in Callers, Crash(a)
      PROVE  UNCHANGED <<doc, history, commits>>
  BY <1>3 DEF Crash
<1>4. CASE UNCHANGED serviceVars
  BY <1>4 DEF serviceVars
<1>5. QED
  BY <1>1, <1>2, <1>3, <1>4 DEF ServiceNext

LEMMA FencedStep ==
    ASSUME ServiceIInv, [ServiceNext]_serviceVars, NEW b \in Callers,
           commits'[b] > commits[b], op[b].expected # 0
    PROVE  doc[op[b].task].version = op[b].expected
<1>1. commits[b] \in 0 .. 1
  BY DEF ServiceIInv, ServiceTypeOK
<1>2. PICK a \in Callers : Persist(a)
  BY <1>1, CommitFootprint
<1>3. a = b
  BY <1>1, <1>2 DEF Persist, ServiceIInv, ServiceTypeOK
<1>4. op[b].kind # "create"
  BY DEF ServiceIInv, ServiceTypeOK, Ops
<1>5. op[b].expected \in {0, doc[op[b].task].version}
  BY <1>2, <1>3, <1>4, PersistWrites
<1>6. QED
  BY <1>5

\* CompleteExpected, FailExpected and HoldExpected commit on top of the
\* version they were planned against, or not at all.
THEOREM ExpectedFenced == ServiceSpec => ExpectedVersionFenced
<1>1. ServiceIInv /\ [ServiceNext]_serviceVars =>
        [\A a \in Callers :
            (commits'[a] > commits[a] /\ op[a].expected # 0)
               => doc[op[a].task].version = op[a].expected]_serviceVars
  BY FencedStep
<1>2. QED
  BY <1>1, Invariance, PTL DEF ServiceSpec, ExpectedVersionFenced

-----------------------------------------------------------------------------
\* The instance reads Task's operators the same way.
LEMMA SameTask ==
    /\ Lifecycle!NewTask = NewTask
    /\ Lifecycle!Versions = Versions
    /\ Lifecycle!Changes = Changes
    /\ \A rec, kind : Lifecycle!CanChange(rec, kind) <=> CanChange(rec, kind)
    /\ \A rec, kind, reason : Lifecycle!Changed(rec, kind, reason) = Changed(rec, kind, reason)
<1>1. /\ Lifecycle!NewTask = NewTask /\ Lifecycle!Versions = Versions
      /\ Lifecycle!Changes = Changes
  BY DEF Lifecycle!NewTask, NewTask, Lifecycle!Versions, Lifecycle!Changes, Changes
<1>2. \A rec, kind : Lifecycle!CanChange(rec, kind) <=> CanChange(rec, kind)
  BY DEF Lifecycle!CanChange, CanChange, Lifecycle!Transitions, Transitions,
         Lifecycle!Target, Target
<1>3. \A rec, kind, reason : Lifecycle!Changed(rec, kind, reason) = Changed(rec, kind, reason)
  BY DEF Lifecycle!Changed, Changed, Lifecycle!FailedAttempt, FailedAttempt,
         Lifecycle!Moved, Moved, Lifecycle!Target, Target
<1>4. QED
  BY <1>1, <1>2, <1>3

LEMMA LifecycleInit == ServiceInit => Lifecycle!Init
  BY SameTask DEF ServiceInit, Lifecycle!Init, Blank

LEMMA LifecycleStep ==
    ASSUME ServiceIInv, [ServiceNext]_serviceVars
    PROVE  [Lifecycle!Next]_(Lifecycle!vars)
<1>1. ASSUME NEW a \in Callers, Persist(a) PROVE Lifecycle!Next
  <2> DEFINE t == op[a].task
             next == NextRecord(a)
  <2>1. /\ t \in Tasks
        /\ next \in TaskRecords
        /\ doc' = [doc EXCEPT ![t] = next]
        /\ history' = [history EXCEPT ![t][next.version] = next]
        /\ op[a].kind = "create" => doc[t] = NoTask /\ next = NewTask
        /\ op[a].kind # "create" =>
              /\ doc[t] \in TaskRecords
              /\ doc[t].version < MaxVersion
              /\ op[a].kind \in Changes
              /\ CanChange(doc[t], op[a].kind)
              /\ next = Changed(doc[t], op[a].kind, op[a].reason)
    BY <1>1, PersistWrites
  <2>2. CASE op[a].kind = "create"
    <3>1. Lifecycle!Create(t)
      BY <2>1, <2>2, SameTask DEF Lifecycle!Create, Lifecycle!Commit
    <3>2. QED
      BY <2>1, <3>1 DEF Lifecycle!Next
  <2>3. CASE op[a].kind # "create"
    <3>1. op[a].reason \in Reasons
      BY DEF ServiceIInv, ServiceTypeOK, Ops
    <3>2. Lifecycle!Change(t, op[a].kind, op[a].reason)
      BY <2>1, <2>3, NoTaskAssumption, SameTask DEF Lifecycle!Change, Lifecycle!Commit
    <3>3. QED
      BY <2>1, <2>3, <3>1, <3>2, SameTask DEF Lifecycle!Next
  <2>4. QED
    BY <2>2, <2>3
<1>2. CASE UNCHANGED <<doc, history>>
  BY <1>2 DEF Lifecycle!vars
<1>3. QED
  BY <1>1, <1>2, CommitFootprint

\* Tasks.md behaves like independent Task state machines: TaskService with
\* its locks, failing writes and crashes implements TaskLifecycle.
THEOREM ServiceImplementsLifecycle == ServiceSpec => ImplementsLifecycle
<1>1. ServiceSpec => Lifecycle!Init
  BY LifecycleInit DEF ServiceSpec
<1>2. ServiceIInv /\ [ServiceNext]_serviceVars => [Lifecycle!Next]_(Lifecycle!vars)
  BY LifecycleStep
<1>3. QED
  BY <1>1, <1>2, Invariance, PTL DEF ServiceSpec, ImplementsLifecycle, Lifecycle!Spec

-----------------------------------------------------------------------------
(***************************************************************************)
(* Proofs about Planning for any Employees, Intents, answers and Plans.    *)
(*                                                                         *)
(* Applying a Plan resolves every Task once more, by the role and the ID   *)
(* that the first resolution gave it.  What the proofs rest on is what     *)
(* this second resolution may say of somebody who is there: the same, or   *)
(* nobody, and the latter only if the role has another holder by now.      *)
(*                                                                         *)
(* That a generated Plan stands also needs what the two folds of the       *)
(* normalization build: a list of Tasks from a list of steps, and a list   *)
(* of roles that a second pass over the same Tasks leaves as it is.  That  *)
(* its Tasks can be worked off is a fact of any graph without a cycle.     *)
(***************************************************************************)

-----------------------------------------------------------------------------
(* Resolve, of a role and of a role with its holder.                       *)

\* Sets of Employees with one member.
LEMMA OnlyOne ==
    ASSUME NEW S, IsFiniteSet(S), S # {}, ~(Cardinality(S) > 1)
    PROVE  \E e : S = {e}
<1>1. Cardinality(S) \in Nat /\ Cardinality(S) # 0
  BY FS_CardinalityType, FS_EmptySet
<1>2. Cardinality(S) = 1
  BY <1>1
<1>3. QED
  BY <1>2, FS_Singleton

People == [id : Employees, role : Roles]

\* A role that is resolved without a name has one holder, and that is who it
\* is resolved to.
LEMMA ResolvedHasOneHolder ==
    ASSUME NEW employees \in SUBSET People, IsFiniteSet(employees), NEW role,
           Resolve(role, Nobody, employees).status = "resolved"
    PROVE  \E e \in employees : /\ Resolve(role, Nobody, employees) =
                                     [status |-> "resolved", role |-> e.role, id |-> e.id]
                                /\ Holders(e.role, employees) = {e}
<1> DEFINE holders == Holders(role, employees)
           only == CHOOSE e \in holders : TRUE
<1>1. /\ role # "" /\ holders # {} /\ ~(Cardinality(holders) > 1)
      /\ Resolve(role, Nobody, employees) = [status |-> "resolved", role |-> only.role, id |-> only.id]
  BY DEF Resolve
<1>2. IsFiniteSet(holders)
  BY FS_Subset DEF Holders
<1>3. PICK e : holders = {e}
  BY <1>1, <1>2, OnlyOne
<1>4. only = e /\ e \in employees
  BY <1>3 DEF Holders
<1>5. Holders(e.role, employees) = {e}
  BY <1>3 DEF Holders
<1>6. QED
  BY <1>1, <1>4, <1>5

\* Somebody's role and ID, resolved where nobody shares the ID: to the same if
\* nobody shares the role, and otherwise to the role alone.
LEMMA ResolveHolder ==
    ASSUME NEW employees \in SUBSET People, IsFiniteSet(employees), Indexed(employees),
           NEW e \in employees
    PROVE  LET found == Resolve(e.role, e.id, employees) IN
             \/ Holders(e.role, employees) = {e} /\ found = [status |-> "resolved", role |-> e.role, id |-> e.id]
             \/ /\ Cardinality(Holders(e.role, employees)) > 1
                /\ found = [status |-> "ambiguous", role |-> e.role, id |-> Nobody]
<1> DEFINE holders == Holders(e.role, employees)
           named == {f \in employees : f.id = e.id}
<1>1. e.id \in Employees /\ e.id # Nobody /\ e.role # ""
  BY PlanningAssumption DEF People
<1>2. named = {e}
  BY DEF Indexed
<1>3. (CHOOSE f \in named : TRUE).role = e.role
  BY <1>2
<1>4. e \in holders /\ IsFiniteSet(holders)
  BY FS_Subset DEF Holders
<1>5. CASE Cardinality(holders) > 1
  <2>1. Resolve(e.role, e.id, employees) = [status |-> "ambiguous", role |-> e.role, id |-> Nobody]
    BY <1>1, <1>2, <1>3, <1>4, <1>5 DEF Resolve
  <2>2. QED
    BY <2>1, <1>5
<1>6. CASE ~(Cardinality(holders) > 1)
  <2>1. holders = {e}
    BY <1>4, <1>6, OnlyOne
  <2>2. (CHOOSE f \in holders : TRUE) = e
    BY <2>1
  <2>3. Resolve(e.role, e.id, employees) = [status |-> "resolved", role |-> e.role, id |-> e.id]
    BY <1>1, <1>2, <1>3, <1>6, <2>1, <2>2 DEF Resolve
  <2>4. QED
    BY <2>1, <2>3
<1>7. QED
  BY <1>5, <1>6

\* What a Task that names this role and this Employee may be given: the same
\* role, and nobody else; nobody only if the role has a second holder.
Kept(role, proposed, found, employees) ==
    /\ role # "" => Fold[found.role] = Fold[role]
    /\ found.id # Nobody => /\ proposed \in {Nobody, found.id}
                            /\ \E e \in Holders(found.role, employees) : e.id = found.id
    /\ (found.id = Nobody /\ proposed # Nobody) => Cardinality(Holders(found.role, employees)) > 1

LEMMA ResolveKeeps ==
    ASSUME NEW employees \in SUBSET People, IsFiniteSet(employees), Indexed(employees),
           NEW role, NEW proposed, Resolve(role, proposed, employees).status # "error"
    PROVE  Kept(role, proposed, Resolve(role, proposed, employees), employees)
<1> DEFINE found == Resolve(role, proposed, employees)
<1>1. CASE proposed # Nobody
  <2> DEFINE named == {e \in employees : e.id = proposed}
  <2>1. named # {}
    <3>1. named = {} => found.status = "error"
      BY <1>1 DEF Resolve
    <3>2. QED
      BY <3>1
  <2>2. PICK e \in employees : e.id = proposed
    BY <2>1
  <2>3. named = {e} /\ (CHOOSE f \in named : TRUE) = e
    BY <2>2 DEF Indexed
  <2>4. role # "" => Fold[e.role] = Fold[role]
    BY <1>1, <2>1, <2>3 DEF Resolve
  <2>5. found = Resolve(e.role, e.id, employees)
    BY <1>1, <2>1, <2>2, <2>3, <2>4 DEF Resolve
  <2>6. \/ Holders(e.role, employees) = {e} /\ found = [status |-> "resolved", role |-> e.role, id |-> e.id]
        \/ /\ Cardinality(Holders(e.role, employees)) > 1
           /\ found = [status |-> "ambiguous", role |-> e.role, id |-> Nobody]
    BY <2>5, ResolveHolder
  <2> HIDE DEF found, named
  <2>7. /\ found.role = e.role
        /\ \/ found.id = e.id /\ e \in Holders(e.role, employees)
           \/ found.id = Nobody /\ Cardinality(Holders(e.role, employees)) > 1
    BY <2>6
  <2>8. Kept(role, proposed, found, employees)
    BY <1>1, <2>2, <2>4, <2>7, Zenon DEF Kept
  <2>9. QED
    BY <2>8 DEF found
<1>2. CASE proposed = Nobody
  <2>1. CASE found.status = "resolved"
    <3> DEFINE holders == Holders(role, employees)
               f == CHOOSE h \in holders : TRUE
    <3>1. PICK e \in employees : /\ found = [status |-> "resolved", role |-> e.role, id |-> e.id]
                                 /\ Holders(e.role, employees) = {e}
      BY <1>2, <2>1, ResolvedHasOneHolder
    <3>2. holders # {} /\ found.role = f.role
      BY <1>2, <2>1 DEF Resolve
    <3> HIDE DEF found
    <3>3. f \in holders
      BY <3>2, Zenon
    <3> HIDE DEF f
    <3>4. Fold[found.role] = Fold[role]
      BY <3>2, <3>3, Zenon DEF Holders
    <3>5. found.role = e.role /\ found.id = e.id
      BY <3>1
    <3>6. e \in Holders(found.role, employees)
      BY <3>1, <3>5, Zenon
    <3>7. Kept(role, proposed, found, employees)
      BY <1>2, <3>4, <3>5, <3>6, Zenon DEF Kept
    <3>8. QED
      BY <3>7 DEF found
  <2>2. CASE found.status # "resolved"
    <3>1. found.id = Nobody /\ (role # "" => found.role = role)
      BY <1>2, <2>2 DEF Resolve
    <3> HIDE DEF found
    <3>2. Kept(role, proposed, found, employees)
      BY <1>2, <3>1, Zenon DEF Kept
    <3>3. QED
      BY <3>2 DEF found
  <2>3. QED
    BY <2>1, <2>2
<1>3. QED
  BY <1>1, <1>2

\* The role and the ID that a first resolution gave a step, resolved again
\* among the same Employees.
LEMMA StepHolder ==
    ASSUME NEW employees \in SUBSET People, IsFiniteSet(employees), NEW step,
           ResolveStep(step, employees).status = "resolved"
    PROVE  \E e \in employees : /\ ResolveStep(step, employees) =
                                     [status |-> "resolved", role |-> e.role, id |-> e.id]
                                /\ Holders(e.role, employees) = {e}
<1>1. \/ ResolveStep(step, employees) = Resolve(step.role, Nobody, employees)
      \/ ResolveStep(step, employees) = Resolve(Preferred, Nobody, employees)
  BY DEF ResolveStep
<1>2. QED
  BY <1>1, ResolvedHasOneHolder

-----------------------------------------------------------------------------
(* What the folds do.  The library's FoldLeft is a function over sets of   *)
(* indices; it is shown to be the chain that takes one entry after the     *)
(* other, by a least counterexample in place of an induction.              *)

Smaller == {p \in Nat \X Nat : p[1] < p[2]}

LEMMA LeastNumber ==
    ASSUME NEW T \in SUBSET Nat, T # {}
    PROVE  \E n \in T : \A m \in T : n <= m
<1>1. IsWellFoundedOn(Smaller, Nat)
  BY NatLessThanWellFounded, Zenon DEF OpToRel, Smaller
<1>2. T \subseteq Nat
  OBVIOUS
<1>3. PICK n \in T : \A m \in T : ~(<<m, n>> \in Smaller)
  BY <1>1, <1>2, WFMin
<1>4. ASSUME NEW m \in T PROVE n <= m
  <2>1. m \in Nat /\ n \in Nat /\ <<m, n>> \in Nat \X Nat
    BY <1>2
  <2>2. ~(<<m, n>>[1] < <<m, n>>[2])
    BY <1>3, <2>1 DEF Smaller
  <2>3. QED
    BY <2>1, <2>2
<1>5. QED
  BY <1>4

\* The least of some indices.
LEMMA LeastIndex ==
    ASSUME NEW n \in Nat, NEW T \in SUBSET (0 .. n), T # {}
    PROVE  \E x \in T : \A y \in T : x <= y
<1>1. T \in SUBSET Nat
  OBVIOUS
<1>2. QED
  BY <1>1, LeastNumber

\* The greatest of some indices.
LEMMA GreatestIndex ==
    ASSUME NEW n \in Nat, NEW T \in SUBSET (1 .. n), T # {}
    PROVE  Max(T) \in T /\ \A y \in T : y <= Max(T)
<1> DEFINE Back == {n - x : x \in T}
<1>1. Back \in SUBSET (0 .. n) /\ Back # {}
  <2>1. ASSUME NEW x \in T PROVE x \in 1 .. n /\ n - x \in 0 .. n
    <3>1. x \in 1 .. n
      OBVIOUS
    <3>2. QED
      BY <3>1
  <2>2. QED
    BY <2>1
<1>2. PICK z \in Back : \A y \in Back : z <= y
  BY <1>1, LeastIndex
<1>3. PICK x \in T : z = n - x
  OBVIOUS
<1>4. ASSUME NEW y \in T PROVE x >= y
  <2>1. n - y \in Back /\ n - x \in Back
    OBVIOUS
  <2>2. n - x <= n - y
    BY <1>2, <1>3, <2>1
  <2>3. x \in 1 .. n /\ y \in 1 .. n
    OBVIOUS
  <2>4. QED
    BY <2>2, <2>3
<1>5. Max(T) \in T /\ \A y \in T : Max(T) >= y
  BY <1>4 DEF Max
<1>6. QED
  BY <1>5

LEMMA LowerPart ==
    ASSUME NEW k \in Nat, NEW A \in SUBSET (1 .. k), A # {}
    PROVE  A \ {Max(A)} \in SUBSET (1 .. (k - 1))
<1>1. Max(A) \in A /\ \A y \in A : y <= Max(A)
  BY GreatestIndex
<1>2. ASSUME NEW y \in A \ {Max(A)} PROVE y \in 1 .. (k - 1)
  <2>1. y \in 1 .. k /\ Max(A) \in 1 .. k /\ y <= Max(A) /\ y # Max(A)
    BY <1>1
  <2> DEFINE m == Max(A)
  <2>2. m \in 1 .. k /\ y <= m /\ y # m
    BY <2>1
  <2> HIDE DEF m
  <2>3. QED
    BY <2>1, <2>2
<1>3. QED
  BY <1>2

LEMMA InitialPart ==
    ASSUME NEW k \in Nat, k >= 1
    PROVE  Max(1 .. k) = k /\ (1 .. k) \ {k} = 1 .. (k - 1)
<1> DEFINE A == 1 .. k
           m == Max(A)
<1>1. A \in SUBSET (1 .. k) /\ A # {} /\ k \in A
  OBVIOUS
<1>2. m \in A /\ \A y \in A : y <= m
  BY <1>1, GreatestIndex
<1> HIDE DEF m
<1>3. m = k
  BY <1>1, <1>2
<1>4. QED
  BY <1>3 DEF m

\* A list by its length.
LEMMA ListLength ==
    ASSUME NEW s, IsList(s)
    PROVE  Len(s) \in Nat /\ DOMAIN s = 1 .. Len(s)
BY DEF IsList

LEMMA ListOf ==
    ASSUME NEW n \in Nat, NEW s, s = [i \in 1 .. n |-> s[i]]
    PROVE  IsList(s) /\ Len(s) = n
<1>1. DOMAIN s = 1 .. n
  BY Zenon
<1>2. \A i \in 1 .. n : s[i] \in Range(s)
  BY Zenon, <1>1 DEF Range
<1>3. s \in Seq(Range(s))
  BY <1>2
<1>4. QED
  BY <1>1, <1>3 DEF IsList

\* The chain of what WithStep makes of the first k entries of a sequence.
WithStepChain(b, S, g) ==
    /\ g[0] = b
    /\ \A k \in 1 .. Len(S) : g[k] = WithStep(g[k - 1], S[k])

\* The function that FoldLeft defines over the sets of indices.
WithStepIter(b, S, f) ==
    f = [A \in SUBSET (DOMAIN S) |->
            IF A = {} THEN b ELSE LET x == Max(A) IN WithStep(f[A \ {x}], S[x])]

LEMMA WithStepIterates ==
    ASSUME NEW b, NEW S, IsList(S)
    PROVE  \E f : WithStepIter(b, S, f)
<1> DEFINE Solves(k, f) == f = [A \in SUBSET (1 .. k) |->
                                  IF A = {} THEN b ELSE LET x == Max(A) IN WithStep(f[A \ {x}], S[x])]
           Wrong == {k \in 0 .. Len(S) : ~ \E f : Solves(k, f)}
<1>1. Len(S) \in Nat /\ DOMAIN S = 1 .. Len(S)
  BY DEF IsList
<1>2. SUFFICES ASSUME Wrong # {} PROVE FALSE
  <2>1. Wrong = {} => \E f : Solves(Len(S), f)
    <3> HIDE DEF Solves
    <3>1. QED
      BY <1>1
  <2>2. QED
    BY <1>1, <1>2, <2>1 DEF WithStepIter
<1>3. PICK k \in Wrong : \A y \in Wrong : k <= y
  <2> HIDE DEF Wrong
  <2>1. Wrong \subseteq 0 .. Len(S)
    BY DEF Wrong
  <2>2. QED
    BY <1>1, <1>2, <2>1, LeastIndex
<1>4. CASE k = 0
  <2>1. SUBSET (1 .. 0) = {{}}
    OBVIOUS
  <2>2. Solves(0, [A \in SUBSET (1 .. 0) |-> b])
    BY <2>1
  <2>3. QED
    BY <1>3, <1>4, <2>2
<1>5. CASE k # 0
  <2>1. k \in 1 .. Len(S) /\ k - 1 \in 0 .. Len(S) /\ ~ (k <= k - 1)
    BY <1>1, <1>5
  <2>2. k - 1 \notin Wrong
    BY <1>3, <2>1
  <2>3. PICK f : Solves(k - 1, f)
    BY <2>1, <2>2
  <2> DEFINE g == [A \in SUBSET (1 .. k) |-> IF A = {} THEN b ELSE LET x == Max(A) IN WithStep(f[A \ {x}], S[x])]
  <2>4. ASSUME NEW A \in SUBSET (1 .. k), A # {}
        PROVE  g[A \ {Max(A)}] = f[A \ {Max(A)}]
    <3>1. A \ {Max(A)} \in SUBSET (1 .. (k - 1))
      <4>1. k \in Nat
        BY <1>1, <2>1
      <4> HIDE DEF Solves, Wrong, g
      <4>2. QED
        BY <2>4, <4>1, LowerPart
    <3>2. ASSUME NEW B \in SUBSET (1 .. (k - 1)) PROVE g[B] = f[B]
      <4>1. B \in SUBSET (1 .. k)
        BY <2>1
      <4>2. g[B] = IF B = {} THEN b ELSE LET x == Max(B) IN WithStep(f[B \ {x}], S[x])
        BY <4>1
      <4>3. f[B] = IF B = {} THEN b ELSE LET x == Max(B) IN WithStep(f[B \ {x}], S[x])
        BY <2>3
      <4>4. QED
        BY <4>2, <4>3
    <3>3. QED
      BY <3>1, <3>2
  <2>5. ASSUME NEW A \in SUBSET (1 .. k)
        PROVE  g[A] = IF A = {} THEN b ELSE LET x == Max(A) IN WithStep(g[A \ {x}], S[x])
    <3>1. g[A] = IF A = {} THEN b ELSE LET x == Max(A) IN WithStep(f[A \ {x}], S[x])
      OBVIOUS
    <3> HIDE DEF g
    <3>2. QED
      BY <2>4, <3>1
  <2>6. Solves(k, g)
    <3>1. g = [A \in SUBSET (1 .. k) |-> g[A]]
      OBVIOUS
    <3> HIDE DEF g
    <3>2. [A \in SUBSET (1 .. k) |-> g[A]] =
            [A \in SUBSET (1 .. k) |-> IF A = {} THEN b ELSE LET x == Max(A) IN WithStep(g[A \ {x}], S[x])]
      BY <2>5
    <3>3. QED
      BY <3>1, <3>2
  <2>7. QED
    <3> HIDE DEF g, Solves
    <3>1. QED
      BY <1>3, <2>6
<1>6. QED
  BY <1>4, <1>5

LEMMA WithStepFolds ==
    ASSUME NEW b, NEW S, IsList(S)
    PROVE  \E F : /\ WithStepIter(b, S, F)
                  /\ FoldLeft(WithStep, b, S) = F[1 .. Len(S)]
<1> DEFINE F == CHOOSE f : WithStepIter(b, S, f)
<1>1. WithStepIter(b, S, F)
  BY WithStepIterates
<1>2. FoldLeft(WithStep, b, S) = F[1 .. Len(S)]
  <2>1. DOMAIN S = 1 .. Len(S)
    BY DEF IsList
  <2>2. FoldLeft(WithStep, b, S) = F[DOMAIN S]
    BY DEF FoldLeft, MapThenFoldSet, WithStepIter
  <2>3. QED
    BY <2>1, <2>2
<1>3. QED
  BY <1>1, <1>2

\* The fold is the end of the chain, and there is one.
LEMMA WithStepChained ==
    ASSUME NEW b, NEW S, IsList(S)
    PROVE  /\ \E g : WithStepChain(b, S, g)
           /\ \A g : WithStepChain(b, S, g) => FoldLeft(WithStep, b, S) = g[Len(S)]
<1> DEFINE n == Len(S)
<1>1. n \in Nat /\ DOMAIN S = 1 .. n
  BY DEF IsList
<1>2. PICK F : WithStepIter(b, S, F) /\ FoldLeft(WithStep, b, S) = F[1 .. n]
  BY WithStepFolds
<1>3. /\ F[1 .. 0] = b
      /\ \A k \in 1 .. n : F[1 .. k] = WithStep(F[1 .. (k - 1)], S[k])
  <2>1. ASSUME NEW A \in SUBSET (1 .. n)
        PROVE  F[A] = IF A = {} THEN b ELSE WithStep(F[A \ {Max(A)}], S[Max(A)])
    BY <1>1, <1>2 DEF WithStepIter
  <2>2. F[1 .. 0] = b
    <3>1. 1 .. 0 = {}
      OBVIOUS
    <3>2. QED
      BY <2>1, <3>1
  <2>3. ASSUME NEW k \in 1 .. n
        PROVE  F[1 .. k] = WithStep(F[1 .. (k - 1)], S[k])
    <3>1. 1 .. k # {} /\ 1 .. k \in SUBSET (1 .. n)
      BY <1>1
    <3>2. Max(1 .. k) = k /\ (1 .. k) \ {k} = 1 .. (k - 1)
      BY <1>1, InitialPart
    <3>3. QED
      BY <2>1, <3>1, <3>2
  <2>4. QED
    BY <2>2, <2>3
<1>4. \E g : WithStepChain(b, S, g)
  <2> DEFINE G == [k \in 0 .. n |-> F[1 .. k]]
  <2>1. G[0] = b
    BY <1>1, <1>3
  <2>2. ASSUME NEW k \in 1 .. n PROVE G[k] = WithStep(G[k - 1], S[k])
    <3>1. k \in 0 .. n /\ k - 1 \in 0 .. n
      BY <1>1
    <3>2. G[k] = F[1 .. k] /\ G[k - 1] = F[1 .. (k - 1)]
      BY <3>1
    <3> HIDE DEF G
    <3>3. QED
      BY <1>3, <3>2
  <2>3. WithStepChain(b, S, G)
    <3> HIDE DEF G
    <3> QED BY <2>1, <2>2 DEF WithStepChain
  <2>4. QED
    <3> HIDE DEF G
    <3> QED BY <2>3
<1>5. ASSUME NEW g, WithStepChain(b, S, g) PROVE F[1 .. n] = g[n]
  <2> DEFINE Wrong == {k \in 0 .. n : F[1 .. k] # g[k]}
  <2>1. SUFFICES ASSUME Wrong # {} PROVE FALSE
    BY <1>1
  <2>2. PICK k \in Wrong : \A y \in Wrong : k <= y
    <3>1. Wrong \subseteq 0 .. n
      OBVIOUS
    <3> HIDE DEF Wrong
    <3>2. QED
      BY <1>1, <2>1, <3>1, LeastIndex
  <2>3. k # 0
    BY <1>3, <1>5, <2>2 DEF WithStepChain
  <2>4. k \in 1 .. n /\ k - 1 \in 0 .. n /\ ~ (k <= k - 1)
    BY <1>1, <2>3
  <2>5. F[1 .. (k - 1)] = g[k - 1]
    BY <2>2, <2>4
  <2>6. QED
    BY <1>3, <1>5, <2>2, <2>4, <2>5 DEF WithStepChain
<1>6. QED
  BY <1>2, <1>4, <1>5

\* The chain of what AddRole makes of the first k entries of a sequence.
AddRoleChain(b, S, g) ==
    /\ g[0] = b
    /\ \A k \in 1 .. Len(S) : g[k] = AddRole(g[k - 1], S[k])

\* The function that FoldLeft defines over the sets of indices.
AddRoleIter(b, S, f) ==
    f = [A \in SUBSET (DOMAIN S) |->
            IF A = {} THEN b ELSE LET x == Max(A) IN AddRole(f[A \ {x}], S[x])]

LEMMA AddRoleIterates ==
    ASSUME NEW b, NEW S, IsList(S)
    PROVE  \E f : AddRoleIter(b, S, f)
<1> DEFINE Solves(k, f) == f = [A \in SUBSET (1 .. k) |->
                                  IF A = {} THEN b ELSE LET x == Max(A) IN AddRole(f[A \ {x}], S[x])]
           Wrong == {k \in 0 .. Len(S) : ~ \E f : Solves(k, f)}
<1>1. Len(S) \in Nat /\ DOMAIN S = 1 .. Len(S)
  BY DEF IsList
<1>2. SUFFICES ASSUME Wrong # {} PROVE FALSE
  <2>1. Wrong = {} => \E f : Solves(Len(S), f)
    <3> HIDE DEF Solves
    <3>1. QED
      BY <1>1
  <2>2. QED
    BY <1>1, <1>2, <2>1 DEF AddRoleIter
<1>3. PICK k \in Wrong : \A y \in Wrong : k <= y
  <2> HIDE DEF Wrong
  <2>1. Wrong \subseteq 0 .. Len(S)
    BY DEF Wrong
  <2>2. QED
    BY <1>1, <1>2, <2>1, LeastIndex
<1>4. CASE k = 0
  <2>1. SUBSET (1 .. 0) = {{}}
    OBVIOUS
  <2>2. Solves(0, [A \in SUBSET (1 .. 0) |-> b])
    BY <2>1
  <2>3. QED
    BY <1>3, <1>4, <2>2
<1>5. CASE k # 0
  <2>1. k \in 1 .. Len(S) /\ k - 1 \in 0 .. Len(S) /\ ~ (k <= k - 1)
    BY <1>1, <1>5
  <2>2. k - 1 \notin Wrong
    BY <1>3, <2>1
  <2>3. PICK f : Solves(k - 1, f)
    BY <2>1, <2>2
  <2> DEFINE g == [A \in SUBSET (1 .. k) |-> IF A = {} THEN b ELSE LET x == Max(A) IN AddRole(f[A \ {x}], S[x])]
  <2>4. ASSUME NEW A \in SUBSET (1 .. k), A # {}
        PROVE  g[A \ {Max(A)}] = f[A \ {Max(A)}]
    <3>1. A \ {Max(A)} \in SUBSET (1 .. (k - 1))
      <4>1. k \in Nat
        BY <1>1, <2>1
      <4> HIDE DEF Solves, Wrong, g
      <4>2. QED
        BY <2>4, <4>1, LowerPart
    <3>2. ASSUME NEW B \in SUBSET (1 .. (k - 1)) PROVE g[B] = f[B]
      <4>1. B \in SUBSET (1 .. k)
        BY <2>1
      <4>2. g[B] = IF B = {} THEN b ELSE LET x == Max(B) IN AddRole(f[B \ {x}], S[x])
        BY <4>1
      <4>3. f[B] = IF B = {} THEN b ELSE LET x == Max(B) IN AddRole(f[B \ {x}], S[x])
        BY <2>3
      <4>4. QED
        BY <4>2, <4>3
    <3>3. QED
      BY <3>1, <3>2
  <2>5. ASSUME NEW A \in SUBSET (1 .. k)
        PROVE  g[A] = IF A = {} THEN b ELSE LET x == Max(A) IN AddRole(g[A \ {x}], S[x])
    <3>1. g[A] = IF A = {} THEN b ELSE LET x == Max(A) IN AddRole(f[A \ {x}], S[x])
      OBVIOUS
    <3> HIDE DEF g
    <3>2. QED
      BY <2>4, <3>1
  <2>6. Solves(k, g)
    <3>1. g = [A \in SUBSET (1 .. k) |-> g[A]]
      OBVIOUS
    <3> HIDE DEF g
    <3>2. [A \in SUBSET (1 .. k) |-> g[A]] =
            [A \in SUBSET (1 .. k) |-> IF A = {} THEN b ELSE LET x == Max(A) IN AddRole(g[A \ {x}], S[x])]
      BY <2>5
    <3>3. QED
      BY <3>1, <3>2
  <2>7. QED
    <3> HIDE DEF g, Solves
    <3>1. QED
      BY <1>3, <2>6
<1>6. QED
  BY <1>4, <1>5

LEMMA AddRoleFolds ==
    ASSUME NEW b, NEW S, IsList(S)
    PROVE  \E F : /\ AddRoleIter(b, S, F)
                  /\ FoldLeft(AddRole, b, S) = F[1 .. Len(S)]
<1> DEFINE F == CHOOSE f : AddRoleIter(b, S, f)
<1>1. AddRoleIter(b, S, F)
  BY AddRoleIterates
<1>2. FoldLeft(AddRole, b, S) = F[1 .. Len(S)]
  <2>1. DOMAIN S = 1 .. Len(S)
    BY DEF IsList
  <2>2. FoldLeft(AddRole, b, S) = F[DOMAIN S]
    BY DEF FoldLeft, MapThenFoldSet, AddRoleIter
  <2>3. QED
    BY <2>1, <2>2
<1>3. QED
  BY <1>1, <1>2

\* The fold is the end of the chain, and there is one.
LEMMA AddRoleChained ==
    ASSUME NEW b, NEW S, IsList(S)
    PROVE  /\ \E g : AddRoleChain(b, S, g)
           /\ \A g : AddRoleChain(b, S, g) => FoldLeft(AddRole, b, S) = g[Len(S)]
<1> DEFINE n == Len(S)
<1>1. n \in Nat /\ DOMAIN S = 1 .. n
  BY DEF IsList
<1>2. PICK F : AddRoleIter(b, S, F) /\ FoldLeft(AddRole, b, S) = F[1 .. n]
  BY AddRoleFolds
<1>3. /\ F[1 .. 0] = b
      /\ \A k \in 1 .. n : F[1 .. k] = AddRole(F[1 .. (k - 1)], S[k])
  <2>1. ASSUME NEW A \in SUBSET (1 .. n)
        PROVE  F[A] = IF A = {} THEN b ELSE AddRole(F[A \ {Max(A)}], S[Max(A)])
    BY <1>1, <1>2 DEF AddRoleIter
  <2>2. F[1 .. 0] = b
    <3>1. 1 .. 0 = {}
      OBVIOUS
    <3>2. QED
      BY <2>1, <3>1
  <2>3. ASSUME NEW k \in 1 .. n
        PROVE  F[1 .. k] = AddRole(F[1 .. (k - 1)], S[k])
    <3>1. 1 .. k # {} /\ 1 .. k \in SUBSET (1 .. n)
      BY <1>1
    <3>2. Max(1 .. k) = k /\ (1 .. k) \ {k} = 1 .. (k - 1)
      BY <1>1, InitialPart
    <3>3. QED
      BY <2>1, <3>1, <3>2
  <2>4. QED
    BY <2>2, <2>3
<1>4. \E g : AddRoleChain(b, S, g)
  <2> DEFINE G == [k \in 0 .. n |-> F[1 .. k]]
  <2>1. G[0] = b
    BY <1>1, <1>3
  <2>2. ASSUME NEW k \in 1 .. n PROVE G[k] = AddRole(G[k - 1], S[k])
    <3>1. k \in 0 .. n /\ k - 1 \in 0 .. n
      BY <1>1
    <3>2. G[k] = F[1 .. k] /\ G[k - 1] = F[1 .. (k - 1)]
      BY <3>1
    <3> HIDE DEF G
    <3>3. QED
      BY <1>3, <3>2
  <2>3. AddRoleChain(b, S, G)
    <3> HIDE DEF G
    <3> QED BY <2>1, <2>2 DEF AddRoleChain
  <2>4. QED
    <3> HIDE DEF G
    <3> QED BY <2>3
<1>5. ASSUME NEW g, AddRoleChain(b, S, g) PROVE F[1 .. n] = g[n]
  <2> DEFINE Wrong == {k \in 0 .. n : F[1 .. k] # g[k]}
  <2>1. SUFFICES ASSUME Wrong # {} PROVE FALSE
    BY <1>1
  <2>2. PICK k \in Wrong : \A y \in Wrong : k <= y
    <3>1. Wrong \subseteq 0 .. n
      OBVIOUS
    <3> HIDE DEF Wrong
    <3>2. QED
      BY <1>1, <2>1, <3>1, LeastIndex
  <2>3. k # 0
    BY <1>3, <1>5, <2>2 DEF AddRoleChain
  <2>4. k \in 1 .. n /\ k - 1 \in 0 .. n /\ ~ (k <= k - 1)
    BY <1>1, <2>3
  <2>5. F[1 .. (k - 1)] = g[k - 1]
    BY <2>2, <2>4
  <2>6. QED
    BY <1>3, <1>5, <2>2, <2>4, <2>5 DEF AddRoleChain
<1>6. QED
  BY <1>2, <1>4, <1>5

\* The work among some steps is a list.
LEMMA WorkIsList ==
    ASSUME NEW steps, IsList(steps)
    PROVE  IsList(Work(steps))
<1> DEFINE n == Len(steps)
           T == Range(steps)
<1>1. n \in Nat /\ DOMAIN steps = 1 .. n /\ \A k \in 1 .. n : steps[k] \in T
  BY DEF IsList, Range
<1>2. PICK g : WithStepChain(<<>>, steps, g) /\ Work(steps) = g[n]
  <2>1. PICK g : WithStepChain(<<>>, steps, g)
    BY WithStepChained
  <2>2. FoldLeft(WithStep, <<>>, steps) = g[n]
    BY <2>1, WithStepChained
  <2>3. QED
    BY <2>1, <2>2 DEF Work
<1> DEFINE Wrong == {k \in 0 .. n : g[k] \notin Seq(T)}
<1>3. SUFFICES ASSUME Wrong # {} PROVE FALSE
  <2>1. g[n] \in Seq(T) => g[n] \in Seq(Range(g[n]))
    BY DEF Range
  <2>2. QED
    BY <1>1, <1>2, <2>1 DEF IsList
<1>4. PICK k \in Wrong : \A y \in Wrong : k <= y
  <2>1. Wrong \subseteq 0 .. n
    OBVIOUS
  <2> HIDE DEF Wrong
  <2>2. QED
    BY <1>1, <1>3, <2>1, LeastIndex
<1>5. k # 0
  <2>1. g[0] = <<>> /\ <<>> \in Seq(T)
    BY <1>2 DEF WithStepChain
  <2>2. QED
    BY <1>4, <2>1
<1>6. k \in 1 .. n /\ k - 1 \in 0 .. n /\ ~ (k <= k - 1)
  BY <1>1, <1>5
<1>7. g[k - 1] \in Seq(T) /\ g[k] = WithStep(g[k - 1], steps[k]) /\ steps[k] \in T
  BY <1>1, <1>2, <1>4, <1>6 DEF WithStepChain
<1>8. g[k] \in Seq(T)
  <2> HIDE DEF T
  <2>1. Append(g[k - 1], steps[k]) \in Seq(T)
    BY <1>7
  <2>2. QED
    BY <1>7, <2>1 DEF WithStep
<1>9. QED
  BY <1>4, <1>8

\* The fold of AddRole knows every role it came by under some letter case,
\* and has nothing to add when it comes by again.
Knows(roles, role) == \E i \in DOMAIN roles : Fold[roles[i]] = Fold[role]

LEMMA AddRoleKnows ==
    ASSUME NEW roles \in Seq(Roles), NEW role \in Roles
    PROVE  /\ AddRole(roles, role) \in Seq(Roles)
           /\ Knows(AddRole(roles, role), role)
           /\ \A r : Knows(roles, r) => Knows(AddRole(roles, role), r)
<1>1. role # ""
  BY PlanningAssumption
<1>2. CASE Knows(roles, role)
  BY <1>1, <1>2 DEF AddRole, Knows
<1>3. CASE ~Knows(roles, role)
  <2>1. AddRole(roles, role) = Append(roles, role)
    BY <1>1, <1>3 DEF AddRole, Knows
  <2>2. /\ DOMAIN Append(roles, role) = 1 .. Len(roles) + 1 /\ DOMAIN roles = 1 .. Len(roles)
        /\ Len(roles) \in Nat
        /\ Append(roles, role)[Len(roles) + 1] = role
        /\ \A i \in 1 .. Len(roles) : Append(roles, role)[i] = roles[i]
    OBVIOUS
  <2>3. Append(roles, role) \in Seq(Roles)
    OBVIOUS
  <2> DEFINE longer == Append(roles, role)
  <2> HIDE DEF longer
  <2>4. DOMAIN roles \subseteq DOMAIN longer /\ Len(roles) + 1 \in DOMAIN longer
    BY <2>2 DEF longer
  <2>5. Knows(longer, role) /\ \A r : Knows(roles, r) => Knows(longer, r)
    BY <2>2, <2>4 DEF Knows, longer
  <2>6. QED
    BY <2>1, <2>3, <2>5 DEF longer
<1>4. QED
  BY <1>2, <1>3

LEMMA RolesSettle ==
    ASSUME NEW S \in Seq(Roles)
    PROVE  FoldLeft(AddRole, FoldLeft(AddRole, <<>>, S), S) = FoldLeft(AddRole, <<>>, S)
<1> DEFINE n == Len(S)
<1>1. n \in Nat /\ DOMAIN S = 1 .. n /\ IsList(S) /\ \A k \in 1 .. n : S[k] \in Roles
  <2>1. S \in Seq(Range(S))
    BY DEF Range
  <2>2. QED
    BY <2>1 DEF IsList
<1>2. PICK g : AddRoleChain(<<>>, S, g) /\ FoldLeft(AddRole, <<>>, S) = g[n]
  <2>1. PICK g : AddRoleChain(<<>>, S, g)
    BY <1>1, AddRoleChained
  <2>2. FoldLeft(AddRole, <<>>, S) = g[n]
    BY <1>1, <2>1, AddRoleChained
  <2>3. QED
    BY <2>1, <2>2
<1> DEFINE Good(k) == g[k] \in Seq(Roles) /\ \A j \in 1 .. k : Knows(g[k], S[j])
           Wrong == {k \in 0 .. n : ~Good(k)}
<1>3. ASSUME Wrong # {} PROVE FALSE
  <2>1. PICK k \in Wrong : \A y \in Wrong : k <= y
    <3>1. Wrong \subseteq 0 .. n
      OBVIOUS
    <3> HIDE DEF Wrong
    <3>2. QED
      BY <1>1, <1>3, <3>1, LeastIndex
  <2>2. k # 0
    <3>1. g[0] = <<>> /\ <<>> \in Seq(Roles) /\ 1 .. 0 = {}
      BY <1>2 DEF AddRoleChain
    <3>2. QED
      BY <2>1, <3>1
  <2>3. k \in 1 .. n /\ k - 1 \in 0 .. n /\ ~ (k <= k - 1)
    BY <1>1, <2>2
  <2>4. Good(k - 1)
    BY <2>1, <2>3
  <2>5. g[k] = AddRole(g[k - 1], S[k]) /\ S[k] \in Roles
    BY <1>1, <1>2, <2>3 DEF AddRoleChain
  <2>6. g[k] \in Seq(Roles) /\ Knows(g[k], S[k]) /\ \A r : Knows(g[k - 1], r) => Knows(g[k], r)
    BY <2>4, <2>5, AddRoleKnows
  <2>7. \A j \in 1 .. k : j = k \/ j \in 1 .. (k - 1)
    BY <1>1, <2>3
  <2>8. Good(k)
    BY <2>4, <2>6, <2>7
  <2>9. QED
    BY <2>1, <2>8
<1>4. Good(n)
  BY <1>1, <1>3
<1> HIDE DEF Wrong
<1>5. PICK R : R = g[n]
  OBVIOUS
<1>6. \A k \in 1 .. n : AddRole(R, S[k]) = R
  BY <1>4, <1>5 DEF AddRole, Knows
<1> DEFINE h == [k \in 0 .. n |-> R]
<1>7. AddRoleChain(R, S, h)
  <2>1. h[0] = R
    BY <1>1
  <2>2. ASSUME NEW k \in 1 .. n PROVE h[k] = AddRole(h[k - 1], S[k])
    <3>1. k \in 0 .. n /\ k - 1 \in 0 .. n
      BY <1>1
    <3>2. h[k] = R /\ h[k - 1] = R
      BY <3>1
    <3>3. QED
      BY <1>6, <3>2
  <2>3. QED
    BY <2>1, <2>2 DEF AddRoleChain
<1>8. FoldLeft(AddRole, R, S) = h[n]
  <2> HIDE DEF h
  <2> QED BY <1>1, <1>7, AddRoleChained
<1>9. h[n] = R
  BY <1>1
<1>10. QED
  BY <1>2, <1>5, <1>8, <1>9
\* The chain of what Grow makes of the first k entries of a sequence.
GrowChain(b, S, g) ==
    /\ g[0] = b
    /\ \A k \in 1 .. Len(S) : g[k] = Grow(g[k - 1], S[k])

\* The function that FoldLeft defines over the sets of indices.
GrowIter(b, S, f) ==
    f = [A \in SUBSET (DOMAIN S) |->
            IF A = {} THEN b ELSE LET x == Max(A) IN Grow(f[A \ {x}], S[x])]

LEMMA GrowIterates ==
    ASSUME NEW b, NEW S, IsList(S)
    PROVE  \E f : GrowIter(b, S, f)
<1> DEFINE Solves(k, f) == f = [A \in SUBSET (1 .. k) |->
                                  IF A = {} THEN b ELSE LET x == Max(A) IN Grow(f[A \ {x}], S[x])]
           Wrong == {k \in 0 .. Len(S) : ~ \E f : Solves(k, f)}
<1>1. Len(S) \in Nat /\ DOMAIN S = 1 .. Len(S)
  BY DEF IsList
<1>2. SUFFICES ASSUME Wrong # {} PROVE FALSE
  <2>1. Wrong = {} => \E f : Solves(Len(S), f)
    <3> HIDE DEF Solves
    <3>1. QED
      BY <1>1
  <2>2. QED
    BY <1>1, <1>2, <2>1 DEF GrowIter
<1>3. PICK k \in Wrong : \A y \in Wrong : k <= y
  <2> HIDE DEF Wrong
  <2>1. Wrong \subseteq 0 .. Len(S)
    BY DEF Wrong
  <2>2. QED
    BY <1>1, <1>2, <2>1, LeastIndex
<1>4. CASE k = 0
  <2>1. SUBSET (1 .. 0) = {{}}
    OBVIOUS
  <2>2. Solves(0, [A \in SUBSET (1 .. 0) |-> b])
    BY <2>1
  <2>3. QED
    BY <1>3, <1>4, <2>2
<1>5. CASE k # 0
  <2>1. k \in 1 .. Len(S) /\ k - 1 \in 0 .. Len(S) /\ ~ (k <= k - 1)
    BY <1>1, <1>5
  <2>2. k - 1 \notin Wrong
    BY <1>3, <2>1
  <2>3. PICK f : Solves(k - 1, f)
    BY <2>1, <2>2
  <2> DEFINE g == [A \in SUBSET (1 .. k) |-> IF A = {} THEN b ELSE LET x == Max(A) IN Grow(f[A \ {x}], S[x])]
  <2>4. ASSUME NEW A \in SUBSET (1 .. k), A # {}
        PROVE  g[A \ {Max(A)}] = f[A \ {Max(A)}]
    <3>1. A \ {Max(A)} \in SUBSET (1 .. (k - 1))
      <4>1. k \in Nat
        BY <1>1, <2>1
      <4> HIDE DEF Solves, Wrong, g
      <4>2. QED
        BY <2>4, <4>1, LowerPart
    <3>2. ASSUME NEW B \in SUBSET (1 .. (k - 1)) PROVE g[B] = f[B]
      <4>1. B \in SUBSET (1 .. k)
        BY <2>1
      <4>2. g[B] = IF B = {} THEN b ELSE LET x == Max(B) IN Grow(f[B \ {x}], S[x])
        BY <4>1
      <4>3. f[B] = IF B = {} THEN b ELSE LET x == Max(B) IN Grow(f[B \ {x}], S[x])
        BY <2>3
      <4>4. QED
        BY <4>2, <4>3
    <3>3. QED
      BY <3>1, <3>2
  <2>5. ASSUME NEW A \in SUBSET (1 .. k)
        PROVE  g[A] = IF A = {} THEN b ELSE LET x == Max(A) IN Grow(g[A \ {x}], S[x])
    <3>1. g[A] = IF A = {} THEN b ELSE LET x == Max(A) IN Grow(f[A \ {x}], S[x])
      OBVIOUS
    <3> HIDE DEF g
    <3>2. QED
      BY <2>4, <3>1
  <2>6. Solves(k, g)
    <3>1. g = [A \in SUBSET (1 .. k) |-> g[A]]
      OBVIOUS
    <3> HIDE DEF g
    <3>2. [A \in SUBSET (1 .. k) |-> g[A]] =
            [A \in SUBSET (1 .. k) |-> IF A = {} THEN b ELSE LET x == Max(A) IN Grow(g[A \ {x}], S[x])]
      BY <2>5
    <3>3. QED
      BY <3>1, <3>2
  <2>7. QED
    <3> HIDE DEF g, Solves
    <3>1. QED
      BY <1>3, <2>6
<1>6. QED
  BY <1>4, <1>5

LEMMA GrowFolds ==
    ASSUME NEW b, NEW S, IsList(S)
    PROVE  \E F : /\ GrowIter(b, S, F)
                  /\ FoldLeft(Grow, b, S) = F[1 .. Len(S)]
<1> DEFINE F == CHOOSE f : GrowIter(b, S, f)
<1>1. GrowIter(b, S, F)
  BY GrowIterates
<1>2. FoldLeft(Grow, b, S) = F[1 .. Len(S)]
  <2>1. DOMAIN S = 1 .. Len(S)
    BY DEF IsList
  <2>2. FoldLeft(Grow, b, S) = F[DOMAIN S]
    BY DEF FoldLeft, MapThenFoldSet, GrowIter
  <2>3. QED
    BY <2>1, <2>2
<1>3. QED
  BY <1>1, <1>2

\* The fold is the end of the chain, and there is one.
LEMMA GrowChained ==
    ASSUME NEW b, NEW S, IsList(S)
    PROVE  /\ \E g : GrowChain(b, S, g)
           /\ \A g : GrowChain(b, S, g) => FoldLeft(Grow, b, S) = g[Len(S)]
<1> DEFINE n == Len(S)
<1>1. n \in Nat /\ DOMAIN S = 1 .. n
  BY DEF IsList
<1>2. PICK F : GrowIter(b, S, F) /\ FoldLeft(Grow, b, S) = F[1 .. n]
  BY GrowFolds
<1>3. /\ F[1 .. 0] = b
      /\ \A k \in 1 .. n : F[1 .. k] = Grow(F[1 .. (k - 1)], S[k])
  <2>1. ASSUME NEW A \in SUBSET (1 .. n)
        PROVE  F[A] = IF A = {} THEN b ELSE Grow(F[A \ {Max(A)}], S[Max(A)])
    BY <1>1, <1>2 DEF GrowIter
  <2>2. F[1 .. 0] = b
    <3>1. 1 .. 0 = {}
      OBVIOUS
    <3>2. QED
      BY <2>1, <3>1
  <2>3. ASSUME NEW k \in 1 .. n
        PROVE  F[1 .. k] = Grow(F[1 .. (k - 1)], S[k])
    <3>1. 1 .. k # {} /\ 1 .. k \in SUBSET (1 .. n)
      BY <1>1
    <3>2. Max(1 .. k) = k /\ (1 .. k) \ {k} = 1 .. (k - 1)
      BY <1>1, InitialPart
    <3>3. QED
      BY <2>1, <3>1, <3>2
  <2>4. QED
    BY <2>2, <2>3
<1>4. \E g : GrowChain(b, S, g)
  <2> DEFINE G == [k \in 0 .. n |-> F[1 .. k]]
  <2>1. G[0] = b
    BY <1>1, <1>3
  <2>2. ASSUME NEW k \in 1 .. n PROVE G[k] = Grow(G[k - 1], S[k])
    <3>1. k \in 0 .. n /\ k - 1 \in 0 .. n
      BY <1>1
    <3>2. G[k] = F[1 .. k] /\ G[k - 1] = F[1 .. (k - 1)]
      BY <3>1
    <3> HIDE DEF G
    <3>3. QED
      BY <1>3, <3>2
  <2>3. GrowChain(b, S, G)
    <3> HIDE DEF G
    <3> QED BY <2>1, <2>2 DEF GrowChain
  <2>4. QED
    <3> HIDE DEF G
    <3> QED BY <2>3
<1>5. ASSUME NEW g, GrowChain(b, S, g) PROVE F[1 .. n] = g[n]
  <2> DEFINE Wrong == {k \in 0 .. n : F[1 .. k] # g[k]}
  <2>1. SUFFICES ASSUME Wrong # {} PROVE FALSE
    BY <1>1
  <2>2. PICK k \in Wrong : \A y \in Wrong : k <= y
    <3>1. Wrong \subseteq 0 .. n
      OBVIOUS
    <3> HIDE DEF Wrong
    <3>2. QED
      BY <1>1, <2>1, <3>1, LeastIndex
  <2>3. k # 0
    BY <1>3, <1>5, <2>2 DEF GrowChain
  <2>4. k \in 1 .. n /\ k - 1 \in 0 .. n /\ ~ (k <= k - 1)
    BY <1>1, <2>3
  <2>5. F[1 .. (k - 1)] = g[k - 1]
    BY <2>2, <2>4
  <2>6. QED
    BY <1>3, <1>5, <2>2, <2>4, <2>5 DEF GrowChain
<1>6. QED
  BY <1>2, <1>4, <1>5

-----------------------------------------------------------------------------
(* The layers of the dependencies.                                         *)

\* Layer, of any list of steps.
LayerOf(steps, i) == Cardinality({k \in 1 .. i : k = 1 \/ ~steps[k].parallel})

\* Layers are counted from one, and only a step that waits opens another.
LEMMA LayerCounts ==
    ASSUME NEW steps
    PROVE  /\ LayerOf(steps, 1) = 1
           /\ \A i \in Nat : LayerOf(steps, i) \in Nat
           /\ \A i \in Nat \ {0} :
                LayerOf(steps, i + 1) = IF steps[i + 1].parallel THEN LayerOf(steps, i) ELSE LayerOf(steps, i) + 1
           /\ \A i \in Nat : \A j \in 1 .. i : LayerOf(steps, j) <= LayerOf(steps, i)
<1> DEFINE Opens(i) == {k \in 1 .. i : k = 1 \/ ~steps[k].parallel}
<1>1. \A i \in Nat : IsFiniteSet(Opens(i))
  <2>1. \A i \in Nat : IsFiniteSet(1 .. i)
    BY FS_Interval
  <2>2. QED
    BY <2>1, FS_Subset
<1>2. \A i \in Nat : LayerOf(steps, i) = Cardinality(Opens(i)) /\ LayerOf(steps, i) \in Nat
  BY <1>1, FS_CardinalityType DEF LayerOf
<1>3. LayerOf(steps, 1) = 1
  <2>1. Opens(1) = {1}
    OBVIOUS
  <2> HIDE DEF Opens
  <2>2. QED
    BY <1>2, <2>1, FS_Singleton
<1>4. ASSUME NEW i \in Nat \ {0}
      PROVE  LayerOf(steps, i + 1) = IF steps[i + 1].parallel THEN LayerOf(steps, i) ELSE LayerOf(steps, i) + 1
  <2>1. i + 1 \in Nat /\ i + 1 # 1 /\ 1 .. i + 1 = (1 .. i) \cup {i + 1} /\ i + 1 \notin 1 .. i
    OBVIOUS
  <2>2. CASE steps[i + 1].parallel
    <3>1. Opens(i + 1) = Opens(i)
      BY <2>1, <2>2
    <3> HIDE DEF Opens
    <3>2. QED
      BY <1>2, <2>1, <2>2, <3>1
  <2>3. CASE ~steps[i + 1].parallel
    <3>1. Opens(i + 1) = Opens(i) \cup {i + 1} /\ i + 1 \notin Opens(i)
      BY <2>1, <2>3
    <3> HIDE DEF Opens
    <3>2. Cardinality(Opens(i) \cup {i + 1}) = Cardinality(Opens(i)) + 1
      BY <1>1, <3>1, FS_AddElement
    <3>3. QED
      BY <1>2, <2>1, <2>3, <3>1, <3>2
  <2>4. QED
    BY <2>2, <2>3
<1>5. ASSUME NEW i \in Nat, NEW j \in 1 .. i PROVE LayerOf(steps, j) <= LayerOf(steps, i)
  <2>1. j \in Nat /\ Opens(j) \subseteq Opens(i)
    OBVIOUS
  <2> HIDE DEF Opens
  <2>2. Cardinality(Opens(j)) <= Cardinality(Opens(i))
    BY <1>1, <2>1, FS_Subset
  <2>3. QED
    BY <1>2, <2>1, <2>2
<1>6. QED
  BY <1>2, <1>3, <1>4, <1>5

\* One entry more.
OneMore(s, x, longer) ==
    /\ IsList(longer) /\ longer # <<>>
    /\ Len(longer) = Len(s) + 1
    /\ longer[Len(s) + 1] = x /\ \A i \in 1 .. Len(s) : longer[i] = s[i]
    /\ Range(longer) = Range(s) \cup {x}

LEMMA AppendOne ==
    ASSUME NEW s, IsList(s), NEW x
    PROVE  OneMore(s, x, Append(s, x))
<1> DEFINE T == Range(s) \cup {x}
           longer == Append(s, x)
<1>1. s \in Seq(T) /\ x \in T /\ DOMAIN s = 1 .. Len(s) /\ Len(s) \in Nat
  <2>1. s \in Seq(Range(s))
    BY DEF IsList
  <2> HIDE DEF T
  <2>2. Range(s) \subseteq T /\ x \in T
    BY DEF T
  <2>3. QED
    BY <2>1, <2>2
<1> HIDE DEF T
<1>2. /\ longer \in Seq(T) /\ Len(longer) = Len(s) + 1 /\ DOMAIN longer = 1 .. Len(s) + 1
      /\ longer[Len(s) + 1] = x /\ \A i \in 1 .. Len(s) : longer[i] = s[i]
  BY <1>1
<1> HIDE DEF longer
<1>3. Range(longer) = T
  <2>1. 1 .. Len(s) + 1 = (1 .. Len(s)) \cup {Len(s) + 1}
    BY <1>1
  <2>2. QED
    BY <1>1, <1>2, <2>1 DEF Range, T
<1>4. longer # <<>>
  <2>1. 1 \in DOMAIN longer /\ DOMAIN <<>> = {}
    BY <1>1, <1>2
  <2>2. QED
    BY <2>1
<1>5. IsList(longer)
  BY <1>2, <1>3 DEF IsList
<1>6. QED
  <2>1. OneMore(s, x, longer)
    BY <1>2, <1>3, <1>4, <1>5 DEF T, OneMore
  <2>2. QED
    BY <2>1 DEF longer

Before(steps, k, i) == {j \in 1 .. k : LayerOf(steps, j) + 1 = LayerOf(steps, i)}

Beside(steps, k) == {j \in 1 .. k : LayerOf(steps, j) = LayerOf(steps, k)}

\* What Grow knows after k steps: each waits for the layer before it, the
\* members of the open group are the last layer, and they wait for the one
\* before that.
Layered(steps, graph, k) ==
  /\ IsList(graph.deps) /\ Len(graph.deps) = k
  /\ \A i \in 1 .. k : Range(graph.deps[i]) = Before(steps, k, i)
  /\ Range(graph.upstream) = Before(steps, k, k)
  /\ IsList(graph.members) /\ graph.members # <<>>
  /\ Range(graph.members) = Beside(steps, k)

Ungrown == [deps |-> <<>>, upstream |-> <<>>, members |-> <<>>]

LEMMA EmptyList == IsList(<<>>) /\ Len(<<>>) = 0 /\ Range(<<>>) = {}
BY DEF IsList, Range

LEMMA FirstLayer ==
    ASSUME NEW steps
    PROVE  Layered(steps, Grow(Ungrown, steps[1]), 1)
<1>1. PICK graph : graph = Grow(Ungrown, steps[1])
  OBVIOUS
<1>2. graph.deps = Append(<<>>, <<>>) /\ graph.upstream = <<>> /\ graph.members = Append(<<>>, 1)
  BY <1>1 DEF Grow, Ungrown
<1>3. IsList(graph.deps) /\ Len(graph.deps) = 1 /\ graph.deps[1] = <<>>
  <2>1. OneMore(<<>>, <<>>, graph.deps)
    BY <1>2, AppendOne, EmptyList
  <2>2. QED
    BY <2>1, EmptyList DEF OneMore
<1>4. IsList(graph.members) /\ graph.members # <<>> /\ Range(graph.members) = {1}
  <2>1. OneMore(<<>>, 1, graph.members)
    BY <1>2, AppendOne, EmptyList
  <2>2. QED
    BY <2>1, EmptyList DEF OneMore
<1>5. Before(steps, 1, 1) = {} /\ Beside(steps, 1) = {1}
  BY LayerCounts DEF Before, Beside
<1>6. Layered(steps, graph, 1)
  <2>1. \A i \in 1 .. 1 : Range(graph.deps[i]) = Before(steps, 1, i)
    <3>1. Range(graph.deps[1]) = Before(steps, 1, 1)
      BY <1>3, <1>5, EmptyList, Zenon
    <3>2. \A i \in 1 .. 1 : i = 1
      OBVIOUS
    <3>3. QED
      BY <3>1, <3>2, Zenon
  <2>2. QED
    BY <1>2, <1>3, <1>4, <1>5, <2>1, EmptyList DEF Layered
<1>7. QED
  BY <1>1, <1>6

LEMMA NextLayer ==
    ASSUME NEW steps, NEW k \in Nat \ {0}, NEW graph, Layered(steps, graph, k)
    PROVE  Layered(steps, Grow(graph, steps[k + 1]), k + 1)
<1> DEFINE more == Grow(graph, steps[k + 1])
           id == k + 1
<1>1. /\ id \in Nat \ {0} /\ 1 .. id = (1 .. k) \cup {id} /\ id \notin 1 .. k /\ k \in 1 .. k
      /\ LayerOf(steps, k) \in Nat /\ LayerOf(steps, id) \in Nat
      /\ \A j \in 1 .. k : LayerOf(steps, j) \in Nat /\ LayerOf(steps, j) <= LayerOf(steps, k)
      /\ \A j \in 1 .. k : LayerOf(steps, j) <= LayerOf(steps, id)
      /\ LayerOf(steps, id) = IF steps[id].parallel THEN LayerOf(steps, k) ELSE LayerOf(steps, k) + 1
  <2>1. /\ \A i \in Nat : LayerOf(steps, i) \in Nat
        /\ \A i \in Nat \ {0} :
             LayerOf(steps, i + 1) = IF steps[i + 1].parallel THEN LayerOf(steps, i) ELSE LayerOf(steps, i) + 1
        /\ \A i \in Nat : \A j \in 1 .. i : LayerOf(steps, j) <= LayerOf(steps, i)
    BY LayerCounts
  <2>2. id \in Nat \ {0} /\ 1 .. id = (1 .. k) \cup {id} /\ id \notin 1 .. k /\ k \in 1 .. k
    OBVIOUS
  <2>3. \A j \in 1 .. k : j \in Nat /\ j \in 1 .. id
    OBVIOUS
  <2>4. LayerOf(steps, id) = IF steps[id].parallel THEN LayerOf(steps, k) ELSE LayerOf(steps, k) + 1
    BY <2>1
  <2>5. LayerOf(steps, k) \in Nat /\ LayerOf(steps, id) \in Nat
    BY <2>1, <2>2
  <2> HIDE DEF id
  <2>6. \A j \in 1 .. k : /\ LayerOf(steps, j) \in Nat /\ LayerOf(steps, j) <= LayerOf(steps, k)
                          /\ LayerOf(steps, j) <= LayerOf(steps, id)
    BY <2>1, <2>2, <2>3
  <2>7. QED
    BY <2>2, <2>4, <2>5, <2>6
<1>2. /\ IsList(graph.deps) /\ Len(graph.deps) = k
      /\ \A i \in 1 .. k : Range(graph.deps[i]) = Before(steps, k, i)
      /\ Range(graph.upstream) = Before(steps, k, k)
      /\ IsList(graph.members) /\ graph.members # <<>>
      /\ Range(graph.members) = Beside(steps, k)
  BY DEF Layered
<1>3. \A i \in 1 .. k : Before(steps, id, i) = Before(steps, k, i)
  BY <1>1 DEF Before
<1>4. ASSUME NEW d, more.deps = Append(graph.deps, d), Range(d) = Before(steps, id, id)
      PROVE  /\ IsList(more.deps) /\ Len(more.deps) = id
             /\ \A i \in 1 .. id : Range(more.deps[i]) = Before(steps, id, i)
  <2> HIDE DEF more
  <2>1. /\ IsList(more.deps) /\ Len(more.deps) = id
        /\ more.deps[id] = d /\ \A i \in 1 .. k : more.deps[i] = graph.deps[i]
    <3>1. OneMore(graph.deps, d, more.deps)
      BY <1>2, <1>4, AppendOne
    <3>2. QED
      BY <1>2, <3>1 DEF OneMore
  <2>2. QED
    BY <1>1, <1>2, <1>3, <1>4, <2>1
<1>5. CASE steps[id].parallel
  <2>1. /\ more.deps = Append(graph.deps, graph.upstream) /\ more.upstream = graph.upstream
        /\ more.members = Append(graph.members, id)
    BY <1>2, <1>5 DEF Grow
  <2>2. Before(steps, id, id) = Before(steps, k, k) /\ Beside(steps, id) = Beside(steps, k) \cup {id}
    BY <1>1, <1>5 DEF Before, Beside
  <2>3. IsList(more.members) /\ more.members # <<>> /\ Range(more.members) = Beside(steps, id)
    <3> HIDE DEF more
    <3>1. OneMore(graph.members, id, more.members)
      BY <1>2, <2>1, AppendOne
    <3>2. QED
      BY <1>2, <2>2, <3>1 DEF OneMore
  <2> HIDE DEF more
  <2>4. QED
    BY <1>2, <1>4, <2>1, <2>2, <2>3 DEF Layered, more
<1>6. CASE ~steps[id].parallel
  <2>1. /\ more.deps = Append(graph.deps, graph.members) /\ more.upstream = graph.members
        /\ more.members = <<id>>
    BY <1>2, <1>6 DEF Grow
  <2>2. Before(steps, id, id) = Beside(steps, k) /\ Beside(steps, id) = {id}
    BY <1>1, <1>6 DEF Before, Beside
  <2>3. IsList(more.members) /\ more.members # <<>> /\ Range(more.members) = {id}
    <3>1. <<id>> = Append(<<>>, id)
      OBVIOUS
    <3> HIDE DEF more
    <3>2. OneMore(<<>>, id, more.members)
      BY <2>1, <3>1, AppendOne, EmptyList
    <3>3. QED
      BY <3>2, EmptyList DEF OneMore
  <2> HIDE DEF more
  <2>4. QED
    BY <1>2, <1>4, <2>1, <2>2, <2>3 DEF Layered, more
<1>7. QED
  BY <1>5, <1>6

\* What all steps together make.
LEMMA DependenciesLayered ==
    ASSUME NEW steps, IsList(steps), steps # <<>>
    PROVE  LET n == Len(steps) IN
             \A i \in 1 .. n : Range(Dependencies(steps)[i]) = Before(steps, n, i)
<1> DEFINE n == Len(steps)
<1>1. n \in Nat \ {0} /\ DOMAIN steps = 1 .. n
  <2>1. steps \in Seq(Range(steps))
    BY DEF IsList
  <2>2. QED
    BY <2>1
<1>2. PICK g : GrowChain(Ungrown, steps, g) /\ FoldLeft(Grow, Ungrown, steps) = g[n]
  <2>1. PICK g : GrowChain(Ungrown, steps, g)
    BY GrowChained
  <2>2. FoldLeft(Grow, Ungrown, steps) = g[n]
    BY <2>1, GrowChained
  <2>3. QED
    BY <2>1, <2>2
<1>3. g[0] = Ungrown /\ \A k \in 1 .. n : g[k] = Grow(g[k - 1], steps[k])
  BY <1>2 DEF GrowChain
<1> DEFINE Wrong == {k \in 1 .. n : ~Layered(steps, g[k], k)}
<1>4. Wrong = {}
  <2>1. SUFFICES ASSUME Wrong # {} PROVE FALSE
    OBVIOUS
  <2>2. PICK k \in Wrong : \A y \in Wrong : k <= y
    <3>1. Wrong \subseteq 0 .. n
      OBVIOUS
    <3> HIDE DEF Wrong
    <3>2. QED
      BY <1>1, <2>1, <3>1, LeastIndex
  <2>3. k \in 1 .. n /\ ~Layered(steps, g[k], k)
    OBVIOUS
  <2>4. CASE k = 1
    <3>1. g[1] = Grow(Ungrown, steps[1])
      BY <1>3, <2>3, <2>4
    <3>2. QED
      BY <2>3, <2>4, <3>1, FirstLayer
  <2>5. CASE k # 1
    <3>1. k - 1 \in Nat \ {0} /\ k - 1 \in 1 .. n /\ (k - 1) + 1 = k /\ ~ (k <= k - 1)
      BY <1>1, <2>3, <2>5
    <3>2. Layered(steps, g[k - 1], k - 1)
      BY <2>2, <3>1
    <3>3. Layered(steps, Grow(g[k - 1], steps[(k - 1) + 1]), (k - 1) + 1)
      BY <3>1, <3>2, NextLayer
    <3>4. QED
      BY <1>3, <2>3, <3>1, <3>3
  <2>6. QED
    BY <2>4, <2>5
<1>5. Layered(steps, g[n], n)
  BY <1>1, <1>4
<1>6. Dependencies(steps) = g[n].deps
  BY <1>2 DEF Dependencies, Ungrown
<1>7. QED
  BY <1>5, <1>6 DEF Layered

-----------------------------------------------------------------------------
(* What a generated Plan is.                                               *)

Clean(fault) == fault = ""

GoodName(name) == name \notin {"", "a/b"}

LEMMA NoFault ==
    ASSUME NEW n \in Nat, NEW faults, DOMAIN faults = 1 .. n
    PROVE  Clean(FirstFault(faults)) <=> \A i \in 1 .. n : Clean(faults[i])
<1> DEFINE Bad == {i \in 1 .. n : ~Clean(faults[i])}
<1>1. Bad \subseteq 1 .. n /\ \A i \in 1 .. n : i \in Bad <=> ~Clean(faults[i])
  BY Zenon
<1>2. CASE Bad = {}
  <2>1. \A i \in 1 .. n : Clean(faults[i])
    BY Zenon, <1>1, <1>2
  <2>2. QED
    BY Zenon, <2>1 DEF FirstFault, Clean
<1>3. CASE Bad # {}
  <2> HIDE DEF Bad
  <2>1. PICK i \in Bad : \A j \in Bad : i <= j
    <3>1. Bad \subseteq 0 .. n
      <4>1. 1 .. n \subseteq 0 .. n
        OBVIOUS
      <4>2. QED
        BY Zenon, <1>1, <4>1
    <3>2. QED
      BY <1>3, <3>1, LeastIndex
  <2>2. \A j \in 1 .. i - 1 : j \in 1 .. n /\ j \notin Bad
    <3>1. i \in 1 .. n
      BY Zenon, <1>1
    <3>2. \A j \in 1 .. i - 1 : j \in 1 .. n /\ ~ (i <= j)
      BY <3>1
    <3>3. QED
      BY Zenon, <2>1, <3>2
  <2>3. i \in DOMAIN faults /\ faults[i] # "" /\ \A j \in 1 .. i - 1 : faults[j] = ""
    BY Zenon, <1>1, <2>1, <2>2 DEF Clean
  <2>4. \E k \in DOMAIN faults : faults[k] # "" /\ \A j \in 1 .. k - 1 : faults[j] = ""
    BY Zenon, <2>3
  <2>5. FirstFault(faults) # ""
    BY Zenon, <2>3, <2>4 DEF FirstFault
  <2>6. QED
    BY Zenon, <2>1, <2>5, <1>1 DEF Clean
<1>4. QED
  BY Zenon, <1>2, <1>3

\* A candidate that nothing is wrong with.
LEMMA FaultlessCandidate ==
    ASSUME NEW n \in Nat, NEW given, DOMAIN given.tasks = 1 .. n, NEW employees
    PROVE  Clean(CandidateFault(given, employees)) <=>
             /\ Indexed(employees)
             /\ GoodName(given.name) /\ given.summary # "placeholder"
             /\ given.assigned \subseteq IDs(employees)
             /\ given.tasks # <<>>
             /\ \A i \in 1 .. n : Clean(TaskFault(given.tasks[i], employees))
             /\ Clean(GraphFault([i \in DOMAIN given.tasks |-> given.tasks[i].deps]))
<1> DEFINE faults == [i \in DOMAIN given.tasks |-> TaskFault(given.tasks[i], employees)]
           graph  == GraphFault([i \in DOMAIN given.tasks |-> given.tasks[i].deps])
<1>1. DOMAIN faults = 1 .. n /\ \A i \in 1 .. n : faults[i] = TaskFault(given.tasks[i], employees)
  OBVIOUS
<1>2. Clean(FirstFault(faults)) <=> \A i \in 1 .. n : Clean(TaskFault(given.tasks[i], employees))
  <2> HIDE DEF faults
  <2> QED BY <1>1, NoFault
<1>3. Clean(CandidateFault(given, employees)) <=>
             /\ Indexed(employees)
             /\ GoodName(given.name) /\ given.summary # "placeholder"
             /\ given.assigned \subseteq IDs(employees)
             /\ given.tasks # <<>>
             /\ Clean(FirstFault(faults))
             /\ Clean(graph)
  BY Zenon DEF CandidateFault, Clean, GoodName
<1>4. QED
  BY <1>2, <1>3

\* The Task names one Employee and that Employee's role, and would be given
\* to that Employee, who is alone in it, again.
Settled(task, employees) ==
  /\ task = [title |-> task.title, role |-> task.role, assignee |-> task.assignee, deps |-> task.deps]
  /\ \E e \in employees :
        /\ task.role = e.role /\ task.assignee = e.id
        /\ Holders(e.role, employees) = {e}
        /\ Resolve(e.role, e.id, employees) = [status |-> "resolved", role |-> e.role, id |-> e.id]

LEMMA SettledTask ==
    ASSUME NEW employees \in SUBSET People, NEW task, Settled(task, employees)
    PROVE  LET found == Resolve(task.role, task.assignee, employees)
           IN  /\ task.role \in Roles /\ task.assignee \in IDs(employees)
               /\ found.status = "resolved"
               /\ [title |-> task.title, role |-> found.role, assignee |-> found.id, deps |-> task.deps] = task
<1>1. PICK e \in employees :
        /\ task.role = e.role /\ task.assignee = e.id
        /\ Resolve(e.role, e.id, employees) = [status |-> "resolved", role |-> e.role, id |-> e.id]
  BY DEF Settled
<1>2. Resolve(task.role, task.assignee, employees) = [status |-> "resolved", role |-> task.role, id |-> task.assignee]
  BY <1>1
<1>3. task.role \in Roles /\ task.assignee \in IDs(employees)
  BY <1>1 DEF People, IDs
<1>4. task = [title |-> task.title, role |-> task.role, assignee |-> task.assignee, deps |-> task.deps]
  BY Zenon DEF Settled
<1>5. QED
  BY <1>2, <1>3, <1>4

\* The Tasks of the Plan are those of the candidate: the same roles and
\* holders, found a second time.
Planned(given, made, employees, n) ==
  /\ DOMAIN given.tasks = 1 .. n /\ DOMAIN made.tasks = 1 .. n
  /\ made.tasks = [i \in 1 .. n |-> made.tasks[i]]
  /\ \A i \in 1 .. n : /\ made.tasks[i].title = given.tasks[i].title
                       /\ made.tasks[i].deps = given.tasks[i].deps
                       /\ Settled(made.tasks[i], employees)

LEMMA GeneratedTasks ==
    ASSUME NEW employees \in SUBSET People, IsFiniteSet(employees), Indexed(employees),
           NEW said, Normalizable(said, employees), IsList(said.steps)
    PROVE  LET given == Candidate(said, employees)
           IN  \E n \in Nat \ {0} : Planned(given, Normalized(given, employees), employees, n)
<1> DEFINE steps == Work(said.steps)
           given == Candidate(said, employees)
           made  == Normalized(given, employees)
           n == Len(steps)
<1>1. n \in Nat \ {0} /\ DOMAIN steps = 1 .. n
  <2>1. IsList(steps) /\ steps # <<>>
    BY WorkIsList DEF Normalizable
  <2>2. steps \in Seq(Range(steps))
    BY <2>1 DEF IsList
  <2> HIDE DEF steps
  <2>3. QED
    BY <2>1, <2>2
<1>2. /\ DOMAIN given.tasks = 1 .. n
      /\ \A i \in 1 .. n : /\ given.tasks[i].role = ResolveStep(steps[i], employees).role
                           /\ given.tasks[i].assignee = ResolveStep(steps[i], employees).id
  BY <1>1 DEF Candidate
<1>3. \A i \in 1 .. n : \E e \in employees :
         /\ ResolveStep(steps[i], employees) = [status |-> "resolved", role |-> e.role, id |-> e.id]
         /\ Holders(e.role, employees) = {e}
  BY <1>1, StepHolder DEF Normalizable
<1>4. /\ DOMAIN made.tasks = 1 .. n
      /\ made.tasks = [i \in 1 .. n |-> made.tasks[i]]
      /\ \A i \in 1 .. n :
            LET found == Resolve(given.tasks[i].role, given.tasks[i].assignee, employees)
            IN  made.tasks[i] = [title |-> given.tasks[i].title, role |-> found.role,
                                 assignee |-> found.id, deps |-> given.tasks[i].deps]
  BY <1>2 DEF Normalized
<1> HIDE DEF steps, given, made, n
<1>5. ASSUME NEW i \in 1 .. n
      PROVE  /\ made.tasks[i].title = given.tasks[i].title
             /\ made.tasks[i].deps = given.tasks[i].deps
             /\ Settled(made.tasks[i], employees)
  <2>1. PICK e \in employees :
           /\ ResolveStep(steps[i], employees) = [status |-> "resolved", role |-> e.role, id |-> e.id]
           /\ Holders(e.role, employees) = {e}
    BY <1>3
  <2>2. given.tasks[i].role = e.role /\ given.tasks[i].assignee = e.id
    BY <1>2, <2>1
  <2>3. ~(Cardinality(Holders(e.role, employees)) > 1)
    <3>1. Cardinality({e}) = 1
      BY FS_Singleton
    <3>2. Cardinality(Holders(e.role, employees)) = 1
      BY <2>1, <3>1
    <3>3. QED
      BY <3>2
  <2>4. Resolve(e.role, e.id, employees) = [status |-> "resolved", role |-> e.role, id |-> e.id]
    BY <2>3, ResolveHolder
  <2>5. made.tasks[i] = [title |-> given.tasks[i].title, role |-> e.role,
                         assignee |-> e.id, deps |-> given.tasks[i].deps]
    BY <1>4, <2>2, <2>4
  <2>6. QED
    BY <2>1, <2>4, <2>5 DEF Settled
<1>6. Planned(given, made, employees, n)
  BY <1>1, <1>2, <1>4, <1>5 DEF Planned
<1>7. QED
  BY <1>1, <1>6 DEF given, made

\* Approved among the same Employees, the Plan is found to be in order and
\* is not changed.
LEMMA GeneratedIsApproved ==
    ASSUME NEW employees \in SUBSET People, IsFiniteSet(employees),
           NEW said, Normalizable(said, employees), IsList(said.steps),
           Clean(CandidateFault(Candidate(said, employees), employees))
    PROVE  LET made == Normalized(Candidate(said, employees), employees)
           IN  Clean(ApprovalFault(made, employees)) /\ Normalized(made, employees) = made
<1> DEFINE given == Candidate(said, employees)
           made  == Normalized(given, employees)
           roles == [i \in DOMAIN made.tasks |-> made.tasks[i].role]
           again == Normalized(made, employees)
<1>1. Indexed(employees)
  BY Zenon DEF CandidateFault, Clean
<1>2. PICK n \in Nat \ {0} : Planned(given, made, employees, n)
  BY <1>1, GeneratedTasks
<1>3. /\ given.roles = <<>> /\ given.numbered = TRUE
      /\ made.name = given.name /\ made.summary = given.summary /\ made.numbered = given.numbered
      /\ made.roles = FoldLeft(AddRole, <<>>, roles)
      /\ made.assigned = given.assigned \cup ({made.tasks[i].assignee : i \in DOMAIN given.tasks} \ {Nobody})
  BY DEF Candidate, Normalized
<1>4. given.assigned \subseteq IDs(employees) /\ GoodName(given.name) /\ given.summary # "placeholder"
  BY <1>2, FaultlessCandidate DEF Planned
<1>5. /\ \A i \in 1 .. n : Clean(TaskFault(given.tasks[i], employees))
      /\ Clean(GraphFault([i \in DOMAIN given.tasks |-> given.tasks[i].deps]))
  BY <1>2, FaultlessCandidate DEF Planned
<1> HIDE DEF given
<1>6. made = [name |-> made.name, summary |-> made.summary, roles |-> made.roles,
              assigned |-> made.assigned, tasks |-> made.tasks, numbered |-> made.numbered]
  BY DEF Normalized
<1> HIDE DEF made, roles
<1>7. ASSUME NEW i \in 1 .. n
      PROVE  LET found == Resolve(made.tasks[i].role, made.tasks[i].assignee, employees)
             IN  /\ made.tasks[i].role \in Roles /\ made.tasks[i].assignee \in IDs(employees)
                 /\ found.status = "resolved"
                 /\ [title |-> made.tasks[i].title, role |-> found.role,
                     assignee |-> found.id, deps |-> made.tasks[i].deps] = made.tasks[i]
  <2>1. Settled(made.tasks[i], employees)
    BY <1>2 DEF Planned
  <2>2. QED
    BY <2>1, SettledTask
<1>8. DOMAIN made.tasks = 1 .. n /\ made.tasks = [i \in 1 .. n |-> made.tasks[i]]
  BY <1>2 DEF Planned
<1>9. again.tasks = made.tasks
  <2>1. again.tasks = [i \in 1 .. n |->
                         [title |-> made.tasks[i].title,
                          role |-> Resolve(made.tasks[i].role, made.tasks[i].assignee, employees).role,
                          assignee |-> Resolve(made.tasks[i].role, made.tasks[i].assignee, employees).id,
                          deps |-> made.tasks[i].deps]]
    BY <1>8 DEF Normalized
  <2>2. QED
    BY <1>7, <1>8, <2>1
<1>10. again.roles = made.roles
  <2>1. again.roles = FoldLeft(AddRole, made.roles, [i \in DOMAIN made.tasks |-> again.tasks[i].role])
    BY DEF Normalized
  <2>2. again.roles = FoldLeft(AddRole, made.roles, roles)
    BY <1>9, <2>1 DEF roles
  <2>3. roles \in Seq(Roles)
    <3>1. roles = [i \in 1 .. n |-> made.tasks[i].role]
      BY Zenon, <1>8 DEF roles
    <3>2. \A i \in 1 .. n : made.tasks[i].role \in Roles
      BY <1>7
    <3> HIDE DEF roles
    <3>3. QED
      BY <3>1, <3>2
  <2> HIDE DEF again
  <2>4. QED
    BY <1>3, <2>2, <2>3, RolesSettle
<1>11. /\ again.assigned = made.assigned
       /\ again.name = made.name /\ again.summary = made.summary /\ again.numbered = made.numbered
  <2>1. again.assigned = made.assigned \cup ({again.tasks[i].assignee : i \in DOMAIN made.tasks} \ {Nobody})
    BY DEF Normalized
  <2>2. DOMAIN given.tasks = DOMAIN made.tasks
    BY <1>2 DEF Planned
  <2>3. again.assigned = made.assigned
    BY <1>3, <1>9, <2>1, <2>2
  <2>4. again.name = made.name /\ again.summary = made.summary /\ again.numbered = made.numbered
    BY DEF Normalized
  <2>5. QED
    BY <2>3, <2>4
<1>12. again = made
  <2>1. again = [name |-> again.name, summary |-> again.summary, roles |-> again.roles,
                 assigned |-> again.assigned, tasks |-> again.tasks, numbered |-> again.numbered]
    BY DEF Normalized
  <2> HIDE DEF again
  <2>2. QED
    BY <1>6, <1>9, <1>10, <1>11, <2>1
<1>13. Clean(CandidateFault(made, employees))
  <2>1. made.assigned \subseteq IDs(employees)
    <3>1. DOMAIN given.tasks = 1 .. n
      BY <1>2 DEF Planned
    <3>2. \A i \in 1 .. n : made.tasks[i].assignee \in IDs(employees)
      BY <1>7
    <3>3. {made.tasks[i].assignee : i \in DOMAIN given.tasks} \subseteq IDs(employees)
      BY <3>1, <3>2
    <3>4. QED
      BY <1>3, <1>4, <3>3
  <2>2. ASSUME NEW i \in 1 .. n PROVE Clean(TaskFault(made.tasks[i], employees))
    <3>1. Clean(TitleFault(given.tasks[i].title))
      BY Zenon, <1>5 DEF TaskFault, Clean
    <3>2. made.tasks[i].title = given.tasks[i].title
      BY <1>2 DEF Planned
    <3>3. Resolve(made.tasks[i].role, made.tasks[i].assignee, employees).status = "resolved"
      BY <1>7
    <3>4. QED
      BY Zenon, <3>1, <3>2, <3>3 DEF TaskFault, Clean
  <2>3. [i \in DOMAIN made.tasks |-> made.tasks[i].deps] = [i \in DOMAIN given.tasks |-> given.tasks[i].deps]
    BY <1>2 DEF Planned
  <2>4. made.tasks # <<>>
    <3>1. DOMAIN <<>> = {} /\ 1 .. n # {}
      OBVIOUS
    <3>2. QED
      BY <1>8, <3>1
  <2>5. GoodName(made.name) /\ made.summary # "placeholder"
    BY <1>3, <1>4
  <2>6. Clean(GraphFault([i \in DOMAIN made.tasks |-> made.tasks[i].deps]))
    BY Zenon, <1>5, <2>3
  <2>7. QED
    BY <1>1, <1>8, <2>1, <2>2, <2>4, <2>5, <2>6, FaultlessCandidate
<1>14. Clean(ApprovalFault(made, employees))
  BY Zenon, <1>3, <1>13 DEF ApprovalFault
<1>15. QED
  BY <1>12, <1>14 DEF made, again, given
-----------------------------------------------------------------------------
(* An order of work.                                                       *)

\* Where no Task leads back to itself the Tasks have an order: a Task's turn
\* is how many Tasks it leads to, and one it depends on leads to fewer.
LEMMA OrderOfWork ==
    ASSUME NEW n \in Nat, NEW deps, DOMAIN deps = 1 .. n, DependenciesKnown(deps), ~Cyclic(deps)
    PROVE  \E turn \in [1 .. n -> 1 .. n] :
             \A i \in 1 .. n : \A j \in Range(deps[i]) : j \in 1 .. n /\ turn[j] < turn[i]
<1> DEFINE turn == [i \in 1 .. n |-> Cardinality(LeadsTo(deps, i)) + 1]
<1>1. \A i \in 1 .. n : LeadsTo(deps, i) \subseteq 1 .. n /\ i \notin LeadsTo(deps, i)
  BY DEF Cyclic, LeadsTo
<1>2. IsFiniteSet(1 .. n) /\ Cardinality(1 .. n) = n
  BY FS_Interval
<1>3. \A i \in 1 .. n : IsFiniteSet(LeadsTo(deps, i)) /\ Cardinality(LeadsTo(deps, i)) \in Nat
  BY <1>1, <1>2, FS_Subset, FS_CardinalityType
<1>4. ASSUME NEW i \in 1 .. n PROVE Cardinality(LeadsTo(deps, i)) + 1 \in 1 .. n
  <2>1. IsFiniteSet((1 .. n) \ {i}) /\ Cardinality((1 .. n) \ {i}) = n - 1
    BY <1>2, FS_RemoveElement
  <2>2. LeadsTo(deps, i) \subseteq (1 .. n) \ {i}
    BY <1>1
  <2>3. Cardinality(LeadsTo(deps, i)) <= n - 1
    BY <2>1, <2>2, FS_Subset
  <2>4. QED
    BY <1>3, <2>3
<1>5. ASSUME NEW i \in 1 .. n, NEW j \in Range(deps[i])
      PROVE  j \in 1 .. n /\ Cardinality(LeadsTo(deps, j)) < Cardinality(LeadsTo(deps, i))
  <2>1. j \in 1 .. n
    BY DEF DependenciesKnown
  <2>2. j \in LeadsTo(deps, i)
    BY <2>1 DEF LeadsTo
  <2>3. LeadsTo(deps, j) \subseteq LeadsTo(deps, i)
    <3>1. SUFFICES ASSUME NEW x \in LeadsTo(deps, j), NEW S \in SUBSET DOMAIN deps,
                          Range(deps[i]) \subseteq S, ClosedUnder(deps, S)
                   PROVE  x \in S
      BY DEF LeadsTo
    <3>2. Range(deps[j]) \subseteq S
      BY <3>1 DEF ClosedUnder
    <3>3. QED
      BY <3>1, <3>2 DEF LeadsTo
  <2>4. LeadsTo(deps, j) \subseteq LeadsTo(deps, i) \ {j}
    BY <1>1, <2>1, <2>3
  <2>5. /\ IsFiniteSet(LeadsTo(deps, i) \ {j})
        /\ Cardinality(LeadsTo(deps, i) \ {j}) = Cardinality(LeadsTo(deps, i)) - 1
    BY <1>3, <2>2, FS_RemoveElement
  <2>6. Cardinality(LeadsTo(deps, j)) <= Cardinality(LeadsTo(deps, i)) - 1
    BY <2>4, <2>5, FS_Subset
  <2>7. QED
    BY <1>3, <2>1, <2>6
<1>6. turn \in [1 .. n -> 1 .. n]
  BY <1>4
<1>7. \A i \in 1 .. n : \A j \in Range(deps[i]) : j \in 1 .. n /\ turn[j] < turn[i]
  <2>1. ASSUME NEW i \in 1 .. n, NEW j \in Range(deps[i]) PROVE j \in 1 .. n /\ turn[j] < turn[i]
    <3>1. j \in 1 .. n /\ Cardinality(LeadsTo(deps, j)) < Cardinality(LeadsTo(deps, i))
      BY <1>5
    <3>2. turn[j] = Cardinality(LeadsTo(deps, j)) + 1 /\ turn[i] = Cardinality(LeadsTo(deps, i)) + 1
      BY <3>1
    <3>3. QED
      BY <1>3, <3>1, <3>2
  <2>2. QED
    BY <2>1
<1>8. QED
  BY <1>6, <1>7

\* A Plan with nothing wrong has its dependencies known and no cycle.
LEMMA FaultlessGraph ==
    ASSUME NEW deps, Clean(GraphFault(deps))
    PROVE  DependenciesKnown(deps) /\ ~Cyclic(deps)
BY Zenon DEF GraphFault, Clean
-----------------------------------------------------------------------------
(* The invariant.                                                          *)

\* Before there is a Plan nothing is generated and nothing applied.
Early == stage \in {"request", "asked"} => work = <<>> /\ applied = Nothing

\* Whoever a generated Plan gives a Task to was there and was alone in the
\* role.
PlanMade ==
    work # <<>> =>
      /\ Indexed(seen)
      /\ \A i \in DOMAIN plan.tasks : \E e \in seen :
            /\ plan.tasks[i].role = e.role /\ plan.tasks[i].assignee = e.id
            /\ Holders(e.role, seen) = {e}

\* Beside the Employees it was made for a generated Plan is found in order
\* and is not changed.
StandsAsMade ==
    work # <<>> => /\ ApprovalFault(plan, seen) = ""
                   /\ Normalized(plan, seen) = plan

\* Whoever is hired brings an ID of their own.
IDsStayApart == (stage = "asked" \/ work # <<>>) /\ Indexed(seen) => Indexed(roster)

\* A Plan's Tasks are a list, wherever the Plan comes from.
PlanListed == IsList(plan.tasks)

IInv ==
    /\ TypeOK
    /\ IsFiniteSet(roster)
    /\ Early
    /\ PlanMade
    /\ PlanListed
    /\ PlanIsLayered
    /\ StandsAsMade
    /\ IDsStayApart
    /\ TasksCanBeWorkedOff
    /\ OnlyAmbiguityUnassigns
    /\ CutOffIsNeverWork
    /\ OwnClockIsNotTheProviders

\* Before anything is applied there is nothing to work off.
LEMMA NothingToWorkOff ==
    ASSUME applied' = Nothing
    PROVE  TasksCanBeWorkedOff'
<1>1. applied'.tasks = <<>>
  BY DEF Nothing
<1>2. Len(applied'.tasks) = 0
  BY <1>1
<1>3. QED
  BY Zenon, <1>2 DEF TasksCanBeWorkedOff

LEMMA InitHolds == Init => IInv
<1> SUFFICES ASSUME Init PROVE IInv
  OBVIOUS
<1>1. roster \subseteq People /\ IsFiniteSet(roster)
  BY PlanningAssumption DEF Init, People
<1>2. TypeOK
  BY <1>1 DEF Init, TypeOK, People, NoPlan, Nothing, Silence, Contexts
<1>3. Early /\ PlanMade /\ OnlyAmbiguityUnassigns /\ IDsStayApart /\ PlanIsLayered
  BY DEF Init, PlanIsLayered, Early, PlanMade, OnlyAmbiguityUnassigns, IDsStayApart
<1>4. CutOffIsNeverWork /\ OwnClockIsNotTheProviders
  BY DEF Init, Silence, CutOffIsNeverWork, OwnClockIsNotTheProviders
<1>5. PlanListed /\ StandsAsMade
  <2>1. plan.tasks = <<>> /\ work = <<>>
    BY DEF Init, NoPlan
  <2>2. IsList(<<>>)
    BY DEF IsList
  <2>3. QED
    BY <2>1, <2>2 DEF PlanListed, StandsAsMade
<1>6. TasksCanBeWorkedOff
  <2>1. applied.tasks = <<>>
    BY DEF Init, Nothing
  <2>2. Len(applied.tasks) = 0
    BY <2>1
  <2>3. QED
    BY Zenon, <2>2 DEF TasksCanBeWorkedOff
<1>7. QED
  BY <1>1, <1>2, <1>3, <1>4, <1>5, <1>6 DEF IInv

-----------------------------------------------------------------------------
(* The Employees.                                                          *)

LEMMA SeenTyped ==
    ASSUME IInv
    PROVE  /\ roster \in SUBSET People /\ IsFiniteSet(roster)
           /\ seen \in SUBSET People /\ IsFiniteSet(seen) /\ seen \subseteq roster
BY FS_Subset DEF IInv, TypeOK, People

LEMMA HireKeeps ==
    ASSUME IInv, NEW id \in Employees, NEW role \in Roles, Hire(id, role)
    PROVE  IInv'
<1>1. /\ roster' = roster \cup {[id |-> id, role |-> role]}
      /\ UNCHANGED <<stage, seen, work, plan, applied, told>>
  BY DEF Hire
<1>2. IsFiniteSet(roster')
  BY <1>1, FS_AddElement DEF IInv
<1>3. TypeOK'
  <2>1. [id |-> id, role |-> role] \in [id : Employees, role : Roles]
    OBVIOUS
  <2>2. QED
    BY <1>1, <2>1 DEF IInv, TypeOK
<1>4. Early' /\ PlanMade' /\ CutOffIsNeverWork' /\ OwnClockIsNotTheProviders'
  BY <1>1 DEF IInv, Early, PlanMade, CutOffIsNeverWork, OwnClockIsNotTheProviders
<1>5. OnlyAmbiguityUnassigns'
  <2>1. ASSUME NEW r PROVE Cardinality(Holders(r, roster')) >= Cardinality(Holders(r, roster))
    <3>1. Holders(r, roster) \subseteq Holders(r, roster') /\ Holders(r, roster') \subseteq roster'
      BY <1>1 DEF Holders
    <3>2. IsFiniteSet(Holders(r, roster'))
      BY <3>1, <1>2, FS_Subset
    <3>3. QED
      BY <3>1, <3>2, FS_Subset
  <2>2. ASSUME NEW r PROVE /\ Cardinality(Holders(r, roster)) \in Nat
                           /\ Cardinality(Holders(r, roster')) \in Nat
                           /\ Cardinality(Holders(r, seen)) \in Nat
    <3>1. /\ IsFiniteSet(Holders(r, roster)) /\ IsFiniteSet(Holders(r, roster'))
          /\ IsFiniteSet(Holders(r, seen))
      BY <1>2, SeenTyped, FS_Subset DEF Holders
    <3>2. QED
      BY <3>1, FS_CardinalityType
  <2>3. \A r : /\ Cardinality(Holders(r, roster)) > 1 => Cardinality(Holders(r, roster')) > 1
               /\ Cardinality(Holders(r, roster)) > Cardinality(Holders(r, seen))
                    => Cardinality(Holders(r, roster')) > Cardinality(Holders(r, seen))
               /\ Holders(r, roster) \subseteq Holders(r, roster')
    <3> SUFFICES ASSUME NEW r
                 PROVE  /\ Cardinality(Holders(r, roster)) > 1 => Cardinality(Holders(r, roster')) > 1
                        /\ Cardinality(Holders(r, roster)) > Cardinality(Holders(r, seen))
                             => Cardinality(Holders(r, roster')) > Cardinality(Holders(r, seen))
                        /\ Holders(r, roster) \subseteq Holders(r, roster')
      OBVIOUS
    <3>1. /\ Cardinality(Holders(r, roster')) >= Cardinality(Holders(r, roster))
          /\ Cardinality(Holders(r, roster)) \in Nat
          /\ Cardinality(Holders(r, roster')) \in Nat
          /\ Cardinality(Holders(r, seen)) \in Nat
      BY <2>1, <2>2
    <3>2. Holders(r, roster) \subseteq Holders(r, roster')
      BY <1>1 DEF Holders
    <3>3. QED
      BY <3>1, <3>2
  <2>4. /\ applied' = applied /\ plan' = plan /\ work' = work /\ seen' = seen
        /\ OnlyAmbiguityUnassigns
    BY <1>1 DEF IInv
  <2>5. QED
    BY <2>3, <2>4 DEF OnlyAmbiguityUnassigns
<1>6. PlanListed' /\ StandsAsMade' /\ TasksCanBeWorkedOff' /\ PlanIsLayered'
  BY <1>1, Zenon DEF IInv, PlanIsLayered, Layer, PlanListed, StandsAsMade, TasksCanBeWorkedOff
<1>7. IDsStayApart'
  <2>1. Indexed(roster) => Indexed(roster')
    BY DEF Hire, Indexed, IDs
  <2>2. QED
    BY <1>1, <2>1 DEF IInv, IDsStayApart
<1>8. QED
  BY <1>2, <1>3, <1>4, <1>5, <1>6, <1>7 DEF IInv

LEMMA AskKeeps == ASSUME IInv, Ask PROVE IInv'
<1>1. /\ stage = "request" /\ stage' \in {"asked", "refused"}
      /\ seen' = roster /\ UNCHANGED <<roster, work, plan, applied>>
      /\ told' = told \/ told' = [Silence EXCEPT !.op = "plan", !.stage = "ceo_plan_prompt",
                                                 !.code = "INTERACTION_PLAN_FAILED"]
  BY DEF Ask
<1>2. work = <<>> /\ applied = Nothing
  BY <1>1 DEF IInv, Early
<1>3. told' = told \/ /\ told'.own = "live" /\ told'.cut = FALSE
                      /\ told'.stage = "ceo_plan_prompt"
  BY <1>1 DEF Silence
<1>4. ~told.cut
  BY <1>1 DEF IInv, CutOffIsNeverWork
<1>5. TypeOK'
  BY <1>1, <1>3 DEF IInv, TypeOK, Contexts
<1>6. Early' /\ PlanMade' /\ OnlyAmbiguityUnassigns'
  BY <1>1, <1>2 DEF Early, PlanMade, OnlyAmbiguityUnassigns
<1>7. CutOffIsNeverWork' /\ OwnClockIsNotTheProviders'
  BY <1>1, <1>3, <1>4 DEF IInv, CutOffIsNeverWork, OwnClockIsNotTheProviders
<1>8. PlanListed' /\ StandsAsMade' /\ TasksCanBeWorkedOff' /\ PlanIsLayered'
  BY <1>1, <1>2, NothingToWorkOff DEF IInv, PlanIsLayered, PlanListed, StandsAsMade
<1>9. IDsStayApart'
  BY <1>1 DEF IDsStayApart
<1>10. QED
  BY <1>1, <1>5, <1>6, <1>7, <1>8, <1>9 DEF IInv

-----------------------------------------------------------------------------
(* Answers that were cut off.                                              *)

\* An answer to a request for JSON that was cut off is read no further.
LEMMA CutIsIncomplete ==
    ASSUME NEW own, NEW answer, Cut(answer)
    PROVE  Run(own, TRUE, answer).ok /\ Run(own, TRUE, answer).stop = "max_tokens"
<1>1. answer.kind = "message" /\ answer.stop = "max_tokens" /\ answer.model
  BY DEF Cut
<1>2. Run(own, TRUE, answer) = ReadMessage(TRUE, answer)
  BY <1>1 DEF Run
<1>3. StopReason(answer.stop) = "max_tokens"
  BY <1>1 DEF StopReason
<1>4. ReadMessage(TRUE, answer) = Succeeded("max_tokens", "cut off")
  <2>1. answer.stop # "refusal" /\ "cut off" # ""
    BY <1>1
  <2>2. QED
    BY <1>1, <1>3, <2>1, Zenon DEF ReadMessage
<1>5. Succeeded("max_tokens", "cut off").ok /\ Succeeded("max_tokens", "cut off").stop = "max_tokens"
  BY Zenon DEF Succeeded
<1>6. QED
  BY <1>2, <1>4, <1>5, Zenon

LEMMA CutMakesNoPlan ==
    ASSUME NEW own, NEW answer, NEW employees, Cut(answer)
    PROVE  GenerateStage(own, answer, employees) = "ceo_plan_output_incomplete"
<1>1. Run(own, TRUE, answer).ok /\ Run(own, TRUE, answer).stop = "max_tokens"
  BY CutIsIncomplete
<1>2. QED
  BY <1>1 DEF GenerateStage

LEMMA CutMakesNoReview ==
    ASSUME NEW own, NEW answer, Cut(answer)
    PROVE  ReviewCode(own, answer) = "OUTPUT_INCOMPLETE"
<1>1. ReviewKind(own, answer) = "OUTPUT_INCOMPLETE"
  BY CutIsIncomplete DEF ReviewKind
<1>2. QED
  BY <1>1, CutIsIncomplete DEF ReviewCode

\* A Deliverable is no JSON: what there is of it is read, and still refused.
LEMMA CutMakesNoDeliverable ==
    ASSUME NEW own \in Contexts, NEW answer, Cut(answer)
    PROVE  ExecutionCode(own, answer) # ""
<1>1. answer.kind = "message" /\ answer.stop = "max_tokens" /\ answer.model
  BY DEF Cut
<1>2. Run(own, FALSE, answer) = ReadMessage(FALSE, answer)
  BY <1>1 DEF Run
<1>3. StopReason(answer.stop) = "max_tokens"
  BY <1>1 DEF StopReason
<1>4. \/ ReadMessage(FALSE, answer) = Failed("invalid_provider_response", "", "")
      \/ ReadMessage(FALSE, answer) = Succeeded("max_tokens", Markdown(answer.blocks))
  BY <1>1, <1>3 DEF ReadMessage
<1>5. \/ ~Run(own, FALSE, answer).ok
      \/ Run(own, FALSE, answer).ok /\ Run(own, FALSE, answer).stop = "max_tokens"
  <2>1. /\ ~Failed("invalid_provider_response", "", "").ok
        /\ Succeeded("max_tokens", Markdown(answer.blocks)).ok
        /\ Succeeded("max_tokens", Markdown(answer.blocks)).stop = "max_tokens"
    BY Zenon DEF Failed, Succeeded
  <2>2. QED
    BY <1>2, <1>4, <2>1, Zenon
<1>6. ExecuteKind(own, answer) # "accepted"
  <2>1. WorkerKind(own, Run(own, FALSE, answer)) # "accepted"
    BY DEF WorkerKind, Ended
  <2>2. QED
    BY <1>5, <2>1 DEF ExecuteKind
<1>7. QED
  BY <1>6 DEF ExecutionCode

\* An answer that arrives in a context that ended is saved nowhere.
LEMMA EndedMakesNoWork ==
    ASSUME NEW own \in Contexts, own # "live", NEW answer
    PROVE  ExecutionCode(own, answer) # "" /\ ReviewCode(own, answer) # ""
<1>1. ExecutionCode(own, answer) # ""
  BY DEF ExecutionCode, Ended
<1>2. ReviewCode(own, answer) # ""
  BY Zenon DEF ReviewCode
<1>3. QED
  BY <1>1, <1>2

-----------------------------------------------------------------------------
(* The Commands.                                                           *)

\* What Generate makes of an Intent it can use.
LEMMA GeneratedPlan ==
    ASSUME NEW employees \in SUBSET People, IsFiniteSet(employees),
           NEW said, Normalizable(said, employees), IsList(said.steps),
           Clean(CandidateFault(Candidate(said, employees), employees))
    PROVE  LET made == Normalized(Candidate(said, employees), employees) IN
             /\ Indexed(employees) /\ IsList(made.tasks)
             /\ made.assigned \subseteq Employees
             /\ \A i \in DOMAIN made.tasks : \E e \in employees :
                   /\ made.tasks[i].role = e.role /\ made.tasks[i].assignee = e.id
                   /\ Holders(e.role, employees) = {e}
<1> DEFINE given == Candidate(said, employees)
           made  == Normalized(given, employees)
<1>1. Indexed(employees)
  BY Zenon DEF CandidateFault, Clean
<1>2. PICK n \in Nat \ {0} : Planned(given, made, employees, n)
  BY <1>1, GeneratedTasks
<1>3. made.assigned = given.assigned \cup ({made.tasks[i].assignee : i \in DOMAIN given.tasks} \ {Nobody})
  BY DEF Normalized
<1>4. given.assigned \subseteq IDs(employees)
  BY <1>2, FaultlessCandidate DEF Planned
<1> HIDE DEF given, made
<1>5. \A i \in 1 .. n : made.tasks[i].assignee \in IDs(employees)
  BY <1>2, SettledTask DEF Planned
<1>6. made.assigned \subseteq IDs(employees) /\ IDs(employees) \subseteq Employees
  <2>1. {made.tasks[i].assignee : i \in DOMAIN given.tasks} \subseteq IDs(employees)
    BY <1>2, <1>5 DEF Planned
  <2>2. IDs(employees) \subseteq Employees
    BY DEF IDs, People
  <2>3. QED
    BY <1>3, <1>4, <2>1, <2>2
<1>7. IsList(made.tasks)
  BY <1>2, ListOf DEF Planned
<1>8. \A i \in DOMAIN made.tasks : \E e \in employees :
         /\ made.tasks[i].role = e.role /\ made.tasks[i].assignee = e.id
         /\ Holders(e.role, employees) = {e}
  BY <1>2 DEF Planned, Settled
<1>9. QED
  BY <1>1, <1>6, <1>7, <1>8 DEF given, made

\* PlanIsLayered, of any steps and Tasks.
PlanLayers(steps, tasks) ==
    \A i \in DOMAIN tasks :
      Range(tasks[i].deps) = {j \in DOMAIN tasks : LayerOf(steps, j) + 1 = LayerOf(steps, i)}

\* Normalizing leaves the dependencies as NormalizeIntent built them.
LEMMA GeneratedLayers ==
    ASSUME NEW employees, NEW said, Normalizable(said, employees), IsList(said.steps)
    PROVE  PlanLayers(Work(said.steps), Normalized(Candidate(said, employees), employees).tasks)
<1> DEFINE steps == Work(said.steps)
           given == Candidate(said, employees)
           tasks == Normalized(given, employees).tasks
           n == Len(steps)
<1>1. IsList(steps) /\ steps # <<>>
  BY WorkIsList DEF Normalizable
<1>2. DOMAIN steps = 1 .. n
  BY <1>1, ListLength
<1>3. DOMAIN given.tasks = 1 .. n /\ \A i \in 1 .. n : given.tasks[i].deps = Dependencies(steps)[i]
  BY <1>2 DEF Candidate
<1>4. DOMAIN tasks = DOMAIN given.tasks /\ \A i \in DOMAIN given.tasks : tasks[i].deps = given.tasks[i].deps
  BY DEF Normalized
<1> HIDE DEF tasks, given, steps, n
<1>5. \A i \in 1 .. n : Range(Dependencies(steps)[i]) = Before(steps, n, i)
  BY <1>1, DependenciesLayered DEF n
<1>6. PlanLayers(steps, tasks)
  BY <1>3, <1>4, <1>5 DEF PlanLayers, Before
<1>7. QED
  BY <1>6 DEF tasks, given, steps

\* What it knows of an answer it has a Plan of.
LEMMA GenerateSucceeds ==
    ASSUME NEW own, NEW answer \in Answers.plan, NEW employees,
           Clean(GenerateStage(own, answer, employees))
    PROVE  /\ Normalizable(answer.says, employees) /\ IsList(answer.says.steps)
           /\ Clean(CandidateFault(Candidate(answer.says, employees), employees))
<1>1. PlanStage(own) # ""
  BY DEF PlanStage
<1>2. /\ Run(own, TRUE, answer).ok
      /\ Normalizable(answer.says, employees)
      /\ Clean(CandidateFault(Candidate(answer.says, employees), employees))
  BY Zenon, <1>1 DEF GenerateStage, Clean
<1>3. answer.kind \notin {"error", "status", "garbled"}
  <2>1. \A c, t, w : ~Failed(c, t, w).ok
    BY DEF Failed
  <2>2. QED
    BY Zenon, <1>2, <2>1 DEF Run
<1>4. QED
  BY <1>2, <1>3, PlanningAssumption

LEMMA GenerateKeeps ==
    ASSUME IInv, NEW own \in Contexts, NEW answer \in Answers.plan, Generate(own, answer)
    PROVE  IInv'
<1> DEFINE failed == GenerateStage(own, answer, seen)
           category == IF failed = "ceo_plan_runner_failed" THEN Run(own, TRUE, answer).category ELSE ""
<1>1. /\ stage = "asked" /\ UNCHANGED <<roster, seen, applied>>
      /\ told' = [op |-> "plan", own |-> own, cut |-> Cut(answer), stage |-> failed,
                  code |-> IF failed = "" THEN "" ELSE PlanCode(failed, category)]
      /\ IF failed = ""
         THEN /\ stage' = "planned"
              /\ plan' = Normalized(Candidate(answer.says, seen), seen)
              /\ work' = Work(answer.says.steps)
         ELSE stage' = "refused" /\ UNCHANGED <<plan, work>>
  BY DEF Generate
<1>2. work = <<>> /\ applied = Nothing
  BY <1>1 DEF IInv, Early
<1>3. failed = "" => /\ Normalizable(answer.says, seen) /\ IsList(answer.says.steps)
                     /\ Clean(CandidateFault(Candidate(answer.says, seen), seen))
  BY Zenon, GenerateSucceeds DEF Clean
<1>4. failed = "" =>
         /\ Indexed(seen) /\ IsList(plan'.tasks)
         /\ plan'.assigned \subseteq Employees
         /\ \A i \in DOMAIN plan'.tasks : \E e \in seen :
               /\ plan'.tasks[i].role = e.role /\ plan'.tasks[i].assignee = e.id
               /\ Holders(e.role, seen) = {e}
  <2>1. SUFFICES ASSUME failed = "" PROVE
             /\ Indexed(seen) /\ IsList(plan'.tasks)
             /\ plan'.assigned \subseteq Employees
             /\ \A i \in DOMAIN plan'.tasks : \E e \in seen :
                   /\ plan'.tasks[i].role = e.role /\ plan'.tasks[i].assignee = e.id
                   /\ Holders(e.role, seen) = {e}
    OBVIOUS
  <2>2. plan' = Normalized(Candidate(answer.says, seen), seen)
    BY Zenon, <1>1, <2>1
  <2>3. QED
    <3>1. /\ Normalizable(answer.says, seen) /\ IsList(answer.says.steps)
          /\ Clean(CandidateFault(Candidate(answer.says, seen), seen))
      BY Zenon, <1>3, <2>1
    <3>2. seen \in SUBSET People /\ IsFiniteSet(seen)
      BY SeenTyped
    <3> DEFINE made == Normalized(Candidate(answer.says, seen), seen)
    <3>3. /\ Indexed(seen) /\ IsList(made.tasks) /\ made.assigned \subseteq Employees
          /\ \A i \in DOMAIN made.tasks : \E e \in seen :
                /\ made.tasks[i].role = e.role /\ made.tasks[i].assignee = e.id
                /\ Holders(e.role, seen) = {e}
      BY <3>1, <3>2, GeneratedPlan
    <3> HIDE DEF made
    <3>4. QED
      BY Zenon, <2>2, <3>3 DEF made
<1>5. failed = "" => Clean(ApprovalFault(plan', seen)) /\ Normalized(plan', seen) = plan'
  <2>1. SUFFICES ASSUME failed = ""
                 PROVE  Clean(ApprovalFault(plan', seen)) /\ Normalized(plan', seen) = plan'
    OBVIOUS
  <2>2. plan' = Normalized(Candidate(answer.says, seen), seen)
    BY Zenon, <1>1, <2>1
  <2>3. QED
    BY Zenon, <1>3, <2>1, <2>2, GeneratedIsApproved, SeenTyped
<1>6. TypeOK'
  <2>1. plan'.assigned \subseteq Employees
    BY <1>1, <1>4 DEF IInv, TypeOK
  <2>2. stage' \in {"planned", "refused"} /\ told'.own = own
    BY <1>1
  <2>3. DOMAIN applied'.tasks = {} /\ applied'.unassigned = {}
    <3>1. applied' = [tasks |-> <<>>, unassigned |-> {}, missing |-> {}]
      BY <1>1, <1>2 DEF Nothing
    <3>2. applied'.tasks = <<>> /\ applied'.unassigned = {}
      BY <3>1
    <3>3. DOMAIN <<>> = {}
      OBVIOUS
    <3>4. QED
      BY <3>2, <3>3
  <2>4. QED
    BY <1>1, <2>1, <2>2, <2>3 DEF IInv, TypeOK
<1>7. PlanMade' /\ PlanListed'
  BY <1>1, <1>2, <1>4 DEF IInv, PlanMade, PlanListed
<1>8. Early' /\ OnlyAmbiguityUnassigns' /\ IDsStayApart'
  <2>1. Early' /\ OnlyAmbiguityUnassigns'
    BY <1>1, <1>2 DEF Early, OnlyAmbiguityUnassigns
  <2>2. Indexed(seen) => Indexed(roster)
    BY <1>1 DEF IInv, IDsStayApart
  <2>3. QED
    BY <1>1, <2>1, <2>2 DEF IDsStayApart
<1>9. StandsAsMade'
  <2>1. failed = "" => StandsAsMade'
    BY Zenon, <1>1, <1>5 DEF StandsAsMade, Clean
  <2>2. failed # "" => work' = <<>>
    BY Zenon, <1>1, <1>2
  <2>3. QED
    BY Zenon, <2>1, <2>2 DEF StandsAsMade
<1>10. TasksCanBeWorkedOff'
  BY <1>1, <1>2, NothingToWorkOff
<1>11. CutOffIsNeverWork'
  <2>1. SUFFICES ASSUME Cut(answer)
                 PROVE  failed = "ceo_plan_output_incomplete" /\ told'.code = "OUTPUT_INCOMPLETE"
    BY <1>1 DEF CutOffIsNeverWork
  <2>2. failed = "ceo_plan_output_incomplete"
    BY <2>1, CutMakesNoPlan
  <2>3. PlanCode("ceo_plan_output_incomplete", category) = "OUTPUT_INCOMPLETE"
    BY Zenon DEF PlanCode
  <2>4. told'.code = IF failed = "" THEN "" ELSE PlanCode(failed, category)
    BY <1>1
  <2>5. QED
    BY <2>2, <2>3, <2>4
<1>12. OwnClockIsNotTheProviders'
  <2>1. /\ failed = "ceo_plan_timeout" => own = "deadline"
        /\ failed = "ceo_plan_canceled" => own = "canceled"
        /\ failed = "ceo_plan_runner_failed" => own = "live"
    BY DEF GenerateStage, PlanStage, Contexts
  <2>2. QED
    BY <1>1, <2>1 DEF OwnClockIsNotTheProviders
<1>13. PlanIsLayered'
  <2>1. CASE failed # ""
    <3>1. work' = <<>>
      BY Zenon, <1>1, <1>2, <2>1
    <3>2. QED
      BY Zenon, <3>1 DEF PlanIsLayered
  <2>2. CASE failed = ""
    <3>1. /\ plan' = Normalized(Candidate(answer.says, seen), seen) /\ work' = Work(answer.says.steps)
          /\ Normalizable(answer.says, seen) /\ IsList(answer.says.steps)
      BY Zenon, <1>1, <1>3, <2>2
    <3>2. PlanLayers(work', plan'.tasks)
      BY Zenon, <3>1, GeneratedLayers
    <3>3. QED
      BY Zenon, <3>2 DEF PlanIsLayered, PlanLayers, Layer, LayerOf
  <2>3. QED
    BY <2>1, <2>2
<1>14. QED
  BY <1>1, <1>6, <1>7, <1>8, <1>9, <1>10, <1>11, <1>12, <1>13 DEF IInv

LEMMA SubmitKeeps ==
    ASSUME IInv, NEW given \in Written, Submit(given)
    PROVE  IInv'
<1>1. /\ stage = "request" /\ stage' = "planned" /\ plan' = given
      /\ UNCHANGED <<roster, seen, work, applied, told>>
  BY DEF Submit
<1>2. work = <<>> /\ applied = Nothing /\ ~told.cut
  BY <1>1 DEF IInv, Early, CutOffIsNeverWork
<1>3. given.assigned \subseteq Employees
  BY PlanningAssumption
<1>4. TypeOK'
  BY <1>1, <1>2, <1>3 DEF IInv, TypeOK, Nothing
<1>5. Early' /\ PlanMade' /\ OnlyAmbiguityUnassigns'
  BY <1>1, <1>2 DEF Early, PlanMade, OnlyAmbiguityUnassigns
<1>6. CutOffIsNeverWork' /\ OwnClockIsNotTheProviders'
  BY <1>1, <1>2 DEF IInv, CutOffIsNeverWork, OwnClockIsNotTheProviders
<1>7. PlanListed' /\ StandsAsMade' /\ TasksCanBeWorkedOff' /\ IDsStayApart' /\ PlanIsLayered'
  BY <1>1, <1>2, NothingToWorkOff, PlanningAssumption DEF PlanIsLayered, PlanListed, StandsAsMade, IDsStayApart
<1>8. QED
  BY <1>1, <1>4, <1>5, <1>6, <1>7 DEF IInv

\* The Tasks of an approved Plan can be worked off: their dependencies are
\* those that were validated.
LEMMA ApprovedCanBeWorkedOff ==
    ASSUME NEW given, IsList(given.tasks), NEW employees, Clean(ApprovalFault(given, employees)),
           applied'.tasks = Normalized(given, employees).tasks
    PROVE  TasksCanBeWorkedOff'
<1> DEFINE n == Len(given.tasks)
           deps == [i \in DOMAIN given.tasks |-> given.tasks[i].deps]
           task(i) == LET found == Resolve(given.tasks[i].role, given.tasks[i].assignee, employees)
                      IN  [title |-> given.tasks[i].title, role |-> found.role,
                           assignee |-> found.id, deps |-> given.tasks[i].deps]
           tasks == [i \in 1 .. n |-> task(i)]
<1>1. n \in Nat /\ DOMAIN given.tasks = 1 .. n
  BY ListLength
<1>2. applied'.tasks = tasks
  BY <1>1 DEF Normalized
<1>3. \A i \in 1 .. n : tasks[i].deps = deps[i]
  BY <1>1
<1>4. Len(tasks) = n
  <2> HIDE DEF n, task
  <2>1. tasks = [i \in 1 .. n |-> tasks[i]]
    OBVIOUS
  <2> HIDE DEF tasks
  <2>2. QED
    BY <1>1, <2>1, ListOf
<1>5. DependenciesKnown(deps) /\ ~Cyclic(deps)
  <2>1. Clean(CandidateFault(given, employees))
    BY Zenon DEF ApprovalFault, Clean
  <2>2. Clean(GraphFault(deps))
    BY Zenon, <1>1, <2>1, FaultlessCandidate
  <2>3. QED
    BY Zenon, <2>2, FaultlessGraph
<1>6. DOMAIN deps = 1 .. n
  BY <1>1
<1> HIDE DEF n, deps, tasks
<1>7. PICK turn \in [1 .. n -> 1 .. n] :
        \A i \in 1 .. n : \A j \in Range(deps[i]) : j \in 1 .. n /\ turn[j] < turn[i]
  BY Zenon, <1>1, <1>5, <1>6, OrderOfWork
<1>8. \A i \in 1 .. n : \A j \in Range(tasks[i].deps) : j \in 1 .. n /\ turn[j] < turn[i]
  BY Zenon, <1>3, <1>7
<1>9. QED
  BY Zenon, <1>2, <1>4, <1>7, <1>8 DEF TasksCanBeWorkedOff

LEMMA ApplyKeeps == ASSUME IInv, Apply PROVE IInv'
<1> DEFINE valid == Normalized(plan, roster)
<1>1. /\ stage = "planned" /\ stage' \in {"applied", "refused"}
      /\ UNCHANGED <<roster, seen, work, plan, told>>
  BY DEF Apply
<1>2. \/ UNCHANGED applied
      \/ /\ ApprovalFault(plan, roster) = ""
         /\ applied' = [tasks      |-> valid.tasks,
                        unassigned |-> {i \in DOMAIN valid.tasks : valid.tasks[i].assignee = Nobody},
                        missing    |-> Missing(valid.roles, roster)]
  BY DEF Apply
<1>3. /\ DOMAIN valid.tasks = DOMAIN plan.tasks
      /\ \A i \in DOMAIN plan.tasks :
            LET found == Resolve(plan.tasks[i].role, plan.tasks[i].assignee, roster)
            IN  /\ valid.tasks[i].title = plan.tasks[i].title /\ valid.tasks[i].deps = plan.tasks[i].deps
                /\ valid.tasks[i].role = found.role /\ valid.tasks[i].assignee = found.id
  BY DEF Normalized
<1> HIDE DEF valid
<1>4. applied' # applied =>
         /\ applied'.tasks = valid.tasks
         /\ applied'.unassigned = {i \in DOMAIN valid.tasks : valid.tasks[i].assignee = Nobody}
  <2>1. SUFFICES ASSUME applied' = [tasks      |-> valid.tasks,
                                    unassigned |-> {i \in DOMAIN valid.tasks : valid.tasks[i].assignee = Nobody},
                                    missing    |-> Missing(valid.roles, roster)]
                 PROVE  /\ applied'.tasks = valid.tasks
                        /\ applied'.unassigned = {i \in DOMAIN valid.tasks : valid.tasks[i].assignee = Nobody}
    BY <1>2, Zenon
  <2>2. QED
    BY <2>1, Zenon
<1>5. TypeOK'
  <2>1. DOMAIN applied'.tasks \in {{}, DOMAIN plan.tasks} /\ applied'.unassigned \subseteq DOMAIN applied'.tasks
    <3>1. CASE UNCHANGED applied
      BY <3>1 DEF IInv, TypeOK
    <3>2. CASE ~UNCHANGED applied
      <4>1. applied'.tasks = valid.tasks
            /\ applied'.unassigned = {i \in DOMAIN valid.tasks : valid.tasks[i].assignee = Nobody}
        BY <1>4, <3>2, Zenon
      <4>2. QED
        BY <1>3, <4>1
    <3>3. QED
      BY <3>1, <3>2
  <2>2. QED
    BY <1>1, <2>1 DEF IInv, TypeOK
<1>6. ~told.cut
  BY <1>1 DEF IInv, CutOffIsNeverWork
<1>7. Early' /\ PlanMade' /\ CutOffIsNeverWork' /\ OwnClockIsNotTheProviders'
  BY <1>1, <1>6 DEF IInv, Early, PlanMade, CutOffIsNeverWork, OwnClockIsNotTheProviders
<1>8. OnlyAmbiguityUnassigns'
  <2>1. CASE UNCHANGED applied
    BY <1>1, <2>1 DEF IInv, OnlyAmbiguityUnassigns
  <2>2. CASE ~UNCHANGED applied
    <3>1. applied'.tasks = valid.tasks
          /\ applied'.unassigned = {i \in DOMAIN valid.tasks : valid.tasks[i].assignee = Nobody}
      BY <1>4, <2>2, Zenon
    <3>2. Indexed(roster)
      BY <1>2, <2>2 DEF ApprovalFault, CandidateFault
    <3>3. ASSUME NEW i \in DOMAIN plan.tasks
          PROVE  Resolve(plan.tasks[i].role, plan.tasks[i].assignee, roster).status # "error"
      <4>1. Clean(CandidateFault(plan, roster))
        BY <1>2, <2>2, Zenon DEF ApprovalFault, Clean
      <4>2. DOMAIN plan.tasks = 1 .. Len(plan.tasks) /\ Len(plan.tasks) \in Nat
        BY ListLength DEF IInv, PlanListed
      <4>3. Clean(TaskFault(plan.tasks[i], roster))
        BY <4>1, <4>2, FaultlessCandidate, Zenon
      <4>4. QED
        BY <4>3, Zenon DEF TaskFault, Clean
    <3>4. ASSUME NEW i \in DOMAIN plan.tasks
          PROVE  LET before == plan.tasks[i]
                     after  == valid.tasks[i]
                 IN  /\ after.title = before.title /\ after.deps = before.deps
                     /\ before.role # "" => Fold[after.role] = Fold[before.role]
                     /\ after.assignee # Nobody =>
                          /\ before.assignee \in {Nobody, after.assignee}
                          /\ \E e \in Holders(after.role, roster) : e.id = after.assignee
                     /\ (after.assignee = Nobody /\ before.assignee # Nobody) =>
                          Cardinality(Holders(after.role, roster)) > 1
      <4>1. PICK role, proposed : role = plan.tasks[i].role /\ proposed = plan.tasks[i].assignee
        OBVIOUS
      <4>2. Resolve(role, proposed, roster).status # "error"
        BY <3>3, <4>1
      <4>3. Kept(role, proposed, Resolve(role, proposed, roster), roster)
        BY <3>2, <4>2, SeenTyped, ResolveKeeps
      <4>4. QED
        BY <1>3, <4>1, <4>3 DEF Kept
    <3>5. ASSUME work # <<>>, NEW i \in DOMAIN plan.tasks,
                 valid.tasks[i].assignee = Nobody, Cardinality(Holders(valid.tasks[i].role, roster)) > 1
          PROVE  Cardinality(Holders(valid.tasks[i].role, roster)) > Cardinality(Holders(valid.tasks[i].role, seen))
      <4>1. PICK e \in seen : /\ plan.tasks[i].role = e.role /\ plan.tasks[i].assignee = e.id
                              /\ Holders(e.role, seen) = {e}
        BY <3>5 DEF IInv, PlanMade
      <4>2. Fold[valid.tasks[i].role] = Fold[e.role]
        <5>1. e.role # ""
          BY <4>1, SeenTyped, PlanningAssumption DEF People
        <5>2. QED
          BY <3>4, <4>1, <5>1
      <4>3. Holders(valid.tasks[i].role, seen) = {e}
        BY <4>1, <4>2 DEF Holders
      <4>4. Cardinality({e}) = 1
        BY FS_Singleton
      <4>5. QED
        BY <3>5, <4>3, <4>4
    <3>6. \A i \in DOMAIN valid.tasks : i \in applied'.unassigned <=> valid.tasks[i].assignee = Nobody
      BY <3>1
    <3>7. ASSUME NEW i \in DOMAIN plan.tasks
          PROVE  LET before == plan.tasks[i]
                     after  == valid.tasks[i]
                 IN  /\ after.title = before.title /\ after.deps = before.deps
                     /\ before.role # "" => Fold[after.role] = Fold[before.role]
                     /\ i \in applied'.unassigned <=> after.assignee = Nobody
                     /\ after.assignee # Nobody =>
                          /\ before.assignee \in {Nobody, after.assignee}
                          /\ \E e \in Holders(after.role, roster) : e.id = after.assignee
                     /\ (after.assignee = Nobody /\ before.assignee # Nobody) =>
                          /\ Cardinality(Holders(after.role, roster)) > 1
                          /\ work # <<>> =>
                               Cardinality(Holders(after.role, roster)) > Cardinality(Holders(after.role, seen))
      BY <1>3, <3>4, <3>5, <3>6, Zenon
    <3>8. DOMAIN applied'.tasks = DOMAIN plan.tasks
      BY <1>3, <3>1, Zenon
    <3>9. roster' = roster /\ seen' = seen /\ work' = work /\ plan' = plan
      BY <1>1
    <3>10. ASSUME NEW i \in DOMAIN plan'.tasks
          PROVE  LET before == plan'.tasks[i]
                     after  == applied'.tasks[i]
                 IN  /\ after.title = before.title /\ after.deps = before.deps
                     /\ before.role # "" => Fold[after.role] = Fold[before.role]
                     /\ i \in applied'.unassigned <=> after.assignee = Nobody
                     /\ after.assignee # Nobody =>
                          /\ before.assignee \in {Nobody, after.assignee}
                          /\ \E e \in Holders(after.role, roster') : e.id = after.assignee
                     /\ (after.assignee = Nobody /\ before.assignee # Nobody) =>
                          /\ Cardinality(Holders(after.role, roster')) > 1
                          /\ work' # <<>> =>
                               Cardinality(Holders(after.role, roster')) > Cardinality(Holders(after.role, seen'))
      <4>1. i \in DOMAIN plan.tasks
        BY <3>9
      <4>2. QED
        BY <3>1, <3>7, <3>9, <4>1, Zenon
    <3>11. DOMAIN applied'.tasks = DOMAIN plan'.tasks
      BY <3>8, <3>9, Zenon
    <3>12. QED
      BY <3>10, <3>11, Zenon DEF OnlyAmbiguityUnassigns, Holders
  <2>3. QED
    BY <2>1, <2>2
<1>9. PlanListed' /\ StandsAsMade' /\ IDsStayApart' /\ PlanIsLayered'
  <2>1. work' = work /\ plan' = plan /\ PlanIsLayered
    BY <1>1 DEF IInv
  <2>2. PlanIsLayered'
    BY <2>1, Zenon DEF PlanIsLayered, Layer
  <2>3. QED
    BY <1>1, <2>2 DEF IInv, PlanListed, StandsAsMade, IDsStayApart
<1>10. TasksCanBeWorkedOff'
  <2>1. CASE UNCHANGED applied
    BY <2>1, Zenon DEF IInv, TasksCanBeWorkedOff
  <2>2. CASE ~UNCHANGED applied
    <3>1. applied'.tasks = valid.tasks
      BY <1>4, <2>2, Zenon
    <3>2. Clean(ApprovalFault(plan, roster)) /\ IsList(plan.tasks)
      BY <1>2, <2>2, Zenon DEF Clean, IInv, PlanListed
    <3>3. QED
      BY <3>1, <3>2, ApprovedCanBeWorkedOff, Zenon DEF valid
  <2>3. QED
    BY <2>1, <2>2
<1>11. QED
  BY <1>1, <1>5, <1>7, <1>8, <1>9, <1>10 DEF IInv

\* Execution and Review change what is told and how far the Plan is.
LEMMA WorkKeeps ==
    ASSUME IInv, stage \in {"applied", "executed"}, stage' \in {"executed", "reviewed", "refused"},
           UNCHANGED <<roster, seen, work, plan, applied>>,
           NEW own \in Contexts, NEW answer, NEW code, NEW word \in {"execute", "review"},
           told' = [op |-> word, own |-> own, cut |-> Cut(answer), stage |-> "", code |-> code],
           code # "" => stage' = "refused",
           own # "live" => code # "",
           Cut(answer) => code # "" /\ (word = "review" => code = "OUTPUT_INCOMPLETE")
    PROVE  IInv'
<1>1. TypeOK'
  BY DEF IInv, TypeOK
<1>2. Early' /\ PlanMade' /\ OnlyAmbiguityUnassigns'
  BY DEF IInv, Early, PlanMade, OnlyAmbiguityUnassigns
<1>3. CutOffIsNeverWork' /\ OwnClockIsNotTheProviders'
  BY DEF CutOffIsNeverWork, OwnClockIsNotTheProviders
<1>4. PlanListed' /\ StandsAsMade' /\ TasksCanBeWorkedOff' /\ IDsStayApart' /\ PlanIsLayered'
  BY Zenon DEF IInv, PlanListed, StandsAsMade, TasksCanBeWorkedOff, IDsStayApart, PlanIsLayered, Layer
<1>5. QED
  BY <1>1, <1>2, <1>3, <1>4 DEF IInv

LEMMA NextKeeps == IInv /\ [Next]_vars => IInv'
<1> SUFFICES ASSUME IInv, [Next]_vars PROVE IInv'
  OBVIOUS
<1>1. CASE UNCHANGED vars
  <2>1. /\ TypeOK' /\ Early' /\ PlanMade' /\ OnlyAmbiguityUnassigns' /\ CutOffIsNeverWork'
        /\ OwnClockIsNotTheProviders'
    BY <1>1 DEF vars, IInv, TypeOK, Early, PlanMade, OnlyAmbiguityUnassigns, CutOffIsNeverWork,
       OwnClockIsNotTheProviders
  <2>2. PlanListed' /\ StandsAsMade' /\ TasksCanBeWorkedOff' /\ IDsStayApart' /\ PlanIsLayered'
    BY <1>1, Zenon DEF vars, IInv, PlanListed, StandsAsMade, TasksCanBeWorkedOff, IDsStayApart,
       PlanIsLayered, Layer
  <2>3. QED
    BY <1>1, <2>1, <2>2 DEF IInv, vars
<1>2. CASE Ask \/ Apply \/ (\E given \in Written : Submit(given))
           \/ (\E id \in Employees, role \in Roles : Hire(id, role))
  BY <1>2, AskKeeps, ApplyKeeps, SubmitKeeps, HireKeeps
<1>3. CASE \E own \in Contexts, answer \in Answers.plan : Generate(own, answer)
  BY <1>3, GenerateKeeps
<1>4. ASSUME NEW own \in Contexts, NEW answer \in Answers.plain, Execute(own, answer) PROVE IInv'
  <2> DEFINE code == ExecutionCode(own, answer)
  <2>1. /\ stage = "applied" /\ stage' \in {"executed", "refused"} /\ (code # "" => stage' = "refused")
        /\ told' = [op |-> "execute", own |-> own, cut |-> Cut(answer), stage |-> "", code |-> code]
        /\ UNCHANGED <<roster, seen, work, plan, applied>>
    BY <1>4 DEF Execute
  <2>2. Cut(answer) => code # ""
    BY CutMakesNoDeliverable
  <2>3. own # "live" => code # ""
    BY EndedMakesNoWork
  <2>4. QED
    BY <2>1, <2>2, <2>3, WorkKeeps
<1>5. ASSUME NEW own \in Contexts, NEW answer \in Answers.review, Review(own, answer) PROVE IInv'
  <2> DEFINE code == ReviewCode(own, answer)
  <2>1. /\ stage = "executed" /\ stage' \in {"reviewed", "refused"} /\ (code # "" => stage' = "refused")
        /\ told' = [op |-> "review", own |-> own, cut |-> Cut(answer), stage |-> "", code |-> code]
        /\ UNCHANGED <<roster, seen, work, plan, applied>>
    BY <1>5 DEF Review
  <2>2. Cut(answer) => code = "OUTPUT_INCOMPLETE"
    BY CutMakesNoReview
  <2>3. own # "live" => code # ""
    BY EndedMakesNoWork
  <2>4. QED
    BY <2>1, <2>2, <2>3, WorkKeeps
<1>6. QED
  BY <1>1, <1>2, <1>3, <1>4, <1>5 DEF Next

\* Whoever joins, the holder a Task names is still there, in that role.
LEMMA StandsLater ==
    ASSUME IInv, work # <<>>
    PROVE  Clean(ApprovalFault(plan, roster))
<1>1. Clean(ApprovalFault(plan, seen))
  BY Zenon DEF IInv, StandsAsMade, Clean
<1>2. plan.numbered /\ Clean(CandidateFault(plan, seen))
  <2>1. plan.numbered
    <3>1. "invalid_plan" # ""
      OBVIOUS
    <3>2. QED
      BY <1>1, <3>1, Zenon DEF ApprovalFault, Clean
  <2>2. QED
    BY <1>1, <2>1, Zenon DEF ApprovalFault, Clean
<1> DEFINE n == Len(plan.tasks)
<1>3. n \in Nat /\ DOMAIN plan.tasks = 1 .. n
  BY ListLength DEF IInv, PlanListed
<1>4. /\ GoodName(plan.name) /\ plan.summary # "placeholder"
      /\ plan.assigned \subseteq IDs(seen)
      /\ plan.tasks # <<>>
      /\ \A i \in 1 .. n : Clean(TaskFault(plan.tasks[i], seen))
      /\ Clean(GraphFault([i \in DOMAIN plan.tasks |-> plan.tasks[i].deps]))
  BY <1>2, <1>3, FaultlessCandidate, Zenon
<1>5. Indexed(roster)
  BY DEF IInv, PlanMade, IDsStayApart
<1>6. plan.assigned \subseteq IDs(roster)
  BY <1>4, SeenTyped DEF IDs
<1>7. ASSUME NEW i \in 1 .. n PROVE Clean(TaskFault(plan.tasks[i], roster))
  <2>1. PICK e \in seen : plan.tasks[i].role = e.role /\ plan.tasks[i].assignee = e.id
    BY <1>3 DEF IInv, PlanMade
  <2>2. Resolve(e.role, e.id, roster).status \in {"resolved", "ambiguous"}
    <3>1. e \in roster
      BY SeenTyped
    <3>2. \/ Resolve(e.role, e.id, roster) = [status |-> "resolved", role |-> e.role, id |-> e.id]
          \/ Resolve(e.role, e.id, roster) = [status |-> "ambiguous", role |-> e.role, id |-> Nobody]
      BY <1>5, <3>1, SeenTyped, ResolveHolder
    <3>3. QED
      BY <3>2
  <2>3. Clean(TitleFault(plan.tasks[i].title))
    BY <1>4, Zenon DEF TaskFault, Clean
  <2>4. Resolve(plan.tasks[i].role, plan.tasks[i].assignee, roster).status # "error"
    BY <2>1, <2>2
  <2>5. QED
    BY <2>3, <2>4, Zenon DEF TaskFault, Clean
<1>8. Clean(CandidateFault(plan, roster))
  BY <1>3, <1>4, <1>5, <1>6, <1>7, FaultlessCandidate, Zenon
<1>9. QED
  BY <1>2, <1>8, Zenon DEF ApprovalFault, Clean

THEOREM Invariant == Spec => []IInv
<1>1. QED
  BY InitHolds, NextKeeps, PTL DEF Spec

\* Every state is typed, whatever the Provider answers.
THEOREM TypeCorrect == Spec => []TypeOK
<1>1. IInv => TypeOK
  BY DEF IInv
<1>2. QED
  BY <1>1, Invariant, PTL

\* Applying a Plan loses at most assignees, and those to a second holder of
\* the role (OnlyAmbiguityUnassigns).
THEOREM AssigneesKept == Spec => []OnlyAmbiguityUnassigns
<1>1. IInv => OnlyAmbiguityUnassigns
  BY DEF IInv
<1>2. QED
  BY <1>1, Invariant, PTL

\* An answer that was cut off becomes no Plan, no Deliverable and no Review,
\* and what the caller's own context ended is told apart from what the
\* Provider did (CallIsTold).
THEOREM CallsTold == Spec => []CallIsTold
<1>1. IInv => CallIsTold
  BY DEF IInv, CallIsTold
<1>2. QED
  BY <1>1, Invariant, PTL

\* A generated Plan is never found at fault by whoever has joined since, and is
\* what it was to those it was made for (GeneratedStands).
THEOREM GeneratedPlansStand == Spec => []GeneratedStands
<1>1. IInv => GeneratedStands
  BY StandsLater, Zenon DEF IInv, StandsAsMade, GeneratedStands, Clean
<1>2. QED
  BY <1>1, Invariant, PTL

\* However many steps an Intent has, each of its Tasks waits for the group
\* before its own and for nothing else (PlanIsLayered).
THEOREM DependenciesAreLayers == Spec => []PlanIsLayered
<1>1. IInv => PlanIsLayered
  BY DEF IInv
<1>2. QED
  BY <1>1, Invariant, PTL

\* The Tasks of every applied Plan have an order in which each finds what it
\* depends on done (TasksCanBeWorkedOff).
THEOREM PlansCanBeWorkedOff == Spec => []TasksCanBeWorkedOff
<1>1. IInv => TasksCanBeWorkedOff
  BY DEF IInv
<1>2. QED
  BY <1>1, Invariant, PTL
=============================================================================
