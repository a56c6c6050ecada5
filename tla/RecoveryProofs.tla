--------------------------- MODULE RecoveryProofs ---------------------------
(***************************************************************************)
(* Proofs about Recovery for any number of workers, operators and Tasks,   *)
(* and any Deliverables put there by hand.                                 *)
(*                                                                         *)
(* Three facts carry the results.  The writers leave the evidence first:   *)
(* a completed Task has its Deliverable, a reviewed one its canonical      *)
(* file, and neither goes away.  What an operator or a plan holds is of    *)
(* the past: the Task is still there, and it is that very record as long   *)
(* as it is at that version.  And a plan that was handed out can be        *)
(* executed, over a Deliverable that stays.                                *)
(***************************************************************************)
EXTENDS Recovery, SequenceTheorems, TLAPS

Completed(rec) == rec # NoTask /\ rec.status = "completed"

\* Places of the actors, and what they need there.
WorkersPlaced ==
    \A w \in Workers :
        /\ pc[w] \in WorkerPlaces
        /\ pc[w] \notin {"idle", "dead"} => job[w] \in Tasks

Looking == {"tasks", "deliverables", "reviews", "revisions", "commands"}

OperatorPlaced(o) ==
    /\ pc[o] \in OperatorPlaces
    /\ pc[o] \in {"tasks", "deliverables"} => ask[o].kind \in {"inspect", "plan", "apply"}
    /\ pc[o] \in {"reviews", "revisions", "commands"} => ask[o].kind = "inspect"
    /\ pc[o] \in {"claim", "repair", "rehold"} => ask[o].kind = "apply"
    /\ pc[o] = "claim" => ask[o].checks = 2
    /\ pc[o] \in {"tasks", "deliverables"} /\ ask[o].kind = "apply" => ask[o].checks \in 1 .. 2

OperatorsPlaced == \A o \in Operators : OperatorPlaced(o)

\* An apply is of a plan that was handed out, and of what that plan is of.
AppliesOf(a, approved) ==
    a.kind = "apply" =>
        a.plan \in approved /\ a.task = a.plan.task /\ a.action = a.plan.action

AppliesApproved == \A o \in Operators : AppliesOf(ask[o], plans)

\* Executions save before they complete, Reviews write the canonical file
\* first.
EvidenceFirst ==
    /\ \A t \in Tasks :
          /\ Completed(rows[t]) => saved[t] = "match"
          /\ reviews[t] # {} => "canonical" \in reviews[t]
    /\ \A w \in Workers :
          /\ pc[w] = "complete" => saved[job[w]] = "match"
          /\ pc[w] = "projection" => "canonical" \in reviews[job[w]]

\* A record that was read: the Task is still there, and it is that record for
\* as long as it has that version.
OfThePast(rec, now) ==
    rec # NoTask =>
        /\ now # NoTask
        /\ now.version >= rec.version
        /\ now.version = rec.version => now = rec

\* A snapshot is of the past, and its Tasks were read first.
SeenInOrder(o) ==
    \A t \in Tasks :
        /\ OfThePast(seen[o].rows[t], rows[t])
        /\ Completed(seen[o].rows[t]) => saved[t] = "match"
        /\ Completed(seen[o].rows[t]) /\ pc[o] \in {"reviews", "revisions", "commands"} =>
              seen[o].saved[t] = "match"
        /\ seen[o].reviews[t] # {} => "canonical" \in seen[o].reviews[t]

\* A plan that was handed out.
PlanStands(p) ==
    /\ Executable(p)
    /\ OfThePast(p.record, rows[p.task])
    /\ p.evidence = "match" => saved[p.task] = "match"

\* A repair that has failed its Task: only itself can be that one version on.
HalfDone(rec, now) ==
    /\ now # NoTask
    /\ now.version > rec.version
    /\ now.version = rec.version + 1 =>
          \E reason \in Reasons : now = FailedAttempt(rec, reason)

\* An apply under way has told nothing, and a repair has done its part.
RepairCounted(o) ==
    /\ pc[o] \in Looking \cup {"claim", "repair"} => reply[o] = "none" /\ did[o] = {}
    /\ pc[o] = "rehold" => /\ reply[o] = "none" /\ did[o] = {"fail"}
                           /\ HalfDone(ask[o].plan.record, rows[ask[o].plan.task])

\* NeverAccused and ToldIsRepaired, of one operator.
NotAccused(o) ==
    \A f \in report[o] :
        f.kind \notin {"completed_task_deliverable_missing", "review_canonical_missing"}

Told(o) ==
    /\ reply[o] = "completed" => did[o] = {"complete"}
    /\ reply[o] = "held" => did[o] = {"fail", "hold"}
    /\ reply[o] = "partial_failure" => did[o] # {}
    /\ reply[o] \in {"stale", "error"} => did[o] = {}

Sound(o) == SeenInOrder(o) /\ RepairCounted(o) /\ NotAccused(o) /\ Told(o)

Placed ==
    /\ TypeOK
    /\ WorkersPlaced
    /\ OperatorsPlaced
    /\ AppliesApproved

IInv ==
    /\ Placed
    /\ EvidenceFirst
    /\ \A p \in plans : PlanStands(p)
    /\ \A o \in Operators : Sound(o)

-----------------------------------------------------------------------------
(* Task records and the changes of one.                                    *)

LEMMA RecordFields ==
    ASSUME NEW rec \in TaskRecords
    PROVE  /\ rec # NoTask
           /\ rec.status \in Statuses /\ rec.version \in Nat
           /\ rec.hold \in Reasons \cup {NoReason} /\ rec.failure \in Reasons \cup {NoReason}
BY NoTaskAssumption, MaxVersionAssumption DEF TaskRecords, Versions

LEMMA NewTaskTyped == NewTask \in TaskRecords
BY MaxVersionAssumption DEF NewTask, TaskRecords, Statuses, Versions

\* What a change makes of a record: its next version.
LEMMA ChangedMakes ==
    ASSUME NEW rec \in TaskRecords, NEW kind \in Changes, NEW reason \in Reasons \cup {NoReason},
           rec.version < MaxVersion
    PROVE  /\ Changed(rec, kind, reason) \in TaskRecords
           /\ Changed(rec, kind, reason).version = rec.version + 1
           /\ Changed(rec, kind, reason).status =
                 IF kind = "fail" THEN rec.status ELSE Target(kind)
<1>1. rec.version \in Nat /\ rec.version + 1 \in Versions
  BY MaxVersionAssumption DEF TaskRecords, Versions
<1>2. CASE kind = "fail"
  BY <1>1, <1>2 DEF Changed, FailedAttempt, TaskRecords
<1>3. CASE kind # "fail"
  <2>1. Target(kind) \in Statuses
    BY <1>3 DEF Changes, Target, Statuses
  <2>2. Changed(rec, kind, reason) = Moved(rec, Target(kind), reason)
    BY <1>3 DEF Changed
  <2>3. QED
    BY <1>1, <1>3, <2>1, <2>2 DEF Moved, TaskRecords
<1>4. QED
  BY <1>2, <1>3

\* A change of one Task by its store.
LEMMA ChangeMakes ==
    ASSUME TypeOK, NEW t \in Tasks, NEW kind \in Changes, NEW reason \in Reasons \cup {NoReason},
           Change(t, kind, reason)
    PROVE  /\ rows' \in [Tasks -> TaskRecords \cup {NoTask}]
           /\ rows[t] \in TaskRecords /\ rows'[t] \in TaskRecords
           /\ CanChange(rows[t], kind)
           /\ rows'[t] = Changed(rows[t], kind, reason)
           /\ rows'[t].version = rows[t].version + 1
           /\ rows'[t].status = IF kind = "fail" THEN rows[t].status ELSE Target(kind)
           /\ \A u \in Tasks : u # t => rows'[u] = rows[u]
<1>1. rows \in [Tasks -> TaskRecords \cup {NoTask}]
  BY DEF TypeOK
<1>2. rows[t] \in TaskRecords /\ rows[t].version < MaxVersion /\ CanChange(rows[t], kind)
  BY <1>1 DEF Change
<1>3. rows' = [rows EXCEPT ![t] = Changed(rows[t], kind, reason)]
  BY DEF Change
<1>4. Changed(rows[t], kind, reason) \in TaskRecords
  BY <1>2, ChangedMakes
<1>5. rows'[t] = Changed(rows[t], kind, reason) /\ \A u \in Tasks : u # t => rows'[u] = rows[u]
  BY <1>1, <1>3
<1>6. rows' \in [Tasks -> TaskRecords \cup {NoTask}]
  BY <1>1, <1>3, <1>4
<1>7. QED
  BY <1>2, <1>4, <1>5, <1>6, ChangedMakes

-----------------------------------------------------------------------------
(* What was read stays of the past, whatever the writers do.               *)

LEMMA PastPasses ==
    ASSUME NEW a \in TaskRecords \cup {NoTask}, NEW b \in TaskRecords \cup {NoTask},
           NEW c \in TaskRecords \cup {NoTask}, OfThePast(a, b), OfThePast(b, c)
    PROVE  OfThePast(a, c)
<1>1. CASE a = NoTask
  BY <1>1 DEF OfThePast
<1>2. CASE a # NoTask
  <2>1. a \in TaskRecords /\ b \in TaskRecords /\ c \in TaskRecords
    BY <1>2 DEF OfThePast
  <2>2. a.version \in Nat /\ b.version \in Nat /\ c.version \in Nat
    BY <2>1, RecordFields
  <2>3. QED
    BY <1>2, <2>1, <2>2, RecordFields DEF OfThePast
<1>3. QED
  BY <1>1, <1>2

LEMMA PastIsReflexive ==
    ASSUME NEW a \in TaskRecords \cup {NoTask}
    PROVE  OfThePast(a, a)
BY RecordFields DEF OfThePast

\* Every record moves on.
Grown == \A t \in Tasks : OfThePast(rows[t], rows'[t])

LEMMA UnchangedGrown ==
    ASSUME TypeOK, UNCHANGED rows
    PROVE  Grown
BY PastIsReflexive DEF TypeOK, Grown

LEMMA ChangeGrown ==
    ASSUME TypeOK, NEW t \in Tasks, NEW kind \in Changes, NEW reason \in Reasons \cup {NoReason},
           Change(t, kind, reason)
    PROVE  Grown
<1> SUFFICES ASSUME NEW u \in Tasks PROVE OfThePast(rows[u], rows'[u])
  BY DEF Grown
<1>1. CASE u = t
  BY <1>1, ChangeMakes, RecordFields DEF OfThePast
<1>2. CASE u # t
  BY <1>2, ChangeMakes, PastIsReflexive DEF TypeOK
<1>3. QED
  BY <1>1, <1>2

-----------------------------------------------------------------------------
(* Types and places                                                        *)

Snapshots ==
    [rows : [Tasks -> TaskRecords \cup {NoTask}], saved : [Tasks -> Evidence],
     reviews : [Tasks -> SUBSET Files], intents : SUBSET Tasks]

LEMMA NothingTyped == Nothing \in Snapshots
BY DEF Nothing, Snapshots, Evidence, Files

\* One document read anew leaves a snapshot.
LEMMA SnapshotFields ==
    ASSUME NEW s \in Snapshots
    PROVE  /\ \A r \in [Tasks -> TaskRecords \cup {NoTask}] : [s EXCEPT !.rows = r] \in Snapshots
           /\ \A d \in [Tasks -> Evidence] : [s EXCEPT !.saved = d] \in Snapshots
           /\ \A f \in [Tasks -> SUBSET Files] : [s EXCEPT !.reviews = f] \in Snapshots
           /\ \A i \in SUBSET Tasks : [s EXCEPT !.intents = i] \in Snapshots
BY DEF Snapshots

LEMMA NoAskTyped == NoAsk \in Asks /\ NoAsk.kind = "none"
BY DEF NoAsk, Asks

\* What is asked, by its kind.
LEMMA AskFields ==
    ASSUME NEW a \in Asks
    PROVE  /\ a.kind \in {"none", "inspect", "plan", "apply"}
           /\ a.kind \in {"plan", "apply"} => a.task \in Tasks /\ a.action \in TaskActions
           /\ a.kind = "apply" => a.plan \in Plans /\ a.checks \in 0 .. 2
BY DEF Asks, NoAsk

LEMMA PlanFields ==
    ASSUME NEW p \in Plans
    PROVE  /\ p.task \in Tasks /\ p.action \in TaskActions
           /\ p.record \in TaskRecords /\ p.evidence \in Evidence
BY DEF Plans

LEMMA PlacedInit == Init => Placed
<1> SUFFICES ASSUME Init PROVE Placed
  OBVIOUS
<1>1. rows \in [Tasks -> TaskRecords \cup {NoTask}]
  BY NewTaskTyped DEF Init
<1>2. saved \in [Tasks -> Evidence] /\ reviews \in [Tasks -> SUBSET Files]
  BY DEF Init, Evidence
<1>3. ask \in [Operators -> Asks] /\ \A o \in Operators : ask[o].kind = "none"
  BY NoAskTyped DEF Init
<1>4. seen \in [Operators -> Snapshots]
  BY NothingTyped DEF Init
<1>r. report \in [Operators -> SUBSET FindingRecords]
  BY DEF Init
<1>5. TypeOK
  BY <1>1, <1>2, <1>3, <1>4, <1>r
     DEF Init, TypeOK, Snapshots, WorkerPlaces, OperatorPlaces, Replies
<1>6. WorkersPlaced /\ OperatorsPlaced
  BY <1>3 DEF Init, WorkersPlaced, OperatorsPlaced, OperatorPlaced, WorkerPlaces, OperatorPlaces
<1>7. AppliesApproved
  BY <1>3 DEF AppliesApproved, AppliesOf
<1>8. QED
  BY <1>5, <1>6, <1>7 DEF Placed

\* Where an actor goes.
LEMMA Went ==
    ASSUME TypeOK, NEW a \in Workers \cup Operators,
           NEW place \in WorkerPlaces \cup OperatorPlaces, Goto(a, place)
    PROVE  /\ pc' \in [Workers \cup Operators -> WorkerPlaces \cup OperatorPlaces]
           /\ pc'[a] = place
           /\ \A b \in Workers \cup Operators : b # a => pc'[b] = pc[b]
BY DEF TypeOK, Goto

\* A step of a worker within its errand: types and places are kept when the
\* documents it writes are typed.
LEMMA WorkerMoves ==
    ASSUME Placed, NEW w \in Workers, pc[w] \notin {"idle", "dead"},
           NEW place \in WorkerPlaces \ {"idle", "dead"}, Goto(w, place),
           rows' \in [Tasks -> TaskRecords \cup {NoTask}],
           saved' \in [Tasks -> Evidence],
           reviews' \in [Tasks -> SUBSET Files],
           intents' \in SUBSET Tasks,
           UNCHANGED <<running, job, reading>>
    PROVE  Placed'
<1>1. /\ pc' \in [Workers \cup Operators -> WorkerPlaces \cup OperatorPlaces]
      /\ pc'[w] = place
      /\ \A b \in Workers \cup Operators : b # w => pc'[b] = pc[b]
  BY Went DEF Placed
<1>2. TypeOK'
  BY <1>1 DEF Placed, TypeOK, reading
<1>3. WorkersPlaced'
  BY <1>1 DEF Placed, WorkersPlaced
<1>4. \A o \in Operators : pc'[o] = pc[o]
  BY <1>1, ActorsAssumption
<1>5. OperatorsPlaced' /\ AppliesApproved'
  BY <1>4 DEF Placed, OperatorsPlaced, OperatorPlaced, AppliesApproved, reading
<1>6. QED
  BY <1>2, <1>3, <1>5 DEF Placed

LEMMA WorkerPlaced ==
    ASSUME Placed, NEW w \in Workers, WorkerStep(w)
    PROVE  Placed'
<1> USE DEF WorkerPlaces
<1>t. /\ rows \in [Tasks -> TaskRecords \cup {NoTask}]
      /\ saved \in [Tasks -> Evidence]
      /\ reviews \in [Tasks -> SUBSET Files]
      /\ intents \in SUBSET Tasks
      /\ job \in [Workers -> Tasks \cup {NoTask}]
      /\ running \subseteq Workers \cup Operators
  BY DEF Placed, TypeOK
<1>j. pc[w] \notin {"idle", "dead"} => job[w] \in Tasks
  BY DEF Placed, WorkersPlaced
<1>1. ASSUME NEW t \in Tasks, NEW first \in {"start", "canonical", "intent"}, Begin(w, t, first)
      PROVE  Placed'
  <2>1. /\ pc' \in [Workers \cup Operators -> WorkerPlaces \cup OperatorPlaces]
        /\ pc'[w] = first
        /\ \A b \in Workers \cup Operators : b # w => pc'[b] = pc[b]
    BY <1>1, Went DEF Placed, Begin
  <2>2. /\ job' \in [Workers -> Tasks \cup {NoTask}]
        /\ job'[w] = t
        /\ \A v \in Workers : v # w => job'[v] = job[v]
    BY <1>1, <1>t DEF Begin
  <2>3. running' \subseteq Workers \cup Operators /\ UNCHANGED <<store, reading>>
    BY <1>1, <1>t DEF Begin
  <2>4. TypeOK'
    BY <2>1, <2>2, <2>3 DEF Placed, TypeOK, store, reading
  <2>5. WorkersPlaced'
    BY <2>1, <2>2 DEF Placed, WorkersPlaced
  <2>6. OperatorsPlaced' /\ AppliesApproved'
    BY <2>1, <2>3, ActorsAssumption DEF Placed, OperatorsPlaced, OperatorPlaced, AppliesApproved, reading
  <2>7. QED
    BY <2>4, <2>5, <2>6 DEF Placed
<1>2. CASE Start(w)
  <2>1. rows' \in [Tasks -> TaskRecords \cup {NoTask}]
    BY <1>2, <1>j, ChangeMakes DEF Start, Changes, Placed
  <2>2. CASE Goto(w, "save")
    BY <1>2, <1>t, <2>1, <2>2, WorkerMoves DEF Start
  <2>3. CASE Goto(w, "finish")
    BY <1>2, <1>t, <2>1, <2>3, WorkerMoves DEF Start
  <2>4. QED
    BY <1>2, <2>2, <2>3 DEF Start
<1>3. CASE Save(w)
  <2>1. saved' \in [Tasks -> Evidence]
    BY <1>3, <1>t DEF Save, Evidence
  <2>2. CASE Goto(w, "complete")
    BY <1>3, <1>t, <2>1, <2>2, WorkerMoves DEF Save
  <2>3. CASE Goto(w, "fail")
    BY <1>3, <1>t, <2>1, <2>3, WorkerMoves DEF Save
  <2>4. QED
    BY <1>3, <2>2, <2>3 DEF Save
<1>4. CASE NotSaved(w)
  BY <1>4, <1>t, WorkerMoves DEF NotSaved, store
<1>5. CASE Complete(w)
  <2>1. rows' \in [Tasks -> TaskRecords \cup {NoTask}]
    BY <1>5, <1>j, ChangeMakes DEF Complete, Changes, Placed
  <2>2. QED
    BY <1>5, <1>t, <2>1, WorkerMoves DEF Complete
<1>6. ASSUME NEW reason \in Reasons, Fail(w, reason)
      PROVE  Placed'
  <2>1. rows' \in [Tasks -> TaskRecords \cup {NoTask}]
    BY <1>6, <1>j, ChangeMakes DEF Fail, Changes, Placed
  <2>2. CASE Goto(w, "hold")
    BY <1>6, <1>t, <2>1, <2>2, WorkerMoves DEF Fail
  <2>3. CASE Goto(w, "finish")
    BY <1>6, <1>t, <2>1, <2>3, WorkerMoves DEF Fail
  <2>4. QED
    BY <1>6, <2>2, <2>3 DEF Fail
<1>7. ASSUME NEW reason \in Reasons, Hold(w, reason)
      PROVE  Placed'
  <2>1. rows' \in [Tasks -> TaskRecords \cup {NoTask}]
    BY <1>7, <1>j, ChangeMakes DEF Hold, Changes, Placed
  <2>2. QED
    BY <1>7, <1>t, <2>1, WorkerMoves DEF Hold
<1>8. CASE GivesUp(w)
  BY <1>8, <1>t, WorkerMoves DEF GivesUp, store
<1>9. CASE Canonical(w)
  <2>1. reviews' \in [Tasks -> SUBSET Files]
    BY <1>9, <1>t DEF Canonical, Files
  <2>2. CASE Goto(w, "projection")
    BY <1>9, <1>t, <2>1, <2>2, WorkerMoves DEF Canonical
  <2>3. CASE Goto(w, "finish")
    BY <1>9, <1>t, <2>1, <2>3, WorkerMoves DEF Canonical
  <2>4. QED
    BY <1>9, <2>2, <2>3 DEF Canonical
<1>10. CASE Projection(w)
  <2>1. reviews' \in [Tasks -> SUBSET Files]
    BY <1>10, <1>t, <1>j DEF Projection, Files
  <2>2. QED
    BY <1>10, <1>t, <2>1, WorkerMoves DEF Projection
<1>11. CASE Intent(w)
  <2>1. intents' \in SUBSET Tasks
    BY <1>11, <1>t, <1>j DEF Intent
  <2>2. QED
    BY <1>11, <1>t, <2>1, WorkerMoves DEF Intent
<1>12. CASE Row(w)
  <2>1. rows' \in [Tasks -> TaskRecords \cup {NoTask}]
    BY <1>12, <1>t, NewTaskTyped DEF Row
  <2>2. QED
    BY <1>12, <1>t, <2>1, WorkerMoves DEF Row
<1>13. CASE Finish(w)
  <2>1. /\ pc' \in [Workers \cup Operators -> WorkerPlaces \cup OperatorPlaces]
        /\ pc'[w] = "idle"
        /\ \A b \in Workers \cup Operators : b # w => pc'[b] = pc[b]
    BY <1>13, Went DEF Placed, Finish
  <2>2. /\ job' \in [Workers -> Tasks \cup {NoTask}]
        /\ \A v \in Workers : v # w => job'[v] = job[v]
    BY <1>13, <1>t DEF Finish
  <2>3. running' \subseteq Workers \cup Operators /\ UNCHANGED <<store, reading>>
    BY <1>13, <1>t DEF Finish
  <2>4. TypeOK'
    BY <2>1, <2>2, <2>3 DEF Placed, TypeOK, store, reading
  <2>5. WorkersPlaced'
    BY <2>1, <2>2 DEF Placed, WorkersPlaced
  <2>6. OperatorsPlaced' /\ AppliesApproved'
    BY <2>1, <2>3, ActorsAssumption DEF Placed, OperatorsPlaced, OperatorPlaced, AppliesApproved, reading
  <2>7. QED
    BY <2>4, <2>5, <2>6 DEF Placed
<1>14. QED
  BY <1>1, <1>2, <1>3, <1>4, <1>5, <1>6, <1>7, <1>8, <1>9, <1>10, <1>11, <1>12, <1>13 DEF WorkerStep

-----------------------------------------------------------------------------
(* What an inspection finds, Task by Task.                                 *)

\* A Task is found at most once by the switch over its status and evidence.
LEMMA TaskFindingOf ==
    ASSUME NEW t, NEW rec \in TaskRecords, NEW evidence \in Evidence,
           NEW f \in TaskFinding(t, rec, evidence)
    PROVE  \/ /\ rec.status = "in_progress" /\ evidence = "match"
              /\ f = Finding("task_completion_pending", "warning", t, "complete_task")
           \/ /\ rec.status = "in_progress" /\ evidence = "none"
              /\ f = Finding("task_execution_interrupted", "warning", t, "fail_and_hold_task")
           \/ /\ rec.status = "completed" /\ evidence = "none"
              /\ f = Finding("completed_task_deliverable_missing", "critical", t, "none")
           \/ f = Finding("deliverable_task_conflict", "critical", t, "none")
<1>1. CASE rec.status = "in_progress"
  BY <1>1 DEF TaskFinding, Evidence
<1>2. CASE rec.status = "completed"
  BY <1>2 DEF TaskFinding, Evidence
<1>3. CASE rec.status \in {"unstarted", "on_hold"}
  BY <1>3 DEF TaskFinding, Evidence
<1>4. QED
  BY <1>1, <1>2, <1>3, RecordFields DEF Statuses

\* A finding of the inspection: one about a Task's status and evidence, or one
\* that offers no action.
LEMMA FindingOf ==
    ASSUME NEW snap \in Snapshots, NEW commands, NEW f \in Findings(snap, commands)
    PROVE  \/ \E t \in Tasks : /\ snap.rows[t] \in TaskRecords
                               /\ f \in TaskFinding(t, snap.rows[t], snap.saved[t])
           \/ \E t \in Tasks : f \in DeliverableFinding(t, snap.rows[t], snap.saved[t])
                                     \cup ReviewFinding(t, snap.reviews[t])
                                     \cup RevisionFinding(t, snap.rows[t], snap.intents)
           \/ \E a \in commands : f = Finding("command_incomplete", "warning", a, "none")
<1> DEFINE OfTask(t) == IF snap.rows[t] = NoTask THEN {}
                           ELSE TaskFinding(t, snap.rows[t], snap.saved[t])
           Others(t) == DeliverableFinding(t, snap.rows[t], snap.saved[t])
                        \cup ReviewFinding(t, snap.reviews[t])
                        \cup RevisionFinding(t, snap.rows[t], snap.intents)
           All == {OfTask(t) \cup Others(t) : t \in Tasks}
           OfCommands == {Finding("command_incomplete", "warning", a, "none") : a \in commands}
<1>1. Findings(snap, commands) = (UNION All) \cup OfCommands
  BY DEF Findings
<1>2. CASE f \in OfCommands
  BY <1>2
<1>3. CASE f \in UNION All
  <2>1. PICK t \in Tasks : f \in OfTask(t) \cup Others(t)
    BY <1>3, Zenon
  <2>2. CASE f \in Others(t)
    BY <2>2
  <2>3. CASE f \in OfTask(t)
    <3>1. snap.rows[t] # NoTask
      BY <2>3
    <3>2. snap.rows[t] \in TaskRecords
      BY <3>1 DEF Snapshots
    <3>3. QED
      BY <2>3, <3>1, <3>2
  <2>4. QED
    BY <2>1, <2>2, <2>3
<1> HIDE DEF All, OfCommands
<1>4. QED
  BY <1>1, <1>2, <1>3

\* The other findings, none of which offers an action.
LEMMA OtherFindings ==
    ASSUME NEW t, NEW rec, NEW evidence \in Evidence, NEW files \in SUBSET Files, NEW intended,
           NEW f \in DeliverableFinding(t, rec, evidence) \cup ReviewFinding(t, files)
                     \cup RevisionFinding(t, rec, intended)
    PROVE  \/ f = Finding("artifact_invalid", "critical", t, "none")
           \/ f = Finding("deliverable_task_conflict", "critical", t, "none")
           \/ f = Finding("review_projection_missing", "warning", t, "none")
           \/ /\ f = Finding("review_canonical_missing", "critical", t, "none")
              /\ files = {"projection"}
           \/ f = Finding("revision_task_missing", "warning", t, "none")
<1>1. CASE f \in DeliverableFinding(t, rec, evidence)
  BY <1>1 DEF DeliverableFinding
<1>2. CASE f \in ReviewFinding(t, files)
  BY <1>2 DEF ReviewFinding
<1>3. CASE f \in RevisionFinding(t, rec, intended)
  BY <1>3 DEF RevisionFinding
<1>4. QED
  BY <1>1, <1>2, <1>3

\* projectRecoveryFinding refuses no finding of a known kind.
LEMMA FindingShown ==
    ASSUME NEW kind \in FindingKinds, NEW severity \in {"warning", "critical"},
           NEW about \in Tasks \cup Workers \cup Operators,
           NEW action \in TaskActions \cup {"none"}
    PROVE  /\ ShownFinding(Finding(kind, severity, about, action))
           /\ Finding(kind, severity, about, action) \in FindingRecords
<1> DEFINE f == Finding(kind, severity, about, action)
<1>1. f.kind = kind /\ f.severity = severity /\ f.action = action
  BY DEF Finding
<1>2. f.recoverable <=> action # "none"
  BY Zenon DEF Finding
<1>r. f \in FindingRecords
  <2>1. (action # "none") \in BOOLEAN
    OBVIOUS
  <2>2. QED
    BY <2>1, Zenon DEF Finding, FindingRecords
<1> HIDE DEF f
<1>3. ShownFinding(f)
  <2>1. f.recoverable <=> f.action # "none"
    BY <1>1, <1>2, Zenon
  <2>2. f.kind \in FindingKinds /\ f.severity \in {"warning", "critical"}
        /\ f.action \in TaskActions \cup {"none"}
    BY <1>1
  <2>3. QED
    BY <2>1, <2>2, Zenon DEF ShownFinding, FindingKinds
<1>4. QED
  BY <1>3, <1>r DEF f

\* Kinds, and what the two accusations rest on.
LEMMA FindingKind ==
    ASSUME NEW snap \in Snapshots, NEW commands \in SUBSET (Workers \cup Operators),
           NEW f \in Findings(snap, commands)
    PROVE  /\ f \in FindingRecords
           /\ ShownFinding(f)
           /\ f.kind = "completed_task_deliverable_missing" =>
                 \E t \in Tasks : Completed(snap.rows[t]) /\ snap.saved[t] = "none"
           /\ f.kind = "review_canonical_missing" =>
                 \E t \in Tasks : snap.reviews[t] = {"projection"}
<1>0. \A t \in Tasks : snap.saved[t] \in Evidence /\ snap.reviews[t] \in SUBSET Files
  BY DEF Snapshots
<1>1. ASSUME NEW t \in Tasks, snap.rows[t] \in TaskRecords,
             f \in TaskFinding(t, snap.rows[t], snap.saved[t])
      PROVE  /\ f \in FindingRecords
             /\ ShownFinding(f)
             /\ f.kind = "completed_task_deliverable_missing" =>
                   Completed(snap.rows[t]) /\ snap.saved[t] = "none"
             /\ f.kind # "review_canonical_missing"
  <2>1. ASSUME NEW kind \in FindingKinds, NEW severity \in {"warning", "critical"},
               NEW action \in TaskActions \cup {"none"}, f = Finding(kind, severity, t, action)
        PROVE  f.kind = kind /\ f \in FindingRecords /\ ShownFinding(f)
    BY <2>1, FindingShown DEF Finding
  <2>2. \/ /\ snap.rows[t].status = "completed" /\ snap.saved[t] = "none"
           /\ f = Finding("completed_task_deliverable_missing", "critical", t, "none")
        \/ f = Finding("task_completion_pending", "warning", t, "complete_task")
        \/ f = Finding("task_execution_interrupted", "warning", t, "fail_and_hold_task")
        \/ f = Finding("deliverable_task_conflict", "critical", t, "none")
    BY <1>0, <1>1, TaskFindingOf
  <2>3. QED
    BY <1>1, <2>1, <2>2, RecordFields DEF FindingKinds, TaskActions, Completed
<1>2. ASSUME NEW t \in Tasks,
             f \in DeliverableFinding(t, snap.rows[t], snap.saved[t])
                   \cup ReviewFinding(t, snap.reviews[t])
                   \cup RevisionFinding(t, snap.rows[t], snap.intents)
      PROVE  /\ f \in FindingRecords
             /\ ShownFinding(f)
             /\ f.kind # "completed_task_deliverable_missing"
             /\ f.kind = "review_canonical_missing" => snap.reviews[t] = {"projection"}
  <2>1. ASSUME NEW kind \in FindingKinds, NEW severity \in {"warning", "critical"},
               f = Finding(kind, severity, t, "none")
        PROVE  f.kind = kind /\ f \in FindingRecords /\ ShownFinding(f)
    BY <2>1, FindingShown DEF Finding
  <2>2. QED
    BY <1>0, <1>2, <2>1, OtherFindings DEF FindingKinds
<1>3. ASSUME NEW a \in commands, f = Finding("command_incomplete", "warning", a, "none")
      PROVE  f.kind = "command_incomplete" /\ f \in FindingRecords /\ ShownFinding(f)
  BY <1>3, FindingShown DEF Finding, FindingKinds
<1>4. QED
  BY <1>1, <1>2, <1>3, FindingOf DEF FindingKinds

-----------------------------------------------------------------------------
(* What a plan is blocked by.                                              *)

\* The evidence the action of a plan needs.
Evident(p) == p.evidence = IF p.action = "complete_task" THEN "match" ELSE "none"

\* The reason of the wrong evidence.
Unproven(p) == BlockingOrder(p.action)[2]

LEMMA Joined ==
    ASSUME NEW x, NEW y
    PROVE  <<x>> \o <<y>> = <<x, y>>
<1> DEFINE S == {x, y}
           both == <<x>> \o <<y>>
           pair == <<x, y>>
<1>1. <<x>> \in Seq(S) /\ <<y>> \in Seq(S) /\ pair \in Seq(S)
  OBVIOUS
<1>2. Len(<<x>>) = 1 /\ Len(<<y>>) = 1 /\ Len(pair) = 2 /\ pair[1] = x /\ pair[2] = y
  OBVIOUS
<1> HIDE DEF S
<1>3. both \in Seq(S) /\ Len(both) = 2 /\ both[1] = x /\ both[2] = y
  BY <1>1, <1>2, ConcatProperties
<1> HIDE DEF both, pair
<1>4. \A i \in 1 .. Len(both) : both[i] = pair[i]
  BY <1>2, <1>3
<1>5. both = pair
  BY <1>1, <1>2, <1>3, <1>4, SeqEqual
<1>6. QED
  BY <1>5 DEF both, pair

LEMMA BlockingIs ==
    ASSUME NEW p \in Plans
    PROVE  Blocking(p) =
             IF p.record.status = "in_progress"
               THEN IF Evident(p) THEN <<>> ELSE <<Unproven(p)>>
               ELSE IF Evident(p) THEN <<"task_not_in_progress">>
                                  ELSE <<"task_not_in_progress", Unproven(p)>>
<1> DEFINE first == IF p.record.status # "in_progress" THEN <<"task_not_in_progress">> ELSE <<>>
           second == CASE p.action = "complete_task" /\ p.evidence # "match" ->
                              <<"matching_deliverable_not_confirmed">>
                       [] p.action = "fail_and_hold_task" /\ p.evidence # "none" ->
                              <<"deliverable_present_or_invalid">>
                       [] OTHER -> <<>>
<1>1. Blocking(p) = first \o second
  BY DEF Blocking
<1>2. p.action = "complete_task" \/ p.action = "fail_and_hold_task"
  BY PlanFields DEF TaskActions
<1>3. second = IF Evident(p) THEN <<>> ELSE <<Unproven(p)>>
  BY <1>2 DEF Evident, Unproven, BlockingOrder
<1>4. first = IF p.record.status # "in_progress" THEN <<"task_not_in_progress">> ELSE <<>>
  OBVIOUS
<1>5. \A x : <<>> \o <<x>> = <<x>> /\ <<x>> \o <<>> = <<x>>
  OBVIOUS
<1>6. <<>> \o <<>> = <<>>
  OBVIOUS
<1> HIDE DEF first, second
<1>7. QED
  BY <1>1, <1>3, <1>4, <1>5, <1>6, Joined

LEMMA ExecutableIs ==
    ASSUME NEW p \in Plans
    PROVE  Executable(p) <=> p.record.status = "in_progress" /\ Evident(p)
<1>1. \A x, y : <<x>> # <<>> /\ <<x, y>> # <<>>
  OBVIOUS
<1>2. QED
  BY <1>1, BlockingIs DEF Executable

\* The public view of a plan refuses none.
LEMMA PlanShown ==
    ASSUME NEW p \in Plans
    PROVE  ShownPlan(p)
<1> DEFINE order == BlockingOrder(p.action)
           given == Blocking(p)
<1>1. order = <<"task_not_in_progress", Unproven(p)>>
  BY DEF Unproven, BlockingOrder
<1>2. Len(order) = 2 /\ order[1] = "task_not_in_progress" /\ order[2] = Unproven(p)
  BY <1>1
<1>3. given = IF p.record.status = "in_progress"
               THEN IF Evident(p) THEN <<>> ELSE <<Unproven(p)>>
               ELSE IF Evident(p) THEN <<"task_not_in_progress">>
                                  ELSE <<"task_not_in_progress", Unproven(p)>>
  BY BlockingIs
<1> HIDE DEF order, given
<1>4. ASSUME NEW place \in [1 .. Len(given) -> 1 .. Len(order)],
             \A i \in 1 .. Len(given) :
                /\ given[i] = order[place[i]]
                /\ \A j \in 1 .. (i - 1) : place[j] < place[i]
      PROVE  ShownPlan(p)
  BY <1>4 DEF ShownPlan, given, order
<1>5. CASE given = <<>>
  <2>1. [i \in 1 .. Len(given) |-> i] \in [1 .. Len(given) -> 1 .. Len(order)]
    BY <1>2, <1>5
  <2>2. \A i \in 1 .. Len(given) : FALSE
    BY <1>5
  <2>3. QED
    BY <1>4, <2>1, <2>2
<1>6. CASE given = <<"task_not_in_progress">>
  <2> DEFINE place == [i \in 1 .. Len(given) |-> 1]
  <2>1. place \in [1 .. Len(given) -> 1 .. Len(order)]
    BY <1>2
  <2>2. Len(given) = 1 /\ given[1] = "task_not_in_progress"
    BY <1>6
  <2>3. \A i \in 1 .. Len(given) : i = 1 /\ place[i] = 1
    BY <2>2
  <2>4. \A i \in 1 .. Len(given) :
           given[i] = order[place[i]] /\ \A j \in 1 .. (i - 1) : place[j] < place[i]
    BY <1>2, <2>2, <2>3
  <2> HIDE DEF place
  <2>5. QED
    BY <1>4, <2>1, <2>4
<1>7. CASE given = <<Unproven(p)>>
  <2> DEFINE place == [i \in 1 .. Len(given) |-> 2]
  <2>1. place \in [1 .. Len(given) -> 1 .. Len(order)]
    BY <1>2
  <2>2. Len(given) = 1 /\ given[1] = Unproven(p)
    BY <1>7
  <2>3. \A i \in 1 .. Len(given) : i = 1 /\ place[i] = 2
    BY <2>2
  <2>4. \A i \in 1 .. Len(given) :
           given[i] = order[place[i]] /\ \A j \in 1 .. (i - 1) : place[j] < place[i]
    BY <1>2, <2>2, <2>3
  <2> HIDE DEF place
  <2>5. QED
    BY <1>4, <2>1, <2>4
<1>8. CASE given = <<"task_not_in_progress", Unproven(p)>>
  <2> DEFINE place == [i \in 1 .. Len(given) |-> i]
  <2>1. Len(given) = 2 /\ given[1] = "task_not_in_progress" /\ given[2] = Unproven(p)
    BY <1>8
  <2>2. place \in [1 .. Len(given) -> 1 .. Len(order)]
    BY <1>2, <2>1
  <2>3. \A i \in 1 .. Len(given) : i \in 1 .. 2 /\ place[i] = i
    BY <2>1
  <2>4. \A i \in 1 .. Len(given) : given[i] = order[place[i]]
    BY <1>2, <2>1, <2>3
  <2>5. \A i \in 1 .. Len(given) : \A j \in 1 .. (i - 1) : place[j] < place[i]
    BY <2>1
  <2> HIDE DEF place
  <2>6. QED
    BY <1>4, <2>2, <2>4, <2>5
<1>9. QED
  BY <1>3, <1>5, <1>6, <1>7, <1>8

\* A step of an operator: types and places are kept when its own are.
LEMMA OperatorMoves ==
    ASSUME Placed, NEW o \in Operators, NEW place \in OperatorPlaces, Goto(o, place),
           rows' \in [Tasks -> TaskRecords \cup {NoTask}],
           UNCHANGED <<saved, reviews, intents, job>>,
           running' \subseteq Workers \cup Operators,
           ask' \in [Operators -> Asks], \A b \in Operators : b # o => ask'[b] = ask[b],
           seen' \in [Operators -> Snapshots],
           report' \in [Operators -> SUBSET FindingRecords],
           plans' \subseteq Plans, plans \subseteq plans',
           reply' \in [Operators -> Replies], did' \in [Operators -> SUBSET Changes],
           OperatorPlaced(o)', AppliesOf(ask'[o], plans')
    PROVE  Placed'
<1>1. /\ pc' \in [Workers \cup Operators -> WorkerPlaces \cup OperatorPlaces]
      /\ pc'[o] = place
      /\ \A b \in Workers \cup Operators : b # o => pc'[b] = pc[b]
  BY Went DEF Placed
<1>2. TypeOK'
  BY <1>1 DEF Placed, TypeOK, Snapshots
<1>3. WorkersPlaced'
  BY <1>1, ActorsAssumption DEF Placed, WorkersPlaced
<1>4. ASSUME NEW b \in Operators, b # o
      PROVE  OperatorPlaced(b)'
  BY <1>1, <1>4 DEF Placed, OperatorsPlaced, OperatorPlaced
<1>5. AppliesApproved'
  BY DEF Placed, AppliesApproved, AppliesOf
<1>6. QED
  BY <1>2, <1>3, <1>4, <1>5 DEF Placed, OperatorsPlaced

\* An operator that leaves asks for nothing.
LEMMA LeaveMoves ==
    ASSUME Placed, NEW o \in Operators, NEW status \in Replies, Leave(o, status),
           rows' \in [Tasks -> TaskRecords \cup {NoTask}],
           UNCHANGED <<saved, reviews, intents, running, job, report, plans>>,
           seen' \in [Operators -> Snapshots], did' \in [Operators -> SUBSET Changes]
    PROVE  Placed'
<1> DEFINE place == IF o \in running THEN "finish" ELSE "idle"
<1>1. Goto(o, place) /\ place \in OperatorPlaces
  BY DEF Leave, OperatorPlaces
<1>2. /\ ask' \in [Operators -> Asks] /\ ask'[o] = NoAsk
      /\ \A b \in Operators : b # o => ask'[b] = ask[b]
  BY NoAskTyped DEF Leave, Placed, TypeOK
<1>3. pc'[o] \in {"finish", "idle"}
  BY <1>1, Went DEF Placed
<1>4. reply' \in [Operators -> Replies]
  BY DEF Leave, Placed, TypeOK
<1>5. OperatorPlaced(o)' /\ AppliesOf(ask'[o], plans')
  BY <1>2, <1>3, NoAskTyped DEF OperatorPlaced, OperatorPlaces, AppliesOf
<1>6. /\ running' \subseteq Workers \cup Operators
      /\ report' \in [Operators -> SUBSET FindingRecords]
      /\ plans' \subseteq Plans /\ plans \subseteq plans'
  BY DEF Placed, TypeOK
<1> HIDE DEF place
<1>7. QED
  BY <1>1, <1>2, <1>4, <1>5, <1>6, OperatorMoves

\* A new errand.
LEMMA AskMoves ==
    ASSUME Placed, NEW o \in Operators, NEW request \in Asks, Ask(o, request),
           request.kind \in {"inspect", "plan", "apply"}, AppliesOf(request, plans),
           request.checks = 2 => request.kind = "apply",
           request.kind = "apply" => request.checks \in 1 .. 2
    PROVE  Placed'
<1> DEFINE place == IF request.checks = 2 THEN "claim" ELSE "tasks"
<1>1. Goto(o, place) /\ place \in OperatorPlaces
  BY DEF Ask, OperatorPlaces
<1>2. /\ ask' \in [Operators -> Asks] /\ ask'[o] = request
      /\ \A b \in Operators : b # o => ask'[b] = ask[b]
  BY DEF Ask, Placed, TypeOK
<1>3. pc'[o] = place
  BY <1>1, Went DEF Placed
<1>4. reply' \in [Operators -> Replies] /\ did' \in [Operators -> SUBSET Changes]
  BY DEF Ask, Placed, TypeOK, Replies
<1>5. report' \in [Operators -> SUBSET FindingRecords]
  BY DEF Ask, Placed, TypeOK
<1>6. UNCHANGED <<rows, saved, reviews, intents, running, job, seen, plans>>
  BY DEF Ask, store
<1>7. OperatorPlaced(o)' /\ AppliesOf(ask'[o], plans')
  BY <1>2, <1>3, <1>6 DEF OperatorPlaced, OperatorPlaces
<1>8. /\ rows' \in [Tasks -> TaskRecords \cup {NoTask}] /\ seen' \in [Operators -> Snapshots]
      /\ running' \subseteq Workers \cup Operators
      /\ plans' \subseteq Plans /\ plans \subseteq plans'
  BY <1>6 DEF Placed, TypeOK, Snapshots
<1> HIDE DEF place
<1>9. QED
  BY <1>1, <1>2, <1>4, <1>5, <1>6, <1>7, <1>8, OperatorMoves

LEMMA OperatorPlacedStays ==
    ASSUME Placed, NEW o \in Operators, OperatorStep(o)
    PROVE  Placed'
<1>t. /\ rows \in [Tasks -> TaskRecords \cup {NoTask}]
      /\ saved \in [Tasks -> Evidence]
      /\ reviews \in [Tasks -> SUBSET Files]
      /\ intents \in SUBSET Tasks
      /\ running \subseteq Workers \cup Operators
      /\ ask \in [Operators -> Asks]
      /\ seen \in [Operators -> Snapshots]
      /\ report \in [Operators -> SUBSET FindingRecords]
      /\ plans \subseteq Plans
      /\ reply \in [Operators -> Replies]
      /\ did \in [Operators -> SUBSET Changes]
  BY DEF Placed, TypeOK, Snapshots
<1>o. OperatorPlaced(o) /\ AppliesOf(ask[o], plans)
  BY DEF Placed, OperatorsPlaced, AppliesApproved
<1>s. seen[o] \in Snapshots /\ ask[o] \in Asks
  BY <1>t
<1>a. ask[o].kind = "apply" => /\ ask[o].plan \in Plans
                               /\ ask[o].plan.task \in Tasks
                               /\ ask[o].plan.record.version \in Nat
  BY <1>s, AskFields, PlanFields, RecordFields
<1>1. CASE Inspect(o)
  <2> DEFINE request == [NoAsk EXCEPT !.kind = "inspect"]
  <2>1. request \in Asks /\ request.kind = "inspect" /\ request.checks = 0
    BY DEF NoAsk, Asks
  <2>2. Ask(o, request) /\ AppliesOf(request, plans)
    BY <1>1, <2>1 DEF Inspect, AppliesOf
  <2> HIDE DEF request
  <2>3. QED
    BY <2>1, <2>2, AskMoves
<1>2. ASSUME NEW t \in Tasks, NEW action \in TaskActions, Prepare(o, t, action)
      PROVE  Placed'
  <2> DEFINE request == [NoAsk EXCEPT !.kind = "plan", !.task = t, !.action = action]
  <2>1. request \in Asks /\ request.kind = "plan" /\ request.checks = 0
    BY DEF NoAsk, Asks
  <2>2. Ask(o, request) /\ AppliesOf(request, plans)
    BY <1>2, <2>1 DEF Prepare, AppliesOf
  <2> HIDE DEF request
  <2>3. QED
    BY <2>1, <2>2, AskMoves
<1>3. ASSUME NEW p \in plans, NEW checks \in 1 .. 2, Apply(o, p, checks)
      PROVE  Placed'
  <2> DEFINE request == [kind |-> "apply", task |-> p.task, action |-> p.action,
                         plan |-> p, checks |-> checks]
  <2>1. p \in Plans
    BY <1>t
  <2>2. /\ request \in Asks /\ request.kind = "apply" /\ request.checks = checks
        /\ request.plan = p /\ request.task = p.task /\ request.action = p.action
    BY <2>1, PlanFields DEF Asks
  <2>3. Ask(o, request) /\ AppliesOf(request, plans)
    BY <1>3, <2>2 DEF Apply, AppliesOf
  <2> HIDE DEF request
  <2>4. QED
    BY <2>2, <2>3, AskMoves
<1>4. CASE Claim(o)
  <2>1. Goto(o, "tasks") /\ pc'[o] = "tasks"
    BY <1>4, Went DEF Placed, Claim, OperatorPlaces
  <2>2. UNCHANGED <<rows, saved, reviews, intents, job, ask, seen, report, plans, reply, did>>
    BY <1>4 DEF Claim, store, reading
  <2>3. ask[o].kind = "apply" /\ ask[o].checks = 2
    BY <1>4, <1>o DEF Claim, OperatorPlaced
  <2>4. OperatorPlaced(o)' /\ AppliesOf(ask'[o], plans')
    BY <1>o, <2>1, <2>2, <2>3 DEF OperatorPlaced, OperatorPlaces
  <2>5. running' \subseteq Workers \cup Operators
    BY <1>4, <1>t DEF Claim
  <2>6. QED
    BY <1>t, <2>1, <2>2, <2>4, <2>5, OperatorMoves DEF OperatorPlaces
<1>5. CASE ReadTasks(o)
  <2>1. Goto(o, "deliverables") /\ pc'[o] = "deliverables"
    BY <1>5, Went DEF Placed, ReadTasks, OperatorPlaces
  <2>2. UNCHANGED <<rows, saved, reviews, intents, running, job, ask, report, plans, reply, did>>
    BY <1>5 DEF ReadTasks, store
  <2>3. OperatorPlaced(o)' /\ AppliesOf(ask'[o], plans')
    BY <1>5, <1>o, <2>1, <2>2 DEF ReadTasks, OperatorPlaced, OperatorPlaces
  <2>4. seen' \in [Operators -> Snapshots]
    BY <1>5, <1>s, <1>t, SnapshotFields DEF ReadTasks
  <2>5. QED
    BY <1>t, <2>1, <2>2, <2>3, <2>4, OperatorMoves DEF OperatorPlaces
<1>6. CASE ReadDeliverables(o)
  <2>1. Goto(o, "reviews") /\ pc'[o] = "reviews"
    BY <1>6, Went DEF Placed, ReadDeliverables, OperatorPlaces
  <2>2. UNCHANGED <<rows, saved, reviews, intents, running, job, ask, report, plans, reply, did>>
    BY <1>6 DEF ReadDeliverables, store
  <2>3. OperatorPlaced(o)' /\ AppliesOf(ask'[o], plans')
    BY <1>6, <1>o, <2>1, <2>2 DEF ReadDeliverables, OperatorPlaced, OperatorPlaces
  <2>4. seen' \in [Operators -> Snapshots]
    BY <1>6, <1>s, <1>t, SnapshotFields DEF ReadDeliverables
  <2>5. QED
    BY <1>t, <2>1, <2>2, <2>3, <2>4, OperatorMoves DEF OperatorPlaces
<1>7. CASE ReadReviews(o)
  <2>1. Goto(o, "revisions") /\ pc'[o] = "revisions"
    BY <1>7, Went DEF Placed, ReadReviews, OperatorPlaces
  <2>2. UNCHANGED <<rows, saved, reviews, intents, running, job, ask, report, plans, reply, did>>
    BY <1>7 DEF ReadReviews, store
  <2>3. OperatorPlaced(o)' /\ AppliesOf(ask'[o], plans')
    BY <1>7, <1>o, <2>1, <2>2 DEF ReadReviews, OperatorPlaced, OperatorPlaces
  <2>4. seen' \in [Operators -> Snapshots]
    BY <1>7, <1>s, <1>t, SnapshotFields DEF ReadReviews
  <2>5. QED
    BY <1>t, <2>1, <2>2, <2>3, <2>4, OperatorMoves DEF OperatorPlaces
<1>8. CASE ReadRevisions(o)
  <2>1. Goto(o, "commands") /\ pc'[o] = "commands"
    BY <1>8, Went DEF Placed, ReadRevisions, OperatorPlaces
  <2>2. UNCHANGED <<rows, saved, reviews, intents, running, job, ask, report, plans, reply, did>>
    BY <1>8 DEF ReadRevisions, store
  <2>3. OperatorPlaced(o)' /\ AppliesOf(ask'[o], plans')
    BY <1>8, <1>o, <2>1, <2>2 DEF ReadRevisions, OperatorPlaced, OperatorPlaces
  <2>4. seen' \in [Operators -> Snapshots]
    BY <1>8, <1>s, <1>t, SnapshotFields DEF ReadRevisions
  <2>5. QED
    BY <1>t, <2>1, <2>2, <2>3, <2>4, OperatorMoves DEF OperatorPlaces
<1>n. seen' = [seen EXCEPT ![o] = Nothing] => seen' \in [Operators -> Snapshots]
  BY <1>t, NothingTyped
<1>9. CASE Report(o)
  <2>1. Goto(o, "idle") /\ pc'[o] = "idle"
    BY <1>9, Went DEF Placed, Report, OperatorPlaces
  <2>2. UNCHANGED <<rows, saved, reviews, intents, running, job, plans, reply, did>>
    BY <1>9 DEF Report, store
  <2>3. /\ ask' \in [Operators -> Asks] /\ ask'[o] = NoAsk
        /\ \A b \in Operators : b # o => ask'[b] = ask[b]
    BY <1>9, <1>t, NoAskTyped DEF Report
  <2>4. OperatorPlaced(o)' /\ AppliesOf(ask'[o], plans')
    BY <2>1, <2>3, NoAskTyped DEF OperatorPlaced, OperatorPlaces, AppliesOf
  <2>5. report' \in [Operators -> SUBSET FindingRecords]
    <3>1. \A f \in Findings(seen[o], running) : f \in FindingRecords
      BY <1>t, <1>s, FindingKind
    <3>2. report' = [report EXCEPT ![o] = Findings(seen[o], running)]
      BY <1>9 DEF Report
    <3>3. QED
      BY <1>t, <3>1, <3>2
  <2>6. seen' \in [Operators -> Snapshots]
    BY <1>9, <1>n DEF Report
  <2>7. QED
    BY <1>t, <2>1, <2>2, <2>3, <2>4, <2>5, <2>6, OperatorMoves DEF OperatorPlaces
<1>10. CASE CannotPlan(o)
  BY <1>10, <1>t, <1>n, LeaveMoves DEF CannotPlan, store, Replies
<1>11. CASE HandOut(o)
  <2>1. Goto(o, "idle") /\ pc'[o] = "idle"
    BY <1>11, Went DEF Placed, HandOut, OperatorPlaces
  <2>2. UNCHANGED <<rows, saved, reviews, intents, running, job, report, reply, did>>
    BY <1>11 DEF HandOut, store
  <2>3. /\ ask' \in [Operators -> Asks] /\ ask'[o] = NoAsk
        /\ \A b \in Operators : b # o => ask'[b] = ask[b]
    BY <1>11, <1>t, NoAskTyped DEF HandOut
  <2>4. OperatorPlaced(o)' /\ AppliesOf(ask'[o], plans')
    BY <2>1, <2>3, NoAskTyped DEF OperatorPlaced, OperatorPlaces, AppliesOf
  <2>5. plans' \subseteq Plans /\ plans \subseteq plans'
    <3>1. ask[o].task \in Tasks /\ ask[o].action \in TaskActions
      BY <1>11, <1>s, AskFields DEF HandOut
    <3>2. seen[o].rows[ask[o].task] \in TaskRecords /\ saved[ask[o].task] \in Evidence
      BY <1>11, <1>s, <1>t, <3>1 DEF HandOut, Snapshots
    <3>3. CurrentPlan(o) \in Plans
      BY <3>1, <3>2 DEF CurrentPlan, MakePlan, Plans
    <3>4. QED
      BY <1>11, <1>t, <3>3 DEF HandOut
  <2>6. seen' \in [Operators -> Snapshots]
    BY <1>11, <1>n DEF HandOut
  <2>7. QED
    BY <1>t, <2>1, <2>2, <2>3, <2>4, <2>5, <2>6, OperatorMoves DEF OperatorPlaces
<1>12. CASE Check(o)
  <2> DEFINE place == IF ask[o].checks = 2 THEN "tasks" ELSE "repair"
  <2>1. Goto(o, place) /\ pc'[o] = place /\ place \in OperatorPlaces
    BY <1>12, Went DEF Placed, Check, OperatorPlaces
  <2>2. UNCHANGED <<rows, saved, reviews, intents, running, job, report, plans, reply, did>>
    BY <1>12 DEF Check, store
  <2>3. ask[o].checks \in 1 .. 2 /\ ask[o].kind = "apply"
    BY <1>12, <1>o DEF Check, OperatorPlaced
  <2>4. ask[o] = [kind |-> "apply", task |-> ask[o].task, action |-> ask[o].action,
                  plan |-> ask[o].plan, checks |-> ask[o].checks]
    BY <1>s, <2>3 DEF Asks, NoAsk
  <2>5. ask'[o] = [kind |-> "apply", task |-> ask[o].task, action |-> ask[o].action,
                   plan |-> ask[o].plan, checks |-> ask[o].checks - 1]
    <3>1. ask'[o] = [ask[o] EXCEPT !.checks = @ - 1]
      BY <1>12, <1>t DEF Check
    <3>2. QED
      BY <2>4, <3>1
  <2>6. ask'[o] \in Asks
    BY <1>s, <2>3, <2>5, AskFields DEF Asks
  <2>7. ask' \in [Operators -> Asks] /\ \A b \in Operators : b # o => ask'[b] = ask[b]
    BY <1>12, <1>t, <2>6 DEF Check
  <2>8. ask[o].checks = 2 => ask'[o].checks = 1
    BY <2>5
  <2>9. OperatorPlaced(o)' /\ AppliesOf(ask'[o], plans')
    BY <1>o, <2>1, <2>2, <2>3, <2>5, <2>8 DEF OperatorPlaced, OperatorPlaces, AppliesOf
  <2>10. seen' \in [Operators -> Snapshots]
    BY <1>12, <1>n DEF Check
  <2> HIDE DEF place
  <2>11. QED
    BY <1>t, <2>1, <2>2, <2>7, <2>9, <2>10, OperatorMoves
<1>13. CASE Stale(o)
  BY <1>13, <1>t, <1>n, LeaveMoves DEF Stale, store, Replies
<1>14. CASE RepairCompletes(o)
  <2>1. Change(ask[o].plan.task, "complete", NoReason)
    BY <1>14 DEF RepairCompletes, Expected
  <2>2. rows' \in [Tasks -> TaskRecords \cup {NoTask}]
    BY <1>14, <1>o, <1>a, <2>1, ChangeMakes
       DEF RepairCompletes, OperatorPlaced, Changes, Placed
  <2>3. did' \in [Operators -> SUBSET Changes]
    BY <1>14, <1>t DEF RepairCompletes, Expected, Changes
  <2>4. PICK status \in Replies : Leave(o, status)
    BY <1>14 DEF RepairCompletes, Replies
  <2>5. QED
    BY <1>14, <1>t, <2>2, <2>3, <2>4, LeaveMoves DEF RepairCompletes
<1>15. ASSUME NEW reason \in Reasons, RepairFails(o, reason)
       PROVE  Placed'
  <2>1. Change(ask[o].plan.task, "fail", reason)
    BY <1>15 DEF RepairFails, Expected
  <2>2. rows' \in [Tasks -> TaskRecords \cup {NoTask}]
    BY <1>15, <1>o, <1>a, <2>1, ChangeMakes
       DEF RepairFails, OperatorPlaced, Changes, Placed
  <2>3. did' \in [Operators -> SUBSET Changes]
    BY <1>15, <1>t DEF RepairFails, Expected, Changes
  <2>4. CASE Goto(o, "rehold") /\ UNCHANGED <<reply, ask>>
    <3>1. pc'[o] = "rehold"
      BY <2>4, Went DEF Placed, OperatorPlaces
    <3>2. OperatorPlaced(o)' /\ AppliesOf(ask'[o], plans')
      BY <1>15, <1>o, <2>4, <3>1 DEF RepairFails, OperatorPlaced, OperatorPlaces
    <3>3. QED
      BY <1>15, <1>t, <2>2, <2>3, <2>4, <3>2, OperatorMoves DEF RepairFails, OperatorPlaces
  <2>5. CASE Leave(o, "failed")
    BY <1>15, <1>t, <2>2, <2>3, <2>5, LeaveMoves DEF RepairFails, Replies
  <2>6. QED
    BY <1>15, <2>4, <2>5 DEF RepairFails
<1>16. ASSUME NEW reason \in Reasons, RepairHolds(o, reason)
       PROVE  Placed'
  <2>1. Change(ask[o].plan.task, "hold", reason)
    BY <1>16 DEF RepairHolds, Expected
  <2>2. rows' \in [Tasks -> TaskRecords \cup {NoTask}]
    BY <1>16, <1>o, <1>a, <2>1, ChangeMakes
       DEF RepairHolds, OperatorPlaced, Changes, Placed
  <2>3. did' \in [Operators -> SUBSET Changes]
    BY <1>16, <1>t DEF RepairHolds, Expected, Changes
  <2>4. PICK status \in Replies : Leave(o, status)
    BY <1>16 DEF RepairHolds, Replies
  <2>5. QED
    BY <1>16, <1>t, <2>2, <2>3, <2>4, LeaveMoves DEF RepairHolds
<1>17. CASE RepairRefused(o)
  BY <1>17, <1>t, LeaveMoves DEF RepairRefused, store, Replies
<1>18. CASE FinishApply(o)
  <2>1. Goto(o, "idle") /\ pc'[o] = "idle"
    BY <1>18, Went DEF Placed, FinishApply, OperatorPlaces
  <2>2. UNCHANGED <<rows, saved, reviews, intents, job, ask, seen, report, plans, reply, did>>
    BY <1>18 DEF FinishApply, store, reading
  <2>3. OperatorPlaced(o)' /\ AppliesOf(ask'[o], plans')
    BY <1>o, <2>1, <2>2 DEF OperatorPlaced, OperatorPlaces
  <2>4. running' \subseteq Workers \cup Operators
    BY <1>18, <1>t DEF FinishApply
  <2>5. QED
    BY <1>t, <2>1, <2>2, <2>3, <2>4, OperatorMoves DEF OperatorPlaces
<1>19. QED
  BY <1>1, <1>2, <1>3, <1>4, <1>5, <1>6, <1>7, <1>8, <1>9, <1>10, <1>11, <1>12, <1>13,
     <1>14, <1>15, <1>16, <1>17, <1>18 DEF OperatorStep

\* What a death changes.
LEMMA DeathOf ==
    ASSUME Placed, NEW a \in Workers \cup Operators, Dies(a)
    PROVE  /\ pc' \in [Workers \cup Operators -> WorkerPlaces \cup OperatorPlaces]
           /\ pc'[a] = "dead"
           /\ \A b \in Workers \cup Operators : b # a => pc'[b] = pc[b]
           /\ \A w \in Workers : w # a => job'[w] = job[w]
           /\ \A o \in Operators : seen'[o] = IF o = a THEN Nothing ELSE seen[o]
           /\ \A o \in Operators : ask'[o] = IF o = a THEN NoAsk ELSE ask[o]
           /\ UNCHANGED <<rows, saved, reviews, intents, running, report, plans, reply, did>>
BY Went DEF Placed, Dies, store, WorkerPlaces

LEMMA DiesPlaced ==
    ASSUME Placed, NEW a \in Workers \cup Operators, Dies(a)
    PROVE  Placed'
<1>1. /\ seen' \in [Operators -> Snapshots]
      /\ ask' \in [Operators -> Asks]
      /\ job' \in [Workers -> Tasks \cup {NoTask}]
  BY NothingTyped, NoAskTyped DEF Dies, Placed, TypeOK, Snapshots
<1>2. TypeOK'
  BY <1>1, DeathOf DEF Placed, TypeOK, Snapshots
<1>3. WorkersPlaced'
  BY DeathOf DEF Placed, WorkersPlaced, WorkerPlaces
<1>4. ASSUME NEW o \in Operators
      PROVE  OperatorPlaced(o)' /\ AppliesOf(ask'[o], plans')
  <2>1. CASE o = a
    BY <2>1, DeathOf, NoAskTyped DEF OperatorPlaced, OperatorPlaces, AppliesOf
  <2>2. CASE o # a
    BY <2>2, DeathOf DEF Placed, OperatorsPlaced, OperatorPlaced, AppliesApproved
  <2>3. QED
    BY <2>1, <2>2
<1>5. QED
  BY <1>2, <1>3, <1>4 DEF Placed, OperatorsPlaced, AppliesApproved

LEMMA PlacedNext == Placed /\ [Next]_vars => Placed'
<1> SUFFICES ASSUME Placed, [Next]_vars PROVE Placed'
  OBVIOUS
<1>1. CASE UNCHANGED vars
  BY <1>1 DEF vars, store, reading, Placed, TypeOK, WorkersPlaced, OperatorsPlaced,
              OperatorPlaced, AppliesApproved
<1>2. CASE Next
  BY <1>2, WorkerPlaced, OperatorPlacedStays, DiesPlaced DEF Next
<1>3. QED
  BY <1>1, <1>2

-----------------------------------------------------------------------------
(* How the documents grow.                                                 *)

\* Whatever the step: every record moves on, and evidence stays.
EvidenceStays ==
    /\ \A t \in Tasks : saved[t] = "match" => saved'[t] = "match"
    /\ \A t \in Tasks : "canonical" \in reviews[t] => "canonical" \in reviews'[t]

\* What keeps the evidence first.
LEMMA EvidenceStep ==
    ASSUME Placed, EvidenceFirst, EvidenceStays,
           \A t \in Tasks : Completed(rows'[t]) => Completed(rows[t]) \/ saved'[t] = "match",
           \A t \in Tasks : reviews'[t] # {} => reviews[t] # {} \/ "canonical" \in reviews'[t],
           \A v \in Workers : pc'[v] = "complete" =>
              \/ pc[v] = "complete" /\ job'[v] = job[v]
              \/ saved'[job'[v]] = "match",
           \A v \in Workers : pc'[v] = "projection" =>
              \/ pc[v] = "projection" /\ job'[v] = job[v]
              \/ "canonical" \in reviews'[job'[v]]
    PROVE  EvidenceFirst'
<1>1. \A v \in Workers : pc[v] \in {"complete", "projection"} => job[v] \in Tasks
  BY DEF Placed, WorkersPlaced
<1>2. ASSUME NEW t \in Tasks
      PROVE  /\ Completed(rows'[t]) => saved'[t] = "match"
             /\ reviews'[t] # {} => "canonical" \in reviews'[t]
  BY DEF EvidenceFirst, EvidenceStays
<1>3. ASSUME NEW v \in Workers
      PROVE  /\ pc'[v] = "complete" => saved'[job'[v]] = "match"
             /\ pc'[v] = "projection" => "canonical" \in reviews'[job'[v]]
  BY <1>1 DEF EvidenceFirst, EvidenceStays
<1>4. QED
  BY <1>2, <1>3 DEF EvidenceFirst, Completed

\* A change other than a completion completes nothing.
LEMMA ChangeCompletes ==
    ASSUME TypeOK, NEW t \in Tasks, NEW kind \in Changes, NEW reason \in Reasons \cup {NoReason},
           Change(t, kind, reason)
    PROVE  \A u \in Tasks : Completed(rows'[u]) => Completed(rows[u]) \/ (u = t /\ kind = "complete")
<1>1. ASSUME kind # "complete"
      PROVE  rows'[t].status # "completed"
  <2>1. CASE kind = "fail"
    BY <2>1, ChangeMakes DEF CanChange
  <2>2. CASE kind # "fail"
    BY <1>1, <2>2, ChangeMakes DEF Target, Changes
  <2>3. QED
    BY <2>1, <2>2
<1>2. QED
  BY <1>1, ChangeMakes DEF Completed

\* A worker's step: the documents grow, the evidence comes first, and nothing
\* an operator holds is touched.
LEMMA WorkerKeeps ==
    ASSUME Placed, EvidenceFirst, NEW w \in Workers, WorkerStep(w)
    PROVE  /\ Grown /\ EvidenceStays /\ EvidenceFirst'
           /\ UNCHANGED reading
           /\ \A o \in Operators : pc'[o] = pc[o]
<1>t. /\ TypeOK
      /\ rows \in [Tasks -> TaskRecords \cup {NoTask}]
      /\ saved \in [Tasks -> Evidence]
      /\ reviews \in [Tasks -> SUBSET Files]
      /\ job \in [Workers -> Tasks \cup {NoTask}]
      /\ pc[w] \notin {"idle", "dead"} => job[w] \in Tasks
  BY DEF Placed, TypeOK, WorkersPlaced
<1>w. \A place \in WorkerPlaces : Goto(w, place) =>
         /\ pc'[w] = place
         /\ \A b \in Workers \cup Operators : b # w => pc'[b] = pc[b]
         /\ \A o \in Operators : pc'[o] = pc[o]
  BY <1>t, Went, ActorsAssumption
<1> USE DEF WorkerPlaces
<1>1. ASSUME NEW t \in Tasks, NEW first \in {"start", "canonical", "intent"}, Begin(w, t, first)
      PROVE  /\ Grown /\ EvidenceStays /\ EvidenceFirst'
             /\ UNCHANGED reading
             /\ \A o \in Operators : pc'[o] = pc[o]
  <2>1. UNCHANGED <<rows, saved, reviews, intents, reading>>
    BY <1>1 DEF Begin, store
  <2>2. /\ pc'[w] = first /\ \A b \in Workers \cup Operators : b # w => pc'[b] = pc[b]
        /\ \A o \in Operators : pc'[o] = pc[o]
    BY <1>1, <1>w DEF Begin
  <2>3. \A v \in Workers : v # w => job'[v] = job[v]
    BY <1>1, <1>t DEF Begin
  <2>4. Grown /\ EvidenceStays
    BY <1>t, <2>1, UnchangedGrown DEF EvidenceStays
  <2>5. EvidenceFirst'
    BY <2>1, <2>2, <2>3, <2>4, EvidenceStep
  <2>6. QED
    BY <2>1, <2>2, <2>4, <2>5
<1>2. ASSUME NEW kind \in Changes, NEW reason \in Reasons \cup {NoReason},
             pc[w] \notin {"idle", "dead"}, Change(job[w], kind, reason),
             kind = "complete" => pc[w] = "complete",
             NEW place \in {"save", "hold", "finish"}, Goto(w, place),
             UNCHANGED <<saved, reviews, intents, running, job, reading>>
      PROVE  /\ Grown /\ EvidenceStays /\ EvidenceFirst'
             /\ UNCHANGED reading
             /\ \A o \in Operators : pc'[o] = pc[o]
  <2>1. Grown /\ EvidenceStays
    BY <1>2, <1>t, ChangeGrown DEF EvidenceStays
  <2>2. \A t \in Tasks : Completed(rows'[t]) => Completed(rows[t]) \/ saved'[t] = "match"
    <3>1. \A t \in Tasks : Completed(rows'[t]) =>
             Completed(rows[t]) \/ (t = job[w] /\ kind = "complete")
      BY <1>2, <1>t, ChangeCompletes
    <3>2. QED
      BY <1>2, <3>1 DEF EvidenceFirst
  <2>3. /\ pc'[w] = place /\ \A b \in Workers \cup Operators : b # w => pc'[b] = pc[b]
        /\ \A o \in Operators : pc'[o] = pc[o]
    BY <1>2, <1>w
  <2>4. EvidenceFirst'
    BY <1>2, <2>1, <2>2, <2>3, EvidenceStep
  <2>5. QED
    BY <1>2, <2>1, <2>3, <2>4
<1>3. CASE Start(w)
  BY <1>3, <1>2 DEF Start, Changes
<1>4. CASE Save(w)
  <2>1. /\ saved'[job[w]] = "match"
        /\ \A t \in Tasks : t # job[w] => saved'[t] = saved[t]
    BY <1>4, <1>t DEF Save
  <2>2. UNCHANGED <<rows, reviews, intents, job, reading>>
    BY <1>4 DEF Save
  <2>3. Grown /\ EvidenceStays
    BY <1>t, <2>1, <2>2, UnchangedGrown DEF EvidenceStays
  <2>4. /\ pc'[w] \in {"complete", "fail"}
        /\ \A b \in Workers \cup Operators : b # w => pc'[b] = pc[b]
        /\ \A o \in Operators : pc'[o] = pc[o]
    BY <1>4, <1>w DEF Save
  <2>5. EvidenceFirst'
    BY <2>1, <2>2, <2>3, <2>4, EvidenceStep
  <2>6. QED
    BY <2>2, <2>3, <2>4, <2>5
<1>5. ASSUME NEW place \in {"fail", "finish"}, Goto(w, place),
             UNCHANGED <<rows, saved, reviews, job, reading>>
      PROVE  /\ Grown /\ EvidenceStays /\ EvidenceFirst'
             /\ UNCHANGED reading
             /\ \A o \in Operators : pc'[o] = pc[o]
  <2>1. Grown /\ EvidenceStays
    BY <1>5, <1>t, UnchangedGrown DEF EvidenceStays
  <2>2. /\ pc'[w] = place /\ \A b \in Workers \cup Operators : b # w => pc'[b] = pc[b]
        /\ \A o \in Operators : pc'[o] = pc[o]
    BY <1>5, <1>w
  <2>3. EvidenceFirst'
    BY <1>5, <2>1, <2>2, EvidenceStep
  <2>4. QED
    BY <1>5, <2>1, <2>2, <2>3
<1>6. CASE NotSaved(w)
  BY <1>6, <1>5 DEF NotSaved, store
<1>7. CASE Complete(w)
  BY <1>7, <1>2 DEF Complete, Changes
<1>8. ASSUME NEW reason \in Reasons, Fail(w, reason) \/ Hold(w, reason)
      PROVE  /\ Grown /\ EvidenceStays /\ EvidenceFirst'
             /\ UNCHANGED reading
             /\ \A o \in Operators : pc'[o] = pc[o]
  <2>1. CASE Fail(w, reason)
    BY <2>1, <1>2 DEF Fail, Changes
  <2>2. CASE Hold(w, reason)
    BY <2>2, <1>2 DEF Hold, Changes
  <2>3. QED
    BY <1>8, <2>1, <2>2
<1>9. CASE GivesUp(w)
  BY <1>9, <1>5 DEF GivesUp, store
<1>10. CASE Canonical(w)
  <2>1. /\ reviews'[job[w]] = {"canonical"}
        /\ \A t \in Tasks : t # job[w] => reviews'[t] = reviews[t]
    BY <1>10, <1>t DEF Canonical
  <2>2. UNCHANGED <<rows, saved, intents, job, reading>>
    BY <1>10 DEF Canonical
  <2>3. Grown /\ EvidenceStays
    BY <1>t, <2>1, <2>2, UnchangedGrown DEF EvidenceStays
  <2>4. /\ pc'[w] \in {"projection", "finish"}
        /\ \A b \in Workers \cup Operators : b # w => pc'[b] = pc[b]
        /\ \A o \in Operators : pc'[o] = pc[o]
    BY <1>10, <1>w DEF Canonical
  <2>5. EvidenceFirst'
    BY <2>1, <2>2, <2>3, <2>4, EvidenceStep
  <2>6. QED
    BY <2>2, <2>3, <2>4, <2>5
<1>11. CASE Projection(w)
  <2>1. \A t \in Tasks : /\ reviews[t] \subseteq reviews'[t]
                         /\ t # job[w] => reviews'[t] = reviews[t]
    BY <1>11, <1>t DEF Projection
  <2>2. "canonical" \in reviews[job[w]]
    BY <1>11 DEF Projection, EvidenceFirst
  <2>3. UNCHANGED <<rows, saved, intents, job, reading>>
    BY <1>11 DEF Projection
  <2>4. Grown /\ EvidenceStays
    BY <1>t, <2>1, <2>3, UnchangedGrown DEF EvidenceStays
  <2>5. /\ pc'[w] = "finish"
        /\ \A b \in Workers \cup Operators : b # w => pc'[b] = pc[b]
        /\ \A o \in Operators : pc'[o] = pc[o]
    BY <1>11, <1>w DEF Projection
  <2>6. EvidenceFirst'
    BY <2>1, <2>2, <2>3, <2>4, <2>5, EvidenceStep
  <2>7. QED
    BY <2>3, <2>4, <2>5, <2>6
<1>12. CASE Intent(w)
  <2>1. UNCHANGED <<rows, saved, reviews, job, reading>>
    BY <1>12 DEF Intent
  <2>2. Grown /\ EvidenceStays
    BY <1>t, <2>1, UnchangedGrown DEF EvidenceStays
  <2>3. /\ pc'[w] = "row" /\ \A b \in Workers \cup Operators : b # w => pc'[b] = pc[b]
        /\ \A o \in Operators : pc'[o] = pc[o]
    BY <1>12, <1>w DEF Intent
  <2>4. EvidenceFirst'
    BY <2>1, <2>2, <2>3, EvidenceStep
  <2>5. QED
    BY <2>1, <2>2, <2>3, <2>4
<1>13. CASE Row(w)
  <2>1. /\ rows[job[w]] = NoTask /\ rows'[job[w]] = NewTask
        /\ \A t \in Tasks : t # job[w] => rows'[t] = rows[t]
    BY <1>13, <1>t DEF Row
  <2>2. UNCHANGED <<saved, reviews, intents, job, reading>>
    BY <1>13 DEF Row
  <2>3. Grown
    BY <1>t, <2>1, PastIsReflexive DEF Grown, OfThePast
  <2>4. EvidenceStays
    BY <2>2 DEF EvidenceStays
  <2>5. \A t \in Tasks : Completed(rows'[t]) => Completed(rows[t])
    BY <2>1 DEF Completed, NewTask
  <2>6. /\ pc'[w] = "finish" /\ \A b \in Workers \cup Operators : b # w => pc'[b] = pc[b]
        /\ \A o \in Operators : pc'[o] = pc[o]
    BY <1>13, <1>w DEF Row
  <2>7. EvidenceFirst'
    BY <2>2, <2>4, <2>5, <2>6, EvidenceStep
  <2>8. QED
    BY <2>2, <2>3, <2>4, <2>6, <2>7
<1>14. CASE Finish(w)
  <2>1. UNCHANGED <<rows, saved, reviews, intents, reading>>
    BY <1>14 DEF Finish, store
  <2>2. /\ pc'[w] = "idle" /\ \A b \in Workers \cup Operators : b # w => pc'[b] = pc[b]
        /\ \A o \in Operators : pc'[o] = pc[o]
    BY <1>14, <1>w DEF Finish
  <2>3. \A v \in Workers : v # w => job'[v] = job[v]
    BY <1>14, <1>t DEF Finish
  <2>4. Grown /\ EvidenceStays
    BY <1>t, <2>1, UnchangedGrown DEF EvidenceStays
  <2>5. EvidenceFirst'
    BY <2>1, <2>2, <2>3, <2>4, EvidenceStep
  <2>6. QED
    BY <2>1, <2>2, <2>4, <2>5
<1>15. QED
  BY <1>1, <1>3, <1>4, <1>6, <1>7, <1>8, <1>9, <1>10, <1>11, <1>12, <1>13, <1>14
     DEF WorkerStep

-----------------------------------------------------------------------------
(* What the documents' growth leaves sound.                                *)

\* A plan that was handed out stands.
LEMMA PlanStaysSound ==
    ASSUME Placed, Placed', Grown, EvidenceStays, NEW p \in Plans, PlanStands(p)
    PROVE  PlanStands(p)'
<1>1. p.task \in Tasks /\ p.record \in TaskRecords
  BY PlanFields
<1>2. rows[p.task] \in TaskRecords \cup {NoTask} /\ rows'[p.task] \in TaskRecords \cup {NoTask}
  BY <1>1 DEF Placed, TypeOK
<1>3. OfThePast(p.record, rows'[p.task])
  BY <1>1, <1>2, PastPasses DEF PlanStands, Grown
<1>4. QED
  BY <1>1, <1>3 DEF PlanStands, EvidenceStays

\* A snapshot that is held on to.
LEMMA SeenStaysInOrder ==
    ASSUME Placed, Placed', Grown, EvidenceStays, NEW o \in Operators, SeenInOrder(o),
           seen'[o] = seen[o],
           pc'[o] \in {"reviews", "revisions", "commands"} =>
              pc[o] \in {"reviews", "revisions", "commands"}
    PROVE  SeenInOrder(o)'
<1> SUFFICES ASSUME NEW t \in Tasks
             PROVE  /\ OfThePast(seen'[o].rows[t], rows'[t])
                    /\ Completed(seen'[o].rows[t]) => saved'[t] = "match"
                    /\ Completed(seen'[o].rows[t]) /\ pc'[o] \in {"reviews", "revisions", "commands"} =>
                          seen'[o].saved[t] = "match"
                    /\ seen'[o].reviews[t] # {} => "canonical" \in seen'[o].reviews[t]
  BY DEF SeenInOrder, Completed
<1>1. seen[o].rows[t] \in TaskRecords \cup {NoTask}
  BY DEF Placed, TypeOK
<1>2. rows[t] \in TaskRecords \cup {NoTask} /\ rows'[t] \in TaskRecords \cup {NoTask}
  BY DEF Placed, TypeOK
<1>3. OfThePast(seen[o].rows[t], rows'[t])
  BY <1>1, <1>2, PastPasses DEF SeenInOrder, Grown
<1>4. QED
  BY <1>3 DEF SeenInOrder, EvidenceStays

LEMMA NothingInOrder ==
    ASSUME NEW o \in Operators, seen'[o] = Nothing
    PROVE  SeenInOrder(o)'
BY DEF SeenInOrder, Nothing, OfThePast, Completed

\* A repair half way.
LEMMA HalfStaysDone ==
    ASSUME NEW rec \in TaskRecords, NEW a \in TaskRecords \cup {NoTask},
           NEW b \in TaskRecords \cup {NoTask}, HalfDone(rec, a), OfThePast(a, b)
    PROVE  HalfDone(rec, b)
<1>1. a \in TaskRecords /\ b \in TaskRecords
  BY DEF HalfDone, OfThePast
<1>2. rec.version \in Nat /\ a.version \in Nat /\ b.version \in Nat
  BY <1>1, RecordFields
<1>3. b.version >= a.version /\ (b.version = a.version => b = a)
  BY <1>1, RecordFields DEF OfThePast
<1>4. b.version > rec.version
  BY <1>2, <1>3 DEF HalfDone
<1>5. ASSUME b.version = rec.version + 1
      PROVE  a = b /\ a.version = rec.version + 1
  BY <1>2, <1>3, <1>5 DEF HalfDone
<1>6. QED
  BY <1>1, <1>4, <1>5, RecordFields DEF HalfDone

\* An operator that does not take the step.
LEMMA BystanderSound ==
    ASSUME Placed, Placed', Grown, EvidenceStays, NEW o \in Operators, Sound(o),
           pc'[o] = pc[o], ask'[o] = ask[o], seen'[o] = seen[o], report'[o] = report[o],
           reply'[o] = reply[o], did'[o] = did[o]
    PROVE  Sound(o)'
<1>1. SeenInOrder(o)'
  BY SeenStaysInOrder DEF Sound
<1>2. RepairCounted(o)'
  <2>1. CASE pc[o] = "rehold"
    <3> DEFINE p == ask[o].plan
    <3>1. ask[o].kind = "apply" /\ ask[o] \in Asks
      BY <2>1 DEF Placed, TypeOK, OperatorsPlaced, OperatorPlaced
    <3>2. p.task \in Tasks /\ p.record \in TaskRecords
      BY <3>1, AskFields, PlanFields
    <3>3. /\ rows[p.task] \in TaskRecords \cup {NoTask}
          /\ rows'[p.task] \in TaskRecords \cup {NoTask}
          /\ OfThePast(rows[p.task], rows'[p.task])
      BY <3>2 DEF Placed, TypeOK, Grown
    <3>4. HalfDone(p.record, rows[p.task])
      BY <2>1 DEF Sound, RepairCounted
    <3> HIDE DEF p
    <3>5. HalfDone(p.record, rows'[p.task])
      BY <3>2, <3>3, <3>4, HalfStaysDone
    <3>6. QED
      BY <2>1, <3>5 DEF p, Sound, RepairCounted, Looking, HalfDone
  <2>2. CASE pc[o] # "rehold"
    BY <2>2 DEF Sound, RepairCounted
  <2>3. QED
    BY <2>1, <2>2
<1>3. NotAccused(o)' /\ Told(o)'
  BY DEF Sound, NotAccused, Told
<1>4. QED
  BY <1>1, <1>2, <1>3 DEF Sound

LEMMA WorkerSound ==
    ASSUME IInv, NEW w \in Workers, WorkerStep(w)
    PROVE  IInv'
<1>1. Placed /\ Placed'
  BY WorkerPlaced DEF IInv
<1>2. /\ Grown /\ EvidenceStays /\ EvidenceFirst'
      /\ UNCHANGED <<ask, seen, report, plans, reply, did>>
      /\ \A o \in Operators : pc'[o] = pc[o]
  BY WorkerKeeps DEF IInv, reading
<1>3. \A p \in plans' : PlanStands(p)'
  <2>1. plans \subseteq Plans
    BY <1>1 DEF Placed, TypeOK
  <2>2. QED
    BY <1>1, <1>2, <2>1, PlanStaysSound DEF IInv
<1>4. \A o \in Operators : Sound(o)'
  BY <1>1, <1>2, BystanderSound DEF IInv
<1>5. QED
  BY <1>1, <1>2, <1>3, <1>4 DEF IInv

-----------------------------------------------------------------------------
(* Steps of operators                                                      *)

\* All but the operator that takes the step are where they were.
Bystanding(o) ==
    /\ \A b \in Operators : b # o =>
          /\ pc'[b] = pc[b] /\ ask'[b] = ask[b] /\ seen'[b] = seen[b]
          /\ report'[b] = report[b] /\ reply'[b] = reply[b] /\ did'[b] = did[b]
    /\ \A w \in Workers : pc'[w] = pc[w]
    /\ UNCHANGED <<job, saved, reviews, intents>>

LEMMA OthersStandBy ==
    ASSUME Placed, NEW o \in Operators, OperatorStep(o)
    PROVE  Bystanding(o)
<1>t. TypeOK
  BY DEF Placed
<1>g. ASSUME NEW place \in OperatorPlaces, Goto(o, place)
      PROVE  /\ \A b \in Operators : b # o => pc'[b] = pc[b]
             /\ \A w \in Workers : pc'[w] = pc[w]
  BY <1>g, <1>t, Went, ActorsAssumption
<1>l. ASSUME NEW status, Leave(o, status)
      PROVE  /\ \A b \in Operators : b # o =>
                   pc'[b] = pc[b] /\ ask'[b] = ask[b] /\ reply'[b] = reply[b]
             /\ \A w \in Workers : pc'[w] = pc[w]
  <2>1. /\ \A b \in Operators : b # o => pc'[b] = pc[b]
        /\ \A w \in Workers : pc'[w] = pc[w]
    BY <1>l, <1>g DEF Leave, OperatorPlaces
  <2>2. QED
    BY <1>l, <1>t, <2>1 DEF Leave, TypeOK
<1>e. ASSUME NEW t, NEW version, NEW kind, NEW reason, Expected(o, t, version, kind, reason)
      PROVE  \A b \in Operators : b # o => did'[b] = did[b]
  BY <1>e, <1>t DEF Expected, TypeOK
<1>1. ASSUME NEW request, Ask(o, request)
      PROVE  Bystanding(o)
  BY <1>1, <1>t, <1>g DEF Ask, store, Bystanding, TypeOK, OperatorPlaces
<1>2. CASE Claim(o)
  BY <1>2, <1>g DEF Claim, store, reading, Bystanding, OperatorPlaces
<1>3. CASE ReadTasks(o) \/ ReadDeliverables(o) \/ ReadReviews(o) \/ ReadRevisions(o)
  BY <1>3, <1>t, <1>g DEF ReadTasks, ReadDeliverables, ReadReviews, ReadRevisions, store,
                          Bystanding, TypeOK, OperatorPlaces
<1>4. CASE Report(o)
  BY <1>4, <1>t, <1>g DEF Report, store, Bystanding, TypeOK, OperatorPlaces
<1>5. CASE HandOut(o) \/ Check(o)
  BY <1>5, <1>t, <1>g DEF HandOut, Check, store, Bystanding, TypeOK, OperatorPlaces
<1>6. CASE CannotPlan(o) \/ Stale(o)
  BY <1>6, <1>t, <1>l DEF CannotPlan, Stale, store, Bystanding, TypeOK
<1>7. CASE RepairCompletes(o)
  BY <1>7, <1>e, <1>l DEF RepairCompletes, Bystanding
<1>8. ASSUME NEW reason, RepairFails(o, reason)
      PROVE  Bystanding(o)
  BY <1>8, <1>e, <1>l, <1>g DEF RepairFails, Bystanding, OperatorPlaces
<1>9. ASSUME NEW reason, RepairHolds(o, reason)
      PROVE  Bystanding(o)
  BY <1>9, <1>e, <1>l DEF RepairHolds, Bystanding
<1>10. CASE RepairRefused(o)
  BY <1>10, <1>l DEF RepairRefused, store, Bystanding
<1>11. CASE FinishApply(o)
  BY <1>11, <1>g DEF FinishApply, store, reading, Bystanding, OperatorPlaces
<1>12. QED
  BY <1>1, <1>2, <1>3, <1>4, <1>5, <1>6, <1>7, <1>8, <1>9, <1>10, <1>11
     DEF OperatorStep, Inspect, Prepare, Apply

\* What an operator has to see to in a step.
LEMMA OperatorKeeps ==
    ASSUME IInv, NEW o \in Operators, Placed', Bystanding(o), Grown,
           \A t \in Tasks : Completed(rows'[t]) => Completed(rows[t]) \/ saved'[t] = "match",
           \A p \in plans' \ plans : PlanStands(p)',
           Sound(o)'
    PROVE  IInv'
<1>1. Placed /\ EvidenceStays
  BY DEF IInv, Bystanding, EvidenceStays
<1>2. EvidenceFirst'
  BY <1>1, EvidenceStep DEF IInv, Bystanding
<1>3. \A p \in plans' : PlanStands(p)'
  <2>1. plans \subseteq Plans
    BY <1>1 DEF Placed, TypeOK
  <2>2. QED
    BY <1>1, <2>1, PlanStaysSound DEF IInv
<1>4. \A b \in Operators : b # o => Sound(b)'
  BY <1>1, BystanderSound DEF IInv, Bystanding
<1>5. QED
  BY <1>2, <1>3, <1>4 DEF IInv

\* A step that touches no document.
LEMMA QuietOperatorKeeps ==
    ASSUME IInv, NEW o \in Operators, Placed', Bystanding(o), UNCHANGED <<rows, plans>>,
           Sound(o)'
    PROVE  IInv'
<1>1. Grown
  BY UnchangedGrown DEF IInv, Placed
<1>2. QED
  BY <1>1, OperatorKeeps

\* A new errand has told nothing and done nothing.
LEMMA AskSound ==
    ASSUME IInv, NEW o \in Operators, Placed', Bystanding(o), NEW request, Ask(o, request)
    PROVE  IInv'
<1>t. Placed /\ TypeOK /\ Sound(o)
  BY DEF IInv, Placed
<1>1. UNCHANGED <<rows, saved, reviews, intents, seen, plans>>
  BY DEF Ask, store
<1>2. pc'[o] \in {"claim", "tasks"}
  BY <1>t, Went DEF Ask, OperatorPlaces
<1>3. report'[o] = {} /\ reply'[o] = "none" /\ did'[o] = {}
  BY <1>t DEF Ask, TypeOK
<1>4. SeenInOrder(o)'
  BY <1>t, <1>1, <1>2, SeenStaysInOrder, UnchangedGrown DEF Sound, EvidenceStays
<1>5. RepairCounted(o)' /\ NotAccused(o)' /\ Told(o)'
  BY <1>2, <1>3 DEF RepairCounted, NotAccused, Told
<1>6. QED
  BY <1>1, <1>4, <1>5, QuietOperatorKeeps DEF Sound

\* A step on the way to a report or a plan.
LEMMA LookingSound ==
    ASSUME IInv, NEW o \in Operators, Placed', Bystanding(o),
           pc[o] \in Looking \cup {"claim"}, pc'[o] \in Looking \cup {"repair"},
           UNCHANGED <<rows, plans, report, reply, did>>, SeenInOrder(o)'
    PROVE  IInv'
<1>1. RepairCounted(o)' /\ NotAccused(o)' /\ Told(o)'
  BY DEF IInv, Sound, RepairCounted, NotAccused, Told, Looking
<1>2. QED
  BY <1>1, QuietOperatorKeeps DEF Sound

\* An apply that leaves without a change.
LEMMA LeaveSound ==
    ASSUME IInv, NEW o \in Operators, Placed', Bystanding(o), UNCHANGED <<rows, plans, report>>,
           NEW status \in Replies, Leave(o, status),
           status = "completed" => did'[o] = {"complete"},
           status = "held" => did'[o] = {"fail", "hold"},
           status = "partial_failure" => did'[o] # {},
           status \in {"stale", "error"} => did'[o] = {},
           SeenInOrder(o)'
    PROVE  IInv'
<1>t. Placed /\ TypeOK /\ Sound(o)
  BY DEF IInv, Placed
<1>1. pc'[o] \in {"finish", "idle"} /\ reply'[o] = status
  BY <1>t, Went DEF Leave, OperatorPlaces, TypeOK
<1>2. RepairCounted(o)' /\ NotAccused(o)' /\ Told(o)'
  BY <1>t, <1>1 DEF Sound, RepairCounted, NotAccused, Told, Looking
<1>3. QED
  BY <1>2, QuietOperatorKeeps DEF Sound

LEMMA ReadSound ==
    ASSUME IInv, NEW o \in Operators, Placed', Bystanding(o),
           ReadTasks(o) \/ ReadDeliverables(o) \/ ReadReviews(o) \/ ReadRevisions(o)
    PROVE  IInv'
<1>t. Placed /\ TypeOK /\ Sound(o) /\ EvidenceFirst
  BY DEF IInv, Placed
<1>s. /\ seen \in [Operators -> Snapshots] /\ seen[o] \in Snapshots
      /\ rows \in [Tasks -> TaskRecords \cup {NoTask}]
  BY <1>t DEF TypeOK, Snapshots
<1>1. CASE ReadTasks(o)
  <2>1. pc[o] = "tasks" /\ pc'[o] = "deliverables"
    BY <1>1, <1>t, Went DEF ReadTasks, OperatorPlaces
  <2>2. UNCHANGED <<rows, plans, report, reply, did, saved>>
    BY <1>1 DEF ReadTasks, store
  <2>3. seen'[o].rows = rows /\ seen'[o].reviews = seen[o].reviews
    BY <1>1, <1>s DEF ReadTasks, Snapshots
  <2>4. SeenInOrder(o)'
    BY <1>t, <1>s, <2>1, <2>2, <2>3, PastIsReflexive
       DEF SeenInOrder, Sound, EvidenceFirst, Completed, OfThePast
  <2>5. QED
    BY <2>1, <2>2, <2>4, LookingSound DEF Looking
<1>2. CASE ReadDeliverables(o)
  <2>1. pc[o] = "deliverables" /\ pc'[o] = "reviews"
    BY <1>2, <1>t, Went DEF ReadDeliverables, OperatorPlaces
  <2>2. UNCHANGED <<rows, plans, report, reply, did, saved>>
    BY <1>2 DEF ReadDeliverables, store
  <2>3. /\ seen'[o].rows = seen[o].rows /\ seen'[o].reviews = seen[o].reviews
        /\ seen'[o].saved = saved
    BY <1>2, <1>s DEF ReadDeliverables, Snapshots
  <2>4. SeenInOrder(o)'
    BY <1>t, <2>2, <2>3 DEF SeenInOrder, Sound, Completed, OfThePast
  <2>5. QED
    BY <2>1, <2>2, <2>4, LookingSound DEF Looking
<1>3. CASE ReadReviews(o)
  <2>1. pc[o] = "reviews" /\ pc'[o] = "revisions"
    BY <1>3, <1>t, Went DEF ReadReviews, OperatorPlaces
  <2>2. UNCHANGED <<rows, plans, report, reply, did, saved, reviews>>
    BY <1>3 DEF ReadReviews, store
  <2>3. /\ seen'[o].rows = seen[o].rows /\ seen'[o].saved = seen[o].saved
        /\ seen'[o].reviews = reviews
    BY <1>3, <1>s DEF ReadReviews, Snapshots
  <2>4. SeenInOrder(o)'
    BY <1>t, <2>1, <2>2, <2>3 DEF SeenInOrder, Sound, EvidenceFirst, Completed, OfThePast
  <2>5. QED
    BY <2>1, <2>2, <2>4, LookingSound DEF Looking
<1>4. CASE ReadRevisions(o)
  <2>1. pc[o] = "revisions" /\ pc'[o] = "commands"
    BY <1>4, <1>t, Went DEF ReadRevisions, OperatorPlaces
  <2>2. UNCHANGED <<rows, plans, report, reply, did, saved>>
    BY <1>4 DEF ReadRevisions, store
  <2>3. /\ seen'[o].rows = seen[o].rows /\ seen'[o].saved = seen[o].saved
        /\ seen'[o].reviews = seen[o].reviews
    BY <1>4, <1>s DEF ReadRevisions, Snapshots
  <2>4. SeenInOrder(o)'
    BY <1>t, <2>1, <2>2, <2>3 DEF SeenInOrder, Sound, Completed, OfThePast
  <2>5. QED
    BY <2>1, <2>2, <2>4, LookingSound DEF Looking
<1>5. QED
  BY <1>1, <1>2, <1>3, <1>4

\* A report accuses nobody: the snapshot it is made of was read in order.
LEMMA ReportSound ==
    ASSUME IInv, NEW o \in Operators, Placed', Bystanding(o), Report(o)
    PROVE  IInv'
<1>t. Placed /\ TypeOK /\ Sound(o)
  BY DEF IInv, Placed
<1>1. pc[o] = "commands" /\ pc'[o] = "idle" /\ seen'[o] = Nothing
  BY <1>t, Went DEF Report, OperatorPlaces, TypeOK
<1>2. report'[o] = Findings(seen[o], running)
  BY <1>t DEF Report, TypeOK
<1>3. UNCHANGED <<rows, plans, reply, did>>
  BY DEF Report, store
<1>4. NotAccused(o)'
  <2> SUFFICES ASSUME NEW f \in Findings(seen[o], running),
                      f.kind \in {"completed_task_deliverable_missing", "review_canonical_missing"}
               PROVE  FALSE
    BY <1>2 DEF NotAccused
  <2>1. seen[o] \in Snapshots /\ running \in SUBSET (Workers \cup Operators)
    BY <1>t DEF TypeOK, Snapshots
  <2>2. \/ \E t \in Tasks : Completed(seen[o].rows[t]) /\ seen[o].saved[t] = "none"
        \/ \E t \in Tasks : seen[o].reviews[t] = {"projection"}
    BY <2>1, FindingKind
  <2>3. QED
    BY <1>t, <1>1, <2>2 DEF Sound, SeenInOrder
<1>5. SeenInOrder(o)'
  BY <1>1, NothingInOrder
<1>6. RepairCounted(o)' /\ Told(o)'
  BY <1>t, <1>1, <1>3 DEF Sound, RepairCounted, Told, Looking
<1>7. QED
  BY <1>3, <1>4, <1>5, <1>6, QuietOperatorKeeps DEF Sound

\* A plan that is handed out can be executed, on the record it was made of.
LEMMA HandOutSound ==
    ASSUME IInv, NEW o \in Operators, Placed', Bystanding(o), HandOut(o)
    PROVE  IInv'
<1>t. Placed /\ TypeOK /\ Sound(o)
  BY DEF IInv, Placed
<1>1. pc[o] = "deliverables" /\ pc'[o] = "idle" /\ seen'[o] = Nothing
  BY <1>t, Went DEF HandOut, OperatorPlaces, TypeOK
<1>2. UNCHANGED <<rows, saved, report, reply, did>>
  BY DEF HandOut, store
<1>3. Sound(o)'
  <2>1. SeenInOrder(o)'
    BY <1>1, NothingInOrder
  <2>2. RepairCounted(o)' /\ NotAccused(o)' /\ Told(o)'
    BY <1>t, <1>1, <1>2 DEF Sound, RepairCounted, NotAccused, Told, Looking
  <2>3. QED
    BY <2>1, <2>2 DEF Sound
<1>4. ASSUME NEW p \in plans' \ plans
      PROVE  PlanStands(p)'
  <2>1. p = CurrentPlan(o) /\ Executable(p)
    BY <1>4 DEF HandOut
  <2>2. /\ p.task = ask[o].task /\ p.record = seen[o].rows[p.task]
        /\ p.evidence = saved[p.task]
    BY <2>1 DEF CurrentPlan, MakePlan
  <2>3. ask[o].task \in Tasks
    BY <1>t, AskFields DEF TypeOK, HandOut
  <2>4. OfThePast(p.record, rows[p.task])
    BY <1>t, <2>2, <2>3 DEF Sound, SeenInOrder
  <2>5. QED
    BY <1>2, <2>1, <2>2, <2>4 DEF PlanStands
<1>5. Grown
  BY <1>t, <1>2, UnchangedGrown
<1>6. QED
  BY <1>2, <1>3, <1>4, <1>5, OperatorKeeps DEF Completed

LEMMA CheckSound ==
    ASSUME IInv, NEW o \in Operators, Placed', Bystanding(o), Check(o)
    PROVE  IInv'
<1>t. Placed /\ TypeOK
  BY DEF IInv, Placed
<1>1. pc[o] = "deliverables" /\ pc'[o] \in {"tasks", "repair"} /\ seen'[o] = Nothing
  BY <1>t, Went DEF Check, OperatorPlaces, TypeOK
<1>2. UNCHANGED <<rows, plans, report, reply, did>>
  BY DEF Check, store
<1>3. QED
  BY <1>1, <1>2, NothingInOrder, LookingSound DEF Looking

-----------------------------------------------------------------------------
(* Repairs                                                                 *)

\* The plan a repair carries out.
LEMMA ApprovedPlan ==
    ASSUME IInv, NEW o \in Operators, pc[o] \in {"repair", "rehold"}
    PROVE  LET p == ask[o].plan IN
           /\ p \in plans /\ p \in Plans /\ PlanStands(p)
           /\ p.task \in Tasks /\ p.record \in TaskRecords /\ p.record.version \in Nat
           /\ rows[p.task] \in TaskRecords \cup {NoTask}
<1> DEFINE p == ask[o].plan
<1>1. Placed /\ TypeOK /\ OperatorPlaced(o) /\ AppliesOf(ask[o], plans)
  BY DEF IInv, Placed, OperatorsPlaced, AppliesApproved
<1>2. ask[o].kind = "apply"
  BY <1>1 DEF OperatorPlaced
<1>3. p \in plans /\ p \in Plans
  BY <1>1, <1>2 DEF AppliesOf, TypeOK
<1>4. QED
  BY <1>1, <1>3, PlanFields, RecordFields DEF IInv, TypeOK

\* A change with the expected version meets the record it was planned on.
LEMMA RepairMeetsRecord ==
    ASSUME IInv, NEW o \in Operators, pc[o] = "repair",
           rows[ask[o].plan.task] # NoTask,
           rows[ask[o].plan.task].version = ask[o].plan.record.version
    PROVE  rows[ask[o].plan.task] = ask[o].plan.record
BY ApprovedPlan, RecordFields DEF PlanStands, OfThePast

\* The Hold meets the failure the repair recorded.
LEMMA ReholdMeetsFailure ==
    ASSUME IInv, NEW o \in Operators, pc[o] = "rehold",
           rows[ask[o].plan.task].version = ask[o].plan.record.version + 1
    PROVE  \E reason \in Reasons :
              rows[ask[o].plan.task] = FailedAttempt(ask[o].plan.record, reason)
BY DEF IInv, Sound, RepairCounted, HalfDone

\* What a repair's change does: it goes on with one Task, and nothing else.
LEMMA RepairChanges ==
    ASSUME IInv, NEW o \in Operators, pc[o] \in {"repair", "rehold"}, Bystanding(o),
           NEW version, NEW kind \in Changes, NEW reason \in Reasons \cup {NoReason},
           Expected(o, ask[o].plan.task, version, kind, reason)
    PROVE  /\ Grown
           /\ rows[ask[o].plan.task] \in TaskRecords
           /\ rows[ask[o].plan.task].version = version
           /\ rows'[ask[o].plan.task] = Changed(rows[ask[o].plan.task], kind, reason)
           /\ rows'[ask[o].plan.task] \in TaskRecords
           /\ rows'[ask[o].plan.task].version = rows[ask[o].plan.task].version + 1
           /\ \A u \in Tasks : u # ask[o].plan.task => rows'[u] = rows[u]
           /\ \A u \in Tasks : Completed(rows'[u]) =>
                 Completed(rows[u]) \/ (u = ask[o].plan.task /\ kind = "complete")
           /\ did'[o] = did[o] \cup {kind}
<1> DEFINE t == ask[o].plan.task
<1>1. TypeOK /\ t \in Tasks
  BY ApprovedPlan DEF IInv, Placed
<1>2. Change(t, kind, reason) /\ rows[t].version = version
  BY DEF Expected
<1>3. did'[o] = did[o] \cup {kind}
  BY <1>1 DEF Expected, TypeOK
<1> HIDE DEF t
<1>4. QED
  BY <1>1, <1>2, <1>3, ChangeMakes, ChangeGrown, ChangeCompletes DEF t

\* A repair that leaves with what it did.
LEMMA RepairLeaves ==
    ASSUME IInv, NEW o \in Operators, Placed', Bystanding(o), Grown,
           UNCHANGED <<seen, report, plans>>,
           \A t \in Tasks : Completed(rows'[t]) => Completed(rows[t]) \/ saved'[t] = "match",
           NEW status \in Replies, Leave(o, status),
           status = "completed" => did'[o] = {"complete"},
           status = "held" => did'[o] = {"fail", "hold"},
           status = "partial_failure" => did'[o] # {},
           status \notin {"stale", "error"}
    PROVE  IInv'
<1>t. Placed /\ TypeOK /\ Sound(o) /\ EvidenceStays
  BY DEF IInv, Placed, Bystanding, EvidenceStays
<1>1. pc'[o] \in {"finish", "idle"} /\ reply'[o] = status
  BY <1>t, Went DEF Leave, OperatorPlaces, TypeOK
<1>2. SeenInOrder(o)'
  BY <1>t, <1>1, SeenStaysInOrder DEF Sound
<1>3. RepairCounted(o)' /\ NotAccused(o)' /\ Told(o)'
  BY <1>t, <1>1 DEF Sound, RepairCounted, NotAccused, Told, Looking
<1>4. QED
  BY <1>2, <1>3, OperatorKeeps DEF Sound

LEMMA RepairCompletesSound ==
    ASSUME IInv, NEW o \in Operators, Placed', Bystanding(o), RepairCompletes(o)
    PROVE  IInv'
<1> DEFINE p == ask[o].plan
<1>1. pc[o] = "repair" /\ p.action = "complete_task"
      /\ Expected(o, p.task, p.record.version, "complete", NoReason)
  BY DEF RepairCompletes
<1>2. p \in Plans /\ PlanStands(p)
  BY <1>1, ApprovedPlan
<1>3. saved[p.task] = "match"
  BY <1>1, <1>2, ExecutableIs DEF PlanStands, Evident
<1>4. did[o] = {}
  BY <1>1 DEF IInv, Sound, RepairCounted
<1>5. /\ Grown /\ did'[o] = {"complete"}
      /\ \A t \in Tasks : Completed(rows'[t]) => Completed(rows[t]) \/ saved'[t] = "match"
  BY <1>1, <1>3, <1>4, RepairChanges DEF Changes, Bystanding
<1>6. PICK status \in {"completed", "partial_failure", "failed"} : Leave(o, status)
  BY DEF RepairCompletes
<1>7. UNCHANGED <<seen, report, plans>>
  BY DEF RepairCompletes
<1>8. QED
  BY <1>5, <1>6, <1>7, RepairLeaves DEF Replies

LEMMA RepairFailsSound ==
    ASSUME IInv, NEW o \in Operators, Placed', Bystanding(o),
           NEW reason \in Reasons, RepairFails(o, reason)
    PROVE  IInv'
<1> DEFINE p == ask[o].plan
<1>1. pc[o] = "repair" /\ Expected(o, p.task, p.record.version, "fail", reason)
  BY DEF RepairFails
<1>2. did[o] = {} /\ reply[o] = "none"
  BY <1>1 DEF IInv, Sound, RepairCounted
<1> DEFINE t == p.task
           version == p.record.version
<1>b. /\ t = ask[o].plan.task
      /\ Expected(o, t, version, "fail", reason)
      /\ "fail" \in Changes /\ reason \in Reasons \cup {NoReason}
  BY <1>1 DEF Changes
<1> HIDE DEF t, version
<1>c. /\ Grown
      /\ rows'[t] = Changed(rows[t], "fail", reason)
      /\ rows'[t] \in TaskRecords
      /\ rows'[t].version = rows[t].version + 1
  BY <1>1, <1>b, RepairChanges
<1>d. /\ \A u \in Tasks : Completed(rows'[u]) => Completed(rows[u])
      /\ did'[o] = did[o] \cup {"fail"}
  BY <1>1, <1>b, RepairChanges
<1> USE DEF t
<1>3. /\ Grown /\ did'[o] = {"fail"}
      /\ \A u \in Tasks : Completed(rows'[u]) => Completed(rows[u]) \/ saved'[u] = "match"
  BY <1>2, <1>c, <1>d
<1>4. UNCHANGED <<seen, report, plans>>
  BY DEF RepairFails
<1>5. CASE Goto(o, "rehold") /\ UNCHANGED <<reply, ask>>
  <2>1. pc'[o] = "rehold"
    BY <1>5, Went DEF IInv, Placed, OperatorPlaces
  <2>2. HalfDone(p.record, rows'[p.task])
    <3>1. /\ rows[p.task] = p.record /\ p.record \in TaskRecords
          /\ p.record.version \in Nat
      BY <1>1, ApprovedPlan, RepairMeetsRecord DEF Expected
    <3>2. /\ rows'[p.task] = FailedAttempt(p.record, reason)
          /\ rows'[p.task] \in TaskRecords
          /\ rows'[p.task].version = p.record.version + 1
      BY <1>c, <3>1 DEF Changed
    <3>3. QED
      BY <3>1, <3>2, RecordFields DEF HalfDone
  <2>3. RepairCounted(o)'
    BY <1>2, <1>3, <1>5, <2>1, <2>2 DEF RepairCounted, HalfDone, Looking
  <2>4. SeenInOrder(o)'
    BY <1>3, <1>4, <2>1, SeenStaysInOrder DEF IInv, Sound, Bystanding, EvidenceStays
  <2>5. NotAccused(o)' /\ Told(o)'
    BY <1>2, <1>4, <1>5 DEF IInv, Sound, NotAccused, Told
  <2>6. QED
    BY <1>3, <1>4, <2>3, <2>4, <2>5, OperatorKeeps DEF Sound
<1>6. CASE Leave(o, "failed")
  BY <1>3, <1>4, <1>6, RepairLeaves DEF Replies
<1>7. QED
  BY <1>5, <1>6 DEF RepairFails

LEMMA RepairHoldsSound ==
    ASSUME IInv, NEW o \in Operators, Placed', Bystanding(o),
           NEW reason \in Reasons, RepairHolds(o, reason)
    PROVE  IInv'
<1> DEFINE p == ask[o].plan
<1>1. pc[o] = "rehold" /\ Expected(o, p.task, p.record.version + 1, "hold", reason)
  BY DEF RepairHolds
<1>2. did[o] = {"fail"}
  BY <1>1 DEF IInv, Sound, RepairCounted
<1>3. /\ Grown /\ did'[o] = {"fail", "hold"}
      /\ \A t \in Tasks : Completed(rows'[t]) => Completed(rows[t]) \/ saved'[t] = "match"
  BY <1>1, <1>2, RepairChanges DEF Changes
<1>4. PICK status \in {"held", "partial_failure"} : Leave(o, status)
  BY DEF RepairHolds
<1>5. UNCHANGED <<seen, report, plans>>
  BY DEF RepairHolds
<1>6. QED
  BY <1>3, <1>4, <1>5, RepairLeaves DEF Replies

\* A change that is refused: the first one leaves nothing done, the Hold the
\* failure.
LEMMA RefusedSound ==
    ASSUME IInv, NEW o \in Operators, Placed', Bystanding(o), RepairRefused(o)
    PROVE  IInv'
<1>t. Placed /\ TypeOK /\ Sound(o)
  BY DEF IInv, Placed
<1>1. UNCHANGED <<rows, seen, report, plans, did>>
  BY DEF RepairRefused, store
<1>2. Grown
  BY <1>t, <1>1, UnchangedGrown
<1>3. \A t \in Tasks : Completed(rows'[t]) => Completed(rows[t])
  BY <1>1
<1>4. CASE pc[o] = "rehold"
  <2>1. Leave(o, "partial_failure") /\ did'[o] # {}
    BY <1>t, <1>1, <1>4 DEF RepairRefused, Sound, RepairCounted
  <2>2. QED
    BY <1>1, <1>2, <1>3, <2>1, RepairLeaves DEF Replies
<1>5. CASE pc[o] = "repair"
  <2>1. Leave(o, "failed")
    BY <1>5 DEF RepairRefused
  <2>2. QED
    BY <1>1, <1>2, <1>3, <2>1, RepairLeaves DEF Replies
<1>6. QED
  BY <1>4, <1>5 DEF RepairRefused

\* An errand that ends without a plan, or with a stale one, has done nothing.
LEMMA TurnedAwaySound ==
    ASSUME IInv, NEW o \in Operators, Placed', Bystanding(o), CannotPlan(o) \/ Stale(o)
    PROVE  IInv'
<1>t. Placed /\ TypeOK /\ Sound(o)
  BY DEF IInv, Placed
<1>1. UNCHANGED <<rows, plans, report, did>> /\ pc[o] \in Looking
  BY DEF CannotPlan, Stale, store, Looking
<1>2. did'[o] = {}
  BY <1>t, <1>1 DEF Sound, RepairCounted
<1>3. seen'[o] = Nothing
  BY <1>t DEF CannotPlan, Stale, TypeOK
<1>4. SeenInOrder(o)'
  BY <1>3, NothingInOrder
<1>5. PICK status \in {"error", "stale"} : Leave(o, status)
  BY DEF CannotPlan, Stale
<1>6. QED
  BY <1>1, <1>2, <1>4, <1>5, LeaveSound DEF Replies

\* A Command that is claimed, or that has finished.
LEMMA ClaimSound ==
    ASSUME IInv, NEW o \in Operators, Placed', Bystanding(o), Claim(o) \/ FinishApply(o)
    PROVE  IInv'
<1>t. Placed /\ TypeOK /\ Sound(o)
  BY DEF IInv, Placed
<1>1. UNCHANGED <<rows, saved, reviews, intents, ask, seen, report, plans, reply, did>>
  BY DEF Claim, FinishApply, store, reading
<1>2. \/ pc[o] = "claim" /\ pc'[o] = "tasks"
      \/ pc'[o] = "idle"
  BY <1>t, Went DEF Claim, FinishApply, OperatorPlaces
<1>3. SeenInOrder(o)'
  BY <1>t, <1>1, <1>2, SeenStaysInOrder, UnchangedGrown DEF Sound, EvidenceStays
<1>4. RepairCounted(o)' /\ NotAccused(o)' /\ Told(o)'
  BY <1>t, <1>1, <1>2 DEF Sound, RepairCounted, NotAccused, Told, Looking
<1>5. QED
  BY <1>1, <1>3, <1>4, QuietOperatorKeeps DEF Sound

LEMMA OperatorSound ==
    ASSUME IInv, NEW o \in Operators, OperatorStep(o)
    PROVE  IInv'
<1>1. Placed' /\ Bystanding(o)
  BY OperatorPlacedStays, OthersStandBy DEF IInv
<1>2. CASE Inspect(o)
  BY <1>1, <1>2, AskSound DEF Inspect
<1>3. ASSUME NEW t \in Tasks, NEW action \in TaskActions, Prepare(o, t, action)
      PROVE  IInv'
  BY <1>1, <1>3, AskSound DEF Prepare
<1>4. ASSUME NEW p \in plans, NEW checks \in 1 .. 2, Apply(o, p, checks)
      PROVE  IInv'
  BY <1>1, <1>4, AskSound DEF Apply
<1>5. CASE Claim(o) \/ FinishApply(o)
  BY <1>1, <1>5, ClaimSound
<1>6. CASE ReadTasks(o) \/ ReadDeliverables(o) \/ ReadReviews(o) \/ ReadRevisions(o)
  BY <1>1, <1>6, ReadSound
<1>7. CASE Report(o)
  BY <1>1, <1>7, ReportSound
<1>8. CASE CannotPlan(o) \/ Stale(o)
  BY <1>1, <1>8, TurnedAwaySound
<1>9. CASE HandOut(o)
  BY <1>1, <1>9, HandOutSound
<1>10. CASE Check(o)
  BY <1>1, <1>10, CheckSound
<1>11. CASE RepairCompletes(o)
  BY <1>1, <1>11, RepairCompletesSound
<1>12. ASSUME NEW reason \in Reasons, RepairFails(o, reason) \/ RepairHolds(o, reason)
       PROVE  IInv'
  BY <1>1, <1>12, RepairFailsSound, RepairHoldsSound
<1>13. CASE RepairRefused(o)
  BY <1>1, <1>13, RefusedSound
<1>14. QED
  BY <1>2, <1>3, <1>4, <1>5, <1>6, <1>7, <1>8, <1>9, <1>10, <1>11, <1>12, <1>13
     DEF OperatorStep

\* A process that dies leaves the documents as they are.
LEMMA DiesSound ==
    ASSUME IInv, NEW a \in Workers \cup Operators, Dies(a)
    PROVE  IInv'
<1>t. Placed /\ TypeOK /\ Placed'
  BY DiesPlaced DEF IInv, Placed
<1>1. UNCHANGED <<rows, saved, reviews, intents, running, report, plans, reply, did>>
  BY <1>t, DeathOf
<1>2. Grown /\ EvidenceStays
  BY <1>t, <1>1, UnchangedGrown DEF EvidenceStays
<1>3. EvidenceFirst'
  <2>1. \A w \in Workers : pc'[w] \in {"complete", "projection"} =>
           pc'[w] = pc[w] /\ job'[w] = job[w]
    BY <1>t, DeathOf
  <2>2. QED
    BY <1>t, <1>1, <1>2, <2>1, EvidenceStep DEF IInv
<1>4. \A p \in plans' : PlanStands(p)'
  <2>1. plans \subseteq Plans
    BY <1>t DEF TypeOK
  <2>2. QED
    BY <1>t, <1>1, <1>2, <2>1, PlanStaysSound DEF IInv
<1>5. ASSUME NEW o \in Operators
      PROVE  Sound(o)'
  <2>1. CASE o = a
    <3>1. pc'[o] = "dead" /\ seen'[o] = Nothing
      BY <1>t, <2>1, DeathOf
    <3>2. SeenInOrder(o)'
      BY <3>1, NothingInOrder
    <3>3. RepairCounted(o)' /\ NotAccused(o)' /\ Told(o)'
      BY <1>1, <3>1 DEF IInv, Sound, RepairCounted, NotAccused, Told, Looking
    <3>4. QED
      BY <3>2, <3>3 DEF Sound
  <2>2. CASE o # a
    <3>1. pc'[o] = pc[o] /\ ask'[o] = ask[o] /\ seen'[o] = seen[o]
      BY <1>t, <2>2, DeathOf
    <3>2. QED
      BY <1>t, <1>1, <1>2, <3>1, BystanderSound DEF IInv
  <2>3. QED
    BY <2>1, <2>2
<1>6. QED
  BY <1>t, <1>3, <1>4, <1>5 DEF IInv

LEMMA IInvInit == Init => IInv
<1> SUFFICES ASSUME Init PROVE IInv
  OBVIOUS
<1>1. Placed
  BY PlacedInit
<1>2. EvidenceFirst
  BY DEF Init, EvidenceFirst, Completed, NewTask
<1>3. ASSUME NEW o \in Operators
      PROVE  Sound(o)
  <2>1. SeenInOrder(o)
    BY DEF Init, SeenInOrder, Nothing, OfThePast, Completed
  <2>2. RepairCounted(o) /\ NotAccused(o) /\ Told(o)
    BY DEF Init, RepairCounted, NotAccused, Told
  <2>3. QED
    BY <2>1, <2>2 DEF Sound
<1>4. QED
  BY <1>1, <1>2, <1>3 DEF Init, IInv

LEMMA IInvNext == IInv /\ [Next]_vars => IInv'
<1> SUFFICES ASSUME IInv, [Next]_vars PROVE IInv'
  OBVIOUS
<1>1. CASE UNCHANGED vars
  <2>1. /\ Placed /\ TypeOK /\ Placed'
    BY PlacedNext DEF IInv, Placed
  <2>2. UNCHANGED <<rows, saved, reviews, pc, job, ask, seen, report, plans, reply, did>>
    BY <1>1 DEF vars, store, reading
  <2>3. Grown /\ EvidenceStays /\ EvidenceFirst'
    BY <2>1, <2>2, UnchangedGrown DEF EvidenceStays, EvidenceFirst, IInv, Completed
  <2>4. \A p \in plans' : PlanStands(p)'
    BY <2>2 DEF IInv, PlanStands
  <2>5. \A o \in Operators : Sound(o)'
    BY <2>1, <2>2, <2>3, BystanderSound DEF IInv
  <2>6. QED
    BY <2>1, <2>3, <2>4, <2>5 DEF IInv
<1>2. CASE Next
  BY <1>2, WorkerSound, OperatorSound, DiesSound DEF Next
<1>3. QED
  BY <1>1, <1>2

\* Documents are written evidence first, snapshots and plans are of the past,
\* and what an apply has told is what it did, in every state of every run.
THEOREM Invariance == Spec => []IInv
BY IInvInit, IInvNext, PTL DEF Spec

\* Every document, snapshot, finding, plan and answer is of its kind.
THEOREM TypeCorrect == Spec => []TypeOK
<1>1. IInv => TypeOK
  BY DEF IInv, Placed
<1>2. QED
  BY <1>1, Invariance, PTL

\* No inspection accuses a writer: executions save the Deliverable before they
\* complete, Reviews write the canonical file first, and Load reads Tasks.md
\* before the rest, so no interleaving makes Inspect report a completed Task
\* without its Deliverable or a Review without its canonical file.
THEOREM NobodyAccused == Spec => []NeverAccused
<1>1. IInv => NeverAccused
  BY DEF IInv, Sound, NotAccused, NeverAccused
<1>2. QED
  BY <1>1, Invariance, PTL

\* The status an apply answers with is what it did: all of the repair, some of
\* it, or nothing when its plan was stale.
THEOREM ToldTruth == Spec => []ToldIsRepaired
<1>1. IInv => ToldIsRepaired
  BY DEF IInv, Sound, Told, ToldIsRepaired
<1>2. QED
  BY <1>1, Invariance, PTL

\* An action is recommended for a Task exactly when a plan of it could be
\* executed.
LEMMA RecommendedIsExecutable ==
    ASSUME NEW snap \in Snapshots, NEW t \in Tasks, snap.rows[t] # NoTask,
           NEW action \in TaskActions
    PROVE  LET p == MakePlan(t, action, snap.rows[t], snap.saved[t])
           IN  Executable(p) <=> \E f \in Findings(snap, {}) :
                                    f.about = t /\ f.action = action /\ f.recoverable
<1> DEFINE p == MakePlan(t, action, snap.rows[t], snap.saved[t])
           found == Findings(snap, {})
<1>1. snap.rows[t] \in TaskRecords /\ snap.saved[t] \in Evidence
  BY DEF Snapshots
<1>2. /\ p \in Plans /\ p.record = snap.rows[t] /\ p.evidence = snap.saved[t]
      /\ p.action = action
  BY <1>1 DEF MakePlan, Plans
<1>3. action = "complete_task" \/ action = "fail_and_hold_task"
  BY DEF TaskActions
<1>4. Executable(p) <=> /\ snap.rows[t].status = "in_progress"
                        /\ snap.saved[t] = IF action = "complete_task" THEN "match" ELSE "none"
  BY <1>2, ExecutableIs DEF Evident
<1> HIDE DEF p
<1>5. ASSUME Executable(p)
      PROVE  \E f \in found : f.about = t /\ f.action = action /\ f.recoverable
  <2> DEFINE of == TaskFinding(t, snap.rows[t], snap.saved[t])
  <2>1. \E f \in of : f.about = t /\ f.action = action /\ f.recoverable
    <3>1. CASE action = "complete_task"
      BY <1>4, <1>5, <3>1 DEF TaskFinding, Finding
    <3>2. CASE action = "fail_and_hold_task"
      BY <1>4, <1>5, <3>2 DEF TaskFinding, Finding
    <3>3. QED
      BY <1>3, <3>1, <3>2
  <2> HIDE DEF of
  <2>2. of \subseteq found
    <3> DEFINE each(u) ==
                 (IF snap.rows[u] = NoTask THEN {}
                    ELSE TaskFinding(u, snap.rows[u], snap.saved[u]))
                 \cup DeliverableFinding(u, snap.rows[u], snap.saved[u])
                 \cup ReviewFinding(u, snap.reviews[u])
                 \cup RevisionFinding(u, snap.rows[u], snap.intents)
    <3>1. of \subseteq each(t)
      BY DEF of
    <3>2. each(t) \subseteq found
      BY DEF Findings
    <3>3. QED
      BY <3>1, <3>2, Zenon
  <2>3. QED
    BY <2>1, <2>2
<1>6. ASSUME NEW f \in found, f.about = t, f.action = action, f.recoverable
      PROVE  Executable(p)
  <2>1. action # "none"
    BY <1>3
  <2>2. \A u : /\ Finding("artifact_invalid", "critical", u, "none").action = "none"
               /\ Finding("deliverable_task_conflict", "critical", u, "none").action = "none"
               /\ Finding("review_projection_missing", "warning", u, "none").action = "none"
               /\ Finding("review_canonical_missing", "critical", u, "none").action = "none"
               /\ Finding("revision_task_missing", "warning", u, "none").action = "none"
               /\ Finding("completed_task_deliverable_missing", "critical", u, "none").action = "none"
    BY DEF Finding
  <2>3. ASSUME NEW u \in Tasks,
               f \in DeliverableFinding(u, snap.rows[u], snap.saved[u])
                     \cup ReviewFinding(u, snap.reviews[u])
                     \cup RevisionFinding(u, snap.rows[u], snap.intents)
        PROVE  FALSE
    <3>1. snap.saved[u] \in Evidence /\ snap.reviews[u] \in SUBSET Files
      BY DEF Snapshots
    <3>2. \/ f = Finding("artifact_invalid", "critical", u, "none")
          \/ f = Finding("deliverable_task_conflict", "critical", u, "none")
          \/ f = Finding("review_projection_missing", "warning", u, "none")
          \/ f = Finding("review_canonical_missing", "critical", u, "none")
          \/ f = Finding("revision_task_missing", "warning", u, "none")
      BY <2>3, <3>1, OtherFindings
    <3>3. QED
      BY <1>6, <2>1, <2>2, <3>2
  <2>4. PICK u \in Tasks : /\ snap.rows[u] \in TaskRecords
                           /\ f \in TaskFinding(u, snap.rows[u], snap.saved[u])
    BY <1>6, <2>3, FindingOf
  <2>5. snap.saved[u] \in Evidence
    BY DEF Snapshots
  <2>6. \/ /\ snap.rows[u].status = "in_progress" /\ snap.saved[u] = "match"
           /\ f.about = u /\ f.action = "complete_task"
        \/ /\ snap.rows[u].status = "in_progress" /\ snap.saved[u] = "none"
           /\ f.about = u /\ f.action = "fail_and_hold_task"
    BY <1>6, <2>1, <2>2, <2>4, <2>5, TaskFindingOf DEF Finding
  <2>7. QED
    BY <1>4, <1>6, <2>6
<1>7. QED
  BY <1>5, <1>6 DEF p

\* Inspection, planner and public views agree on every snapshot: what Inspect
\* recommends is what Plan lets be executed, and the closed lists of the views
\* refuse no finding and no plan.
THEOREM InspectionAgrees == Spec => []ViewsAgree
<1>1. ASSUME IInv
      PROVE  ViewsAgree
  <2> SUFFICES ASSUME NEW o \in Operators, pc[o] = "commands"
               PROVE  LET found == Findings(seen[o], {}) IN
                      /\ \A f \in found : ShownFinding(f)
                      /\ \A t \in Tasks : seen[o].rows[t] # NoTask =>
                            \A action \in TaskActions :
                               LET p == MakePlan(t, action, seen[o].rows[t], seen[o].saved[t]) IN
                               /\ ShownPlan(p)
                               /\ Executable(p) <=>
                                     \E f \in found : f.about = t /\ f.action = action /\ f.recoverable
    BY DEF ViewsAgree
  <2>1. seen[o] \in Snapshots
    BY <1>1 DEF IInv, Placed, TypeOK, Snapshots
  <2>2. \A f \in Findings(seen[o], {}) : ShownFinding(f)
    BY <2>1, FindingKind
  <2>3. ASSUME NEW t \in Tasks, seen[o].rows[t] # NoTask, NEW action \in TaskActions
        PROVE  LET p == MakePlan(t, action, seen[o].rows[t], seen[o].saved[t]) IN
               /\ ShownPlan(p)
               /\ Executable(p) <=> \E f \in Findings(seen[o], {}) :
                                       f.about = t /\ f.action = action /\ f.recoverable
    <3>1. MakePlan(t, action, seen[o].rows[t], seen[o].saved[t]) \in Plans
      BY <2>1, <2>3 DEF MakePlan, Plans, Snapshots
    <3>2. ShownPlan(MakePlan(t, action, seen[o].rows[t], seen[o].saved[t]))
      BY <3>1, PlanShown
    <3>3. Executable(MakePlan(t, action, seen[o].rows[t], seen[o].saved[t])) <=>
             \E f \in Findings(seen[o], {}) : f.about = t /\ f.action = action /\ f.recoverable
      BY <2>1, <2>3, RecommendedIsExecutable
    <3>4. QED
      BY <3>2, <3>3, Zenon
  <2>4. QED
    BY <2>2, <2>3, Zenon
<1>2. QED
  BY <1>1, Invariance, PTL

\* What one repair step commits, and on which record.
LEMMA RepairLandsHere ==
    ASSUME IInv, NEW o \in Operators, OperatorStep(o), did'[o] \ did[o] # {}
    PROVE  LET p == ask[o].plan IN
           /\ \A t \in Tasks \ {p.task} : rows'[t] = rows[t]
           /\ \/ /\ did'[o] = {"complete"}
                 /\ rows[p.task] = p.record
                 /\ saved[p.task] = "match"
              \/ did'[o] = {"fail"} /\ rows[p.task] = p.record
              \/ /\ did'[o] = {"fail", "hold"}
                 /\ \E reason \in Reasons : rows[p.task] = FailedAttempt(p.record, reason)
<1> DEFINE p == ask[o].plan
<1>t. TypeOK /\ Bystanding(o) /\ RepairCounted(o)
  BY OthersStandBy DEF IInv, Placed, Sound
<1>1. \/ RepairCompletes(o)
      \/ \E reason \in Reasons : RepairFails(o, reason) \/ RepairHolds(o, reason)
  BY <1>t DEF OperatorStep, Inspect, Prepare, Apply, Ask, Claim, ReadTasks, ReadDeliverables,
              ReadReviews, ReadRevisions, Report, CannotPlan, HandOut, Check, Stale,
              RepairRefused, FinishApply, reading, TypeOK
<1>2. CASE RepairCompletes(o)
  <2>1. pc[o] = "repair" /\ p.action = "complete_task"
        /\ Expected(o, p.task, p.record.version, "complete", NoReason)
    BY <1>2 DEF RepairCompletes
  <2>2. p \in Plans /\ PlanStands(p)
    BY <2>1, ApprovedPlan
  <2>3. saved[p.task] = "match"
    BY <2>1, <2>2, ExecutableIs DEF PlanStands, Evident
  <2>4. rows[p.task] = p.record
    BY <2>1, RepairMeetsRecord DEF Expected
  <2>5. did'[o] = {"complete"} /\ \A t \in Tasks : t # p.task => rows'[t] = rows[t]
    BY <1>t, <2>1, RepairChanges DEF Changes, RepairCounted
  <2>6. QED
    BY <2>3, <2>4, <2>5
<1>3. ASSUME NEW reason \in Reasons, RepairFails(o, reason)
      PROVE  /\ did'[o] = {"fail"} /\ rows[p.task] = p.record
             /\ \A t \in Tasks : t # p.task => rows'[t] = rows[t]
  <2>1. pc[o] = "repair" /\ Expected(o, p.task, p.record.version, "fail", reason)
    BY <1>3 DEF RepairFails
  <2>2. rows[p.task] = p.record
    BY <2>1, RepairMeetsRecord DEF Expected
  <2>3. did'[o] = {"fail"} /\ \A t \in Tasks : t # p.task => rows'[t] = rows[t]
    BY <1>t, <2>1, RepairChanges DEF Changes, RepairCounted
  <2>4. QED
    BY <2>2, <2>3
<1>4. ASSUME NEW reason \in Reasons, RepairHolds(o, reason)
      PROVE  /\ did'[o] = {"fail", "hold"}
             /\ \E why \in Reasons : rows[p.task] = FailedAttempt(p.record, why)
             /\ \A t \in Tasks : t # p.task => rows'[t] = rows[t]
  <2>1. pc[o] = "rehold" /\ Expected(o, p.task, p.record.version + 1, "hold", reason)
    BY <1>4 DEF RepairHolds
  <2>2. \E why \in Reasons : rows[p.task] = FailedAttempt(p.record, why)
    BY <2>1, ReholdMeetsFailure DEF Expected
  <2>3. did'[o] = {"fail", "hold"} /\ \A t \in Tasks : t # p.task => rows'[t] = rows[t]
    BY <1>t, <2>1, RepairChanges DEF Changes, RepairCounted
  <2>4. QED
    BY <2>2, <2>3
<1>5. QED
  BY <1>1, <1>2, <1>3, <1>4

\* A repair lands on what was approved: it changes no other Task, completes
\* the planned one only over its Deliverable and while it is exactly the
\* approved record, fails it only while it is that record, and holds it only
\* on top of the failure it recorded itself.
THEOREM RepairLands == Spec => RepairLandsOnApproved
<1>1. ASSUME IInv, [Next]_vars, NEW o \in Operators, did'[o] \ did[o] # {}
      PROVE  OperatorStep(o)
  <2>1. CASE UNCHANGED vars
    BY <1>1, <2>1 DEF vars, reading
  <2>2. ASSUME NEW w \in Workers, WorkerStep(w)
        PROVE  FALSE
    BY <1>1, <2>2, WorkerKeeps DEF IInv, reading
  <2>3. ASSUME NEW b \in Operators, OperatorStep(b), b # o
        PROVE  FALSE
    BY <1>1, <2>3, OthersStandBy DEF IInv, Bystanding
  <2>4. ASSUME NEW a \in Workers \cup Operators, Dies(a)
        PROVE  FALSE
    BY <1>1, <2>4 DEF Dies
  <2>5. QED
    BY <1>1, <2>1, <2>2, <2>3, <2>4 DEF Next
<1>2. IInv /\ [Next]_vars =>
         [\A o \in Operators : did'[o] \ did[o] # {} =>
             LET p == ask[o].plan IN
             /\ \A t \in Tasks \ {p.task} : rows'[t] = rows[t]
             /\ \/ /\ did'[o] = {"complete"}
                   /\ rows[p.task] = p.record
                   /\ saved[p.task] = "match"
                \/ did'[o] = {"fail"} /\ rows[p.task] = p.record
                \/ /\ did'[o] = {"fail", "hold"}
                   /\ \E reason \in Reasons : rows[p.task] = FailedAttempt(p.record, reason)]_vars
  BY <1>1, RepairLandsHere
<1>3. QED
  BY <1>2, Invariance, PTL DEF Spec, RepairLandsOnApproved
=============================================================================
