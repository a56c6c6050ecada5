----------------------- MODULE ReviewedWorkflowProofs -----------------------
(***************************************************************************)
(* Proofs about ReviewedWorkflow for every plan, every limit and any       *)
(* number of Commands.                                                     *)
(*                                                                         *)
(* The branches of a round never hold the same Task, so what a branch has  *)
(* seen of its own Task stays true while the others work; and a reserved   *)
(* Provider call that is not yet made is held by exactly one branch.       *)
(*                                                                         *)
(* The second half is about the lineages of Revision Tasks.  lineage and   *)
(* approved are recursive functions over the Task numbers; each is shown   *)
(* to be the least set closed under one step, by a least (or greatest)     *)
(* counterexample, and the invariant LInv speaks of these sets.            *)
(***************************************************************************)
EXTENDS ReviewedWorkflow, FiniteSetTheorems, WellFoundedInduction, TLAPS

Busy(b) == branch[b].pc # "idle"

\* Branches that reserved a Provider call and have not made it yet.
Holding == {b \in Ids : branch[b].pc \in {"execute", "review"}}

\* Every call made or held was counted, and the count respects the limit.
Accounted ==
    /\ calls <= MaxCalls
    /\ invoked + Cardinality(Holding) <= calls

\* Goroutines live inside a round.
QuietBetweenRounds == run.phase # "dispatch" => Quiet

\* No two branches hold one Task, and no undispatched Task is held.
DistinctTasks ==
    /\ \A a, b \in Ids : a # b /\ Busy(a) /\ Busy(b) => branch[a].task # branch[b].task
    /\ \A q \in run.queue :
          /\ rows[q] # "absent"
          /\ \A b \in Ids : Busy(b) => branch[b].task # q

\* What the record of a branch at its program point says of the Vault.
Supported(br) ==
    br.pc # "idle" =>
        /\ br.task \in Ids /\ rows[br.task] # "absent"
        /\ br.pc \in {"working", "produced", "stored"} => rows[br.task] = "in_progress"
        /\ br.pc = "stored" => br.task \in saved
        /\ br.pc \in {"completed", "review", "judging", "revise", "intent", "create"} =>
              rows[br.task] = "completed"
        /\ br.pc = "judging" => verdict[br.task] = "none"
        /\ br.pc \in {"revise", "intent", "create"} => verdict[br.task] = "request_changes"
        /\ br.pc \in {"intent", "create"} => br.next \in Ids /\ br.task < br.next
        /\ br.pc = "create" => source[br.next] # 0

BranchesSupported == \A b \in Ids : Supported(branch[b])

IInv ==
    /\ TypeOK
    /\ QuietBetweenRounds
    /\ Accounted
    /\ DistinctTasks
    /\ BranchesSupported
    /\ EvidenceChain

-----------------------------------------------------------------------------
LEMMA IdsFacts ==
    /\ Ids \subseteq Nat /\ IsFiniteSet(Ids)
    /\ \A t \in Ids : t >= 1 /\ t <= MaxTaskId /\ t \in 0 .. MaxTaskId
    /\ \A t \in Ids : DepsOf(t) \subseteq Ids
<1>1. Ids \subseteq Nat /\ \A t \in Ids : t >= 1 /\ t <= MaxTaskId /\ t \in 0 .. MaxTaskId
  BY LimitsAssumption DEF Ids
<1>2. IsFiniteSet(Ids)
  BY FS_Interval, LimitsAssumption DEF Ids
<1>3. \A t \in Ids : DepsOf(t) \subseteq Ids
  BY LimitsAssumption DEF DepsOf, Ids
<1>4. QED
  BY <1>1, <1>2, <1>3

\* A branch record and a run record are typed when their fields are.
LEMMA ReturnFacts ==
    ASSUME TypeOK, NEW b \in Ids, NEW err \in Stages \cup {"none"}, Return(b, err)
    PROVE  /\ branch' \in [Ids -> BranchRecords] /\ run' \in RunRecords
           /\ branch'[b] = Idle
           /\ \A a \in Ids : a # b => branch'[a] = branch[a]
           /\ run'.queue = run.queue /\ run'.phase = run.phase
<1>1. Idle \in BranchRecords
  BY LimitsAssumption DEF Idle, BranchRecords, Points
<1>2. branch' = [branch EXCEPT ![b] = Idle]
  BY DEF Return
<1>3. /\ branch' \in [Ids -> BranchRecords] /\ branch'[b] = Idle
      /\ \A a \in Ids : a # b => branch'[a] = branch[a]
  BY <1>1, <1>2 DEF TypeOK
<1>4. run' = [phase |-> run.phase, queue |-> run.queue, left |-> run.left,
              slots |-> run.slots + 1, err |-> IF run.err = "none" THEN err ELSE run.err,
              result |-> run.result]
  BY DEF Return, TypeOK, RunRecords
<1>5. run' \in RunRecords
  BY <1>4 DEF TypeOK, RunRecords
<1>6. QED
  BY <1>3, <1>4, <1>5

LEMMA GotoFacts ==
    ASSUME TypeOK, NEW b \in Ids, NEW pc \in Points, Goto(b, pc)
    PROVE  /\ branch' \in [Ids -> BranchRecords]
           /\ branch'[b].pc = pc
           /\ branch'[b].task = branch[b].task /\ branch'[b].next = branch[b].next
           /\ \A a \in Ids : a # b => branch'[a] = branch[a]
<1>1. /\ branch \in [Ids -> BranchRecords] /\ branch[b] \in BranchRecords
      /\ branch' = [branch EXCEPT ![b] = [branch[b] EXCEPT !.pc = pc]]
  BY DEF Goto, TypeOK
<1>2. [branch[b] EXCEPT !.pc = pc] =
        [pc |-> pc, task |-> branch[b].task, revs |-> branch[b].revs, next |-> branch[b].next]
  BY <1>1 DEF BranchRecords
<1>3. [pc |-> pc, task |-> branch[b].task, revs |-> branch[b].revs, next |-> branch[b].next]
        \in BranchRecords
  BY <1>1 DEF BranchRecords
<1>4. QED
  BY <1>1, <1>2, <1>3

-----------------------------------------------------------------------------
(* What one step of branch b does.                                         *)

\* Nothing recorded is withdrawn, and only b's own Task or a fresh row moves.
VaultStep(b) ==
    /\ saved \subseteq saved'
    /\ \A t \in Ids :
          /\ rows[t] = "completed" => rows'[t] = "completed"
          /\ rows[t] # "absent" => rows'[t] # "absent"
          /\ verdict[t] # "none" => verdict'[t] = verdict[t]
          /\ source[t] # 0 => source'[t] = source[t]
          /\ t # branch[b].task => /\ rows[t] # "absent" => rows'[t] = rows[t]
                                   /\ verdict'[t] = verdict[t]

VaultTyped ==
    /\ rows \in [Ids -> Statuses] /\ saved \subseteq Ids
    /\ verdict \in [Ids -> Verdicts] /\ source \in [Ids -> 0 .. MaxTaskId]

VaultKept(b) == VaultStep(b) /\ EvidenceChain' /\ VaultTyped'

\* The goroutine stays within its round and its record; a Task it takes up is new.
Moves(b) ==
    /\ branch' \in [Ids -> BranchRecords] /\ run' \in RunRecords
    /\ \A a \in Ids : a # b => branch'[a] = branch[a]
    /\ run'.queue = run.queue /\ run'.phase = run.phase
    /\ \/ branch'[b].pc = "idle"
       \/ branch'[b].task = branch[b].task
       \/ branch'[b].task \in Ids /\ rows[branch'[b].task] = "absent"

\* A step of b that returns, or goes on with the same Task.
LEMMA ReturnMoves ==
    ASSUME TypeOK, NEW b \in Ids, NEW err \in Stages \cup {"none"}, Return(b, err)
    PROVE  Moves(b) /\ Supported(branch[b])' /\ branch'[b] = Idle
<1>1. branch'[b] = Idle /\ branch'[b].pc = "idle"
  BY ReturnFacts DEF Idle
<1>2. Moves(b)
  BY <1>1, ReturnFacts DEF Moves
<1>3. QED
  BY <1>1, <1>2 DEF Supported

LEMMA GotoMoves ==
    ASSUME TypeOK, NEW b \in Ids, NEW pc \in Points, Goto(b, pc), UNCHANGED run
    PROVE  /\ Moves(b) /\ branch'[b].pc = pc
           /\ branch'[b].task = branch[b].task /\ branch'[b].next = branch[b].next
<1>1. /\ branch'[b].pc = pc
      /\ branch'[b].task = branch[b].task /\ branch'[b].next = branch[b].next
      /\ branch' \in [Ids -> BranchRecords]
      /\ \A a \in Ids : a # b => branch'[a] = branch[a]
  BY GotoFacts
<1>2. run' \in RunRecords
  BY DEF TypeOK
<1>3. QED
  BY <1>1, <1>2 DEF Moves

LEMMA SameVault ==
    ASSUME TypeOK, EvidenceChain, NEW b \in Ids, UNCHANGED vault
    PROVE  VaultKept(b)
<1>1. UNCHANGED <<rows, saved, verdict, source>>
  BY DEF vault
<1>2. EvidenceChain'
  BY <1>1 DEF EvidenceChain, DependenciesCompleted
<1>3. VaultTyped'
  BY <1>1 DEF TypeOK, VaultTyped
<1>4. VaultStep(b)
  BY <1>1 DEF VaultStep
<1>5. QED
  BY <1>2, <1>3, <1>4 DEF VaultKept

\* The changes of a row that the branches make.
RowMove(t, s) ==
    \/ s = rows[t]
    \/ rows[t] = "unstarted" /\ s = "in_progress" /\ DependenciesCompleted(t)
    \/ rows[t] = "in_progress" /\ s = "on_hold"
    \/ rows[t] = "in_progress" /\ s = "completed" /\ t \in saved
    \/ rows[t] = "absent" /\ s = "unstarted" /\ source[t] # 0

LEMMA RowMoveKeeps ==
    ASSUME TypeOK, EvidenceChain, NEW b \in Ids, NEW t \in Ids, NEW s \in Statuses,
           RowMove(t, s), rows' = [rows EXCEPT ![t] = s],
           t = branch[b].task \/ rows[t] = "absent" \/ s = rows[t],
           saved \subseteq saved', saved' \subseteq Ids, UNCHANGED <<verdict, source>>
    PROVE  VaultKept(b)
<1>1. /\ rows \in [Ids -> Statuses] /\ rows' \in [Ids -> Statuses] /\ rows'[t] = s
      /\ \A u \in Ids : u # t => rows'[u] = rows[u]
  BY DEF TypeOK
<1>2. VaultTyped'
  BY <1>1 DEF TypeOK, VaultTyped
<1>3. \A u \in Ids : /\ rows[u] = "completed" => rows'[u] = "completed"
                     /\ rows[u] # "absent" => rows'[u] # "absent"
  BY <1>1 DEF RowMove
<1>4. VaultStep(b)
  BY <1>1, <1>3 DEF VaultStep
<1>5. \A u \in Ids : DependenciesCompleted(u) => DependenciesCompleted(u)'
  BY <1>3, IdsFacts DEF DependenciesCompleted
<1>6. EvidenceChain'
  <2> SUFFICES ASSUME NEW u \in Ids
               PROVE  /\ rows'[u] = "completed" => u \in saved'
                      /\ verdict'[u] # "none" => rows'[u] = "completed"
                      /\ source'[u] # 0 => /\ source'[u] < u
                                           /\ verdict'[source'[u]] = "request_changes"
                      /\ rows'[u] # "absent" /\ u > Planned => source'[u] # 0
                      /\ rows'[u] \in {"in_progress", "completed", "on_hold"}
                            => DependenciesCompleted(u)'
    BY DEF EvidenceChain
  <2>1. /\ rows[u] = "completed" => u \in saved
        /\ verdict[u] # "none" => rows[u] = "completed"
        /\ source[u] # 0 => source[u] < u /\ verdict[source[u]] = "request_changes"
        /\ rows[u] # "absent" /\ u > Planned => source[u] # 0
        /\ rows[u] \in {"in_progress", "completed", "on_hold"} => DependenciesCompleted(u)
    BY DEF EvidenceChain
  <2>2. rows'[u] = "completed" => u \in saved'
    BY <1>1, <2>1 DEF RowMove
  <2>3. verdict'[u] # "none" => rows'[u] = "completed"
    BY <1>3, <2>1
  <2>4. rows'[u] # "absent" /\ u > Planned => source'[u] # 0
    BY <1>1, <2>1 DEF RowMove
  <2>5. rows'[u] \in {"in_progress", "completed", "on_hold"} => DependenciesCompleted(u)
    BY <1>1, <2>1 DEF RowMove
  <2>6. QED
    BY <2>1, <2>2, <2>3, <2>4, <2>5, <1>5
<1>7. QED
  BY <1>2, <1>4, <1>6 DEF VaultKept

\* A Review is written once, for a completed Task.
LEMMA VerdictKeeps ==
    ASSUME TypeOK, EvidenceChain, NEW b \in Ids, branch[b].task \in Ids,
           rows[branch[b].task] = "completed", verdict[branch[b].task] = "none",
           NEW v \in Verdicts, verdict' = [verdict EXCEPT ![branch[b].task] = v],
           UNCHANGED <<rows, saved, source>>
    PROVE  VaultKept(b) /\ verdict'[branch[b].task] = v
<1> DEFINE t == branch[b].task
<1>1. /\ verdict \in [Ids -> Verdicts] /\ verdict' \in [Ids -> Verdicts]
      /\ verdict'[t] = v /\ \A u \in Ids : u # t => verdict'[u] = verdict[u]
  BY DEF TypeOK
<1>2. VaultTyped'
  BY <1>1 DEF TypeOK, VaultTyped
<1>3. VaultStep(b)
  BY <1>1 DEF VaultStep
<1>4. \A u \in Ids : source[u] # 0 => source[u] \in Ids /\ source[u] # t
  BY IdsFacts, LimitsAssumption DEF TypeOK, EvidenceChain, Ids
<1>5. \A u \in Ids : DependenciesCompleted(u) => DependenciesCompleted(u)'
  BY DEF DependenciesCompleted
<1>6. EvidenceChain'
  BY <1>1, <1>4, <1>5 DEF EvidenceChain
<1>7. QED
  BY <1>1, <1>2, <1>3, <1>6 DEF VaultKept

\* An intent is written once, under a later Task ID, for a refused Task.
LEMMA IntentKeeps ==
    ASSUME TypeOK, EvidenceChain, NEW b \in Ids, branch[b].task \in Ids,
           branch[b].next \in Ids, branch[b].task < branch[b].next,
           verdict[branch[b].task] = "request_changes", source[branch[b].next] = 0,
           source' = [source EXCEPT ![branch[b].next] = branch[b].task],
           UNCHANGED <<rows, saved, verdict>>
    PROVE  VaultKept(b) /\ source'[branch[b].next] # 0
<1> DEFINE t == branch[b].task  n == branch[b].next
<1>1. /\ source \in [Ids -> 0 .. MaxTaskId] /\ source' \in [Ids -> 0 .. MaxTaskId]
      /\ source'[n] = t /\ \A u \in Ids : u # n => source'[u] = source[u]
  BY IdsFacts DEF TypeOK
<1>2. VaultTyped'
  BY <1>1 DEF TypeOK, VaultTyped
<1>3. VaultStep(b)
  BY <1>1 DEF VaultStep
<1>4. t # 0
  BY IdsFacts
<1>5. \A u \in Ids : DependenciesCompleted(u) => DependenciesCompleted(u)'
  BY DEF DependenciesCompleted
<1>6. EvidenceChain'
  BY <1>1, <1>4, <1>5 DEF EvidenceChain
<1>7. QED
  BY <1>1, <1>2, <1>3, <1>4, <1>6 DEF VaultKept
-----------------------------------------------------------------------------
(* The steps of a branch.                                                  *)

BranchStep(b) == VaultKept(b) /\ Moves(b) /\ Supported(branch[b])'

LEMMA OwnFacts ==
    ASSUME IInv, NEW b \in Ids, Busy(b)
    PROVE  LET t == branch[b].task  pc == branch[b].pc  n == branch[b].next IN
           /\ TypeOK /\ EvidenceChain
           /\ t \in Ids /\ rows[t] # "absent" /\ run.phase = "dispatch"
           /\ pc \in {"working", "produced", "stored"} => rows[t] = "in_progress"
           /\ pc = "stored" => t \in saved
           /\ pc \in {"completed", "review", "judging", "revise", "intent", "create"} =>
                 rows[t] = "completed"
           /\ pc = "judging" => verdict[t] = "none"
           /\ pc \in {"revise", "intent", "create"} => verdict[t] = "request_changes"
           /\ pc \in {"intent", "create"} => n \in Ids /\ t < n
           /\ pc = "create" => source[n] # 0
<1>1. Supported(branch[b])
  BY DEF IInv, BranchesSupported
<1>2. run.phase = "dispatch"
  BY DEF IInv, QuietBetweenRounds, Quiet, At, Busy
<1>3. QED
  BY <1>1, <1>2 DEF Supported, Busy, IInv

\* Refusals that leave the Vault alone.
LEMMA RefusalStep ==
    ASSUME IInv, NEW b \in Ids,
           OverBudget(b) \/ ReviewRefused(b) \/ StopRevising(b)
             \/ RevisionBlocked(b) \/ IntentExists(b)
    PROVE  Busy(b) /\ BranchStep(b)
<1>1. TypeOK /\ EvidenceChain
  BY DEF IInv
<1>2. UNCHANGED vault /\ Busy(b)
  BY DEF OverBudget, ReviewRefused, StopRevising, RevisionBlocked, IntentExists, At, Busy
<1>3. GivesUp(b) \subseteq Stages
  BY DEF GivesUp, Stages
<1>4. PICK err \in Stages : Return(b, err)
  BY <1>3 DEF OverBudget, ReviewRefused, StopRevising, RevisionBlocked, IntentExists, Stages
<1>5. Moves(b) /\ Supported(branch[b])'
  BY <1>1, <1>4, ReturnMoves
<1>6. VaultKept(b)
  BY <1>1, <1>2, SameVault
<1>7. QED
  BY <1>2, <1>5, <1>6 DEF BranchStep

\* A failing step returns, with at most one row moved.
LEMMA FailureStep ==
    ASSUME IInv, NEW b \in Ids,
           StartRefused(b) \/ WorkerFails(b) \/ SaveFails(b)
             \/ CompleteFails(b) \/ RevisionFails(b)
    PROVE  Busy(b) /\ BranchStep(b)
<1> DEFINE t == branch[b].task  n == branch[b].next
<1>1. Busy(b) /\ UNCHANGED <<verdict, source>>
  BY DEF StartRefused, WorkerFails, SaveFails, CompleteFails, RevisionFails, At, Busy
<1>2. TypeOK /\ EvidenceChain /\ t \in Ids /\ rows[t] # "absent"
  BY <1>1, OwnFacts
<1>3. PICK err \in Stages : Return(b, err)
  BY DEF StartRefused, WorkerFails, SaveFails, CompleteFails, RevisionFails, Stages
<1>4. Moves(b) /\ Supported(branch[b])'
  BY <1>2, <1>3, ReturnMoves
<1>5. saved \subseteq saved' /\ saved' \subseteq Ids
  BY <1>2 DEF StartRefused, WorkerFails, SaveFails, CompleteFails, RevisionFails, TypeOK
<1>6. ASSUME rows' = rows PROVE VaultKept(b)
  <2>1. rows' = [rows EXCEPT ![t] = rows[t]] /\ rows[t] \in Statuses
    BY <1>2, <1>6 DEF TypeOK
  <2>2. RowMove(t, rows[t])
    BY DEF RowMove
  <2>3. QED
    BY <1>1, <1>2, <1>5, <2>1, <2>2, RowMoveKeeps
<1>7. CASE StartRefused(b)
  <2>1. rows' = rows \/ (Executable(t) /\ rows' = [rows EXCEPT ![t] = "in_progress"])
    BY <1>7 DEF StartRefused
  <2>2. CASE Executable(t) /\ rows' = [rows EXCEPT ![t] = "in_progress"]
    <3>1. RowMove(t, "in_progress") /\ "in_progress" \in Statuses
      BY <2>2 DEF Executable, RowMove, Statuses
    <3>2. VaultKept(b)
      BY <1>1, <1>2, <1>5, <2>2, <3>1, RowMoveKeeps
    <3>3. QED
      BY <1>1, <1>4, <3>2 DEF BranchStep
  <2>3. QED
    BY <1>1, <1>4, <1>6, <2>1, <2>2 DEF BranchStep
<1>8. CASE WorkerFails(b) \/ SaveFails(b)
  <2>1. rows' = rows \/ rows' = [rows EXCEPT ![t] = "on_hold"]
    BY <1>8 DEF WorkerFails, SaveFails, AfterFailure
  <2>2. rows[t] = "in_progress"
    BY <1>1, <1>8, OwnFacts DEF WorkerFails, SaveFails, At
  <2>3. CASE rows' = [rows EXCEPT ![t] = "on_hold"]
    <3>1. RowMove(t, "on_hold") /\ "on_hold" \in Statuses
      BY <2>2 DEF RowMove, Statuses
    <3>2. VaultKept(b)
      BY <1>1, <1>2, <1>5, <2>3, <3>1, RowMoveKeeps
    <3>3. QED
      BY <1>1, <1>4, <3>2 DEF BranchStep
  <2>4. QED
    BY <1>1, <1>4, <1>6, <2>1, <2>3 DEF BranchStep
<1>9. CASE CompleteFails(b)
  <2>1. rows' = rows \/ rows' = [rows EXCEPT ![t] = "completed"]
    BY <1>9 DEF CompleteFails
  <2>2. rows[t] = "in_progress" /\ t \in saved
    BY <1>1, <1>9, OwnFacts DEF CompleteFails, At
  <2>3. CASE rows' = [rows EXCEPT ![t] = "completed"]
    <3>1. RowMove(t, "completed") /\ "completed" \in Statuses
      BY <2>2 DEF RowMove, Statuses
    <3>2. VaultKept(b)
      BY <1>1, <1>2, <1>5, <2>3, <3>1, RowMoveKeeps
    <3>3. QED
      BY <1>1, <1>4, <3>2 DEF BranchStep
  <2>4. QED
    BY <1>1, <1>4, <1>6, <2>1, <2>3 DEF BranchStep
<1>10. CASE RevisionFails(b)
  <2>1. rows' = rows \/ (/\ At(b, "create") /\ rows[n] = "absent"
                         /\ rows' = [rows EXCEPT ![n] = "unstarted"])
    BY <1>10 DEF RevisionFails
  <2>2. CASE /\ At(b, "create") /\ rows[n] = "absent"
             /\ rows' = [rows EXCEPT ![n] = "unstarted"]
    <3>1. n \in Ids /\ source[n] # 0
      BY <1>1, <2>2, OwnFacts DEF At
    <3>2. RowMove(n, "unstarted") /\ "unstarted" \in Statuses
      BY <2>2, <3>1 DEF RowMove, Statuses
    <3>3. VaultKept(b)
      BY <1>1, <1>2, <1>5, <2>2, <3>1, <3>2, RowMoveKeeps
    <3>4. QED
      BY <1>1, <1>4, <3>3 DEF BranchStep
  <2>3. QED
    BY <1>1, <1>4, <1>6, <2>1, <2>2 DEF BranchStep
<1>11. QED
  BY <1>7, <1>8, <1>9, <1>10

\* A step that only moves the goroutine on.
LEMMA AdvanceStep ==
    ASSUME IInv, NEW b \in Ids, Reserve(b) \/ WorkerReturns(b) \/ ReviewStarts(b)
    PROVE  Busy(b) /\ BranchStep(b)
<1>1. Busy(b) /\ UNCHANGED vault /\ UNCHANGED run
  BY DEF Reserve, WorkerReturns, ReviewStarts, At, Busy
<1>2. TypeOK /\ EvidenceChain /\ UNCHANGED <<rows, saved, verdict, source>>
  BY <1>1, OwnFacts DEF vault
<1>3. PICK pc \in {"execute", "review", "produced", "judging"} : Goto(b, pc)
  BY DEF Reserve, WorkerReturns, ReviewStarts
<1>4. /\ Moves(b) /\ branch'[b].pc = pc
      /\ branch'[b].task = branch[b].task /\ branch'[b].next = branch[b].next
  BY <1>1, <1>2, <1>3, GotoMoves DEF Points
<1>5. VaultKept(b)
  BY <1>1, <1>2, SameVault
<1>6. /\ pc = "review" => branch[b].pc = "completed"
      /\ pc = "produced" => branch[b].pc = "working"
      /\ pc = "judging" => branch[b].pc = "review" /\ verdict[branch[b].task] = "none"
  <2>1. CASE Reserve(b)
    <3>1. pc \in {"execute", "review"}
      BY <2>1, <1>4, GotoMoves, <1>1, <1>2 DEF Reserve, Points
    <3>2. branch[b].pc = "completed" \/ pc = "execute"
      BY <2>1, <1>4, GotoMoves, <1>1, <1>2 DEF Reserve, Points, At
    <3>3. QED
      BY <3>1, <3>2
  <2>2. CASE WorkerReturns(b)
    BY <2>2, <1>4, GotoMoves, <1>1, <1>2 DEF WorkerReturns, Points, At
  <2>3. CASE ReviewStarts(b)
    BY <2>3, <1>4, GotoMoves, <1>1, <1>2 DEF ReviewStarts, Points, At, Reviewable
  <2>4. QED
    BY <2>1, <2>2, <2>3
<1>7. Supported(branch[b])'
  BY <1>1, <1>2, <1>4, <1>6, OwnFacts DEF Supported
<1>8. QED
  BY <1>1, <1>4, <1>5, <1>7 DEF BranchStep

\* A step that moves the row of the branch's own Task.
LEMMA TaskStep ==
    ASSUME IInv, NEW b \in Ids, StartTask(b) \/ SaveDeliverable(b) \/ CompleteTask(b)
    PROVE  Busy(b) /\ BranchStep(b)
<1> DEFINE t == branch[b].task
<1>1. Busy(b) /\ UNCHANGED <<verdict, source, run>>
  BY DEF StartTask, SaveDeliverable, CompleteTask, At, Busy
<1>2. TypeOK /\ EvidenceChain /\ t \in Ids /\ rows[t] # "absent"
      /\ rows \in [Ids -> Statuses]
  BY <1>1, OwnFacts DEF TypeOK
<1>3. saved \subseteq saved' /\ saved' \subseteq Ids
  BY <1>2 DEF StartTask, SaveDeliverable, CompleteTask, TypeOK
<1>4. CASE StartTask(b)
  <2>1. Goto(b, "working") /\ Executable(t) /\ rows' = [rows EXCEPT ![t] = "in_progress"]
    BY <1>4 DEF StartTask
  <2>2. /\ Moves(b) /\ branch'[b].pc = "working" /\ branch'[b].task = t
    BY <1>1, <1>2, <2>1, GotoMoves DEF Points
  <2>3. RowMove(t, "in_progress") /\ "in_progress" \in Statuses
    BY <2>1 DEF Executable, RowMove, Statuses
  <2>4. VaultKept(b)
    BY <1>1, <1>2, <1>3, <2>1, <2>3, RowMoveKeeps
  <2>5. Supported(branch[b])'
    BY <1>2, <2>1, <2>2 DEF Supported
  <2>6. QED
    BY <1>1, <2>2, <2>4, <2>5 DEF BranchStep
<1>5. CASE SaveDeliverable(b)
  <2>1. Goto(b, "stored") /\ rows' = rows /\ t \in saved' /\ rows[t] = "in_progress"
    BY <1>1, <1>5, OwnFacts DEF SaveDeliverable, At
  <2>2. /\ Moves(b) /\ branch'[b].pc = "stored" /\ branch'[b].task = t
    BY <1>1, <1>2, <2>1, GotoMoves DEF Points
  <2>3. RowMove(t, rows[t]) /\ rows[t] \in Statuses /\ rows' = [rows EXCEPT ![t] = rows[t]]
    BY <1>2, <2>1 DEF RowMove
  <2>4. VaultKept(b)
    BY <1>1, <1>2, <1>3, <2>3, RowMoveKeeps
  <2>5. Supported(branch[b])'
    BY <1>2, <2>1, <2>2 DEF Supported
  <2>6. QED
    BY <1>1, <2>2, <2>4, <2>5 DEF BranchStep
<1>6. CASE CompleteTask(b)
  <2>1. /\ Goto(b, "completed") /\ rows' = [rows EXCEPT ![t] = "completed"]
        /\ rows[t] = "in_progress" /\ t \in saved
    BY <1>1, <1>6, OwnFacts DEF CompleteTask, At
  <2>2. /\ Moves(b) /\ branch'[b].pc = "completed" /\ branch'[b].task = t
    BY <1>1, <1>2, <2>1, GotoMoves DEF Points
  <2>3. RowMove(t, "completed") /\ "completed" \in Statuses
    BY <2>1 DEF RowMove, Statuses
  <2>4. VaultKept(b)
    BY <1>1, <1>2, <1>3, <2>1, <2>3, RowMoveKeeps
  <2>5. Supported(branch[b])'
    BY <1>2, <2>1, <2>2 DEF Supported
  <2>6. QED
    BY <1>1, <2>2, <2>4, <2>5 DEF BranchStep
<1>7. QED
  BY <1>4, <1>5, <1>6

\* The Review's outcome.
LEMMA ReviewStep ==
    ASSUME IInv, NEW b \in Ids, ReviewFails(b) \/ Approve(b) \/ RequestChanges(b)
    PROVE  Busy(b) /\ BranchStep(b)
<1> DEFINE t == branch[b].task
<1>1. Busy(b) /\ At(b, "judging") /\ UNCHANGED <<rows, saved, source>>
  BY DEF ReviewFails, Approve, RequestChanges, At, Busy
<1>2. /\ TypeOK /\ EvidenceChain /\ t \in Ids
      /\ rows[t] = "completed" /\ verdict[t] = "none"
  BY <1>1, OwnFacts DEF At
<1>3. CASE ReviewFails(b)
  <2>1. Moves(b) /\ Supported(branch[b])'
    BY <1>2, <1>3, ReturnMoves DEF ReviewFails, Stages
  <2>2. verdict' = verdict \/ \E v \in Verdicts : verdict' = [verdict EXCEPT ![t] = v]
    BY <1>3 DEF ReviewFails, Verdicts
  <2>3. VaultKept(b)
    BY <1>1, <1>2, <2>2, SameVault, VerdictKeeps DEF vault
  <2>4. QED
    BY <1>1, <2>1, <2>3 DEF BranchStep
<1>4. CASE Approve(b)
  <2>1. Moves(b) /\ Supported(branch[b])'
    BY <1>2, <1>4, ReturnMoves DEF Approve
  <2>2. VaultKept(b)
    BY <1>1, <1>2, <1>4, VerdictKeeps DEF Approve, Verdicts
  <2>3. QED
    BY <1>1, <2>1, <2>2 DEF BranchStep
<1>5. CASE RequestChanges(b)
  <2>1. Moves(b) /\ branch'[b].pc = "revise" /\ branch'[b].task = t
    BY <1>2, <1>5, GotoMoves DEF RequestChanges, Points
  <2>2. VaultKept(b) /\ verdict'[t] = "request_changes"
    BY <1>1, <1>2, <1>5, VerdictKeeps DEF RequestChanges, Verdicts
  <2>3. Supported(branch[b])'
    BY <1>1, <1>2, <2>1, <2>2 DEF Supported
  <2>4. QED
    BY <1>1, <2>1, <2>2, <2>3 DEF BranchStep
<1>6. QED
  BY <1>3, <1>4, <1>5

\* The Revision: its plan, its intent, its Task.
LEMMA RevisionStep ==
    ASSUME IInv, NEW b \in Ids, PlanRevision(b) \/ SaveIntent(b) \/ CreateTask(b)
    PROVE  Busy(b) /\ BranchStep(b)
<1> DEFINE t == branch[b].task  n == branch[b].next
<1>1. Busy(b) /\ UNCHANGED <<saved, verdict, run>>
  BY DEF PlanRevision, SaveIntent, CreateTask, At, Busy, vault
<1>2. /\ TypeOK /\ EvidenceChain /\ t \in Ids
      /\ rows[t] = "completed" /\ verdict[t] = "request_changes"
      /\ branch \in [Ids -> BranchRecords] /\ branch[b] \in BranchRecords
      /\ run' \in RunRecords /\ rows \in [Ids -> Statuses] /\ saved \subseteq Ids
  BY <1>1, OwnFacts DEF PlanRevision, SaveIntent, CreateTask, At, TypeOK
<1>3. CASE PlanRevision(b)
  <2>1. PICK m \in Ids : /\ IsNextTaskID(m)
                         /\ branch' = [branch EXCEPT ![b] =
                                         [pc |-> "intent", task |-> t,
                                          revs |-> branch[b].revs, next |-> m]]
    BY <1>3 DEF PlanRevision
  <2>2. [pc |-> "intent", task |-> t, revs |-> branch[b].revs, next |-> m] \in BranchRecords
    BY <1>2, IdsFacts DEF BranchRecords, Points
  <2>3. /\ branch' \in [Ids -> BranchRecords]
        /\ \A a \in Ids : a # b => branch'[a] = branch[a]
        /\ branch'[b].pc = "intent" /\ branch'[b].task = t /\ branch'[b].next = m
    BY <1>2, <2>1, <2>2
  <2>4. Moves(b)
    BY <1>1, <1>2, <2>3 DEF Moves
  <2>5. UNCHANGED vault /\ UNCHANGED <<rows, saved, verdict, source>>
    BY <1>3 DEF PlanRevision, vault
  <2>6. VaultKept(b)
    BY <1>2, <2>5, SameVault
  <2>7. t < m
    BY <1>2, <2>1 DEF IsNextTaskID, Rows
  <2>8. Supported(branch[b])'
    BY <1>2, <2>3, <2>5, <2>7 DEF Supported
  <2>9. QED
    BY <1>1, <2>4, <2>6, <2>8 DEF BranchStep
<1>4. CASE SaveIntent(b)
  <2>1. /\ Moves(b) /\ branch'[b].pc = "create"
        /\ branch'[b].task = t /\ branch'[b].next = n
    BY <1>1, <1>2, <1>4, GotoMoves DEF SaveIntent, Points
  <2>2. /\ n \in Ids /\ t < n /\ source[n] = 0 /\ UNCHANGED rows
        /\ source' = [source EXCEPT ![n] = t]
    BY <1>1, <1>4, OwnFacts DEF SaveIntent, At
  <2>3. VaultKept(b) /\ source'[n] # 0
    BY <1>1, <1>2, <2>2, IntentKeeps
  <2>4. Supported(branch[b])'
    BY <1>1, <1>2, <2>1, <2>2, <2>3 DEF Supported
  <2>5. QED
    BY <1>1, <2>1, <2>3, <2>4 DEF BranchStep
<1>5. CASE CreateTask(b)
  <2>1. /\ n \in Ids /\ source[n] # 0 /\ rows[n] = "absent" /\ UNCHANGED source
        /\ rows' = [rows EXCEPT ![n] = "unstarted"]
        /\ branch' = [branch EXCEPT ![b] =
                [pc |-> "attempt", task |-> n, revs |-> branch[b].revs + 1, next |-> 0]]
    BY <1>1, <1>5, OwnFacts DEF CreateTask, At
  <2>2. [pc |-> "attempt", task |-> n, revs |-> branch[b].revs + 1, next |-> 0]
          \in BranchRecords
    BY <1>2, <2>1, IdsFacts, LimitsAssumption DEF BranchRecords, Points
  <2>3. /\ branch' \in [Ids -> BranchRecords]
        /\ \A a \in Ids : a # b => branch'[a] = branch[a]
        /\ branch'[b].pc = "attempt" /\ branch'[b].task = n
    BY <1>2, <2>1, <2>2
  <2>4. Moves(b)
    BY <1>1, <1>2, <2>1, <2>3 DEF Moves
  <2>5. RowMove(n, "unstarted") /\ "unstarted" \in Statuses
    BY <2>1 DEF RowMove, Statuses
  <2>6. VaultKept(b)
    BY <1>1, <1>2, <2>1, <2>5, RowMoveKeeps
  <2>7. Supported(branch[b])'
    BY <1>2, <2>1, <2>3 DEF Supported
  <2>8. QED
    BY <1>1, <2>4, <2>6, <2>7 DEF BranchStep
<1>6. QED
  BY <1>3, <1>4, <1>5

LEMMA EveryBranchStep ==
    ASSUME IInv, NEW b \in Ids, Branch(b)
    PROVE  Busy(b) /\ BranchStep(b)
  BY RefusalStep, FailureStep, AdvanceStep, TaskStep, ReviewStep, RevisionStep DEF Branch
-----------------------------------------------------------------------------
(* The other branches.                                                     *)

\* A step of b leaves what the others know, and nobody gets two owners.
LEMMA OthersKept ==
    ASSUME IInv, NEW b \in Ids, Busy(b), BranchStep(b)
    PROVE  QuietBetweenRounds' /\ DistinctTasks' /\ BranchesSupported'
<1> USE DEF BranchStep
<1>1. /\ TypeOK /\ DistinctTasks /\ BranchesSupported
      /\ VaultStep(b) /\ Moves(b) /\ Supported(branch[b])'
      /\ branch[b].task \in Ids /\ rows[branch[b].task] # "absent" /\ run.phase = "dispatch"
  BY OwnFacts DEF VaultKept, IInv
<1>2. \A a \in Ids : a # b => branch'[a] = branch[a]
  BY <1>1 DEF Moves
<1>3. \A a \in Ids : Busy(a) => branch[a].task \in Ids /\ rows[branch[a].task] # "absent"
  BY <1>1 DEF BranchesSupported, Supported, Busy
<1>4. QuietBetweenRounds'
  BY <1>1 DEF Moves, QuietBetweenRounds
<1>5. BranchesSupported'
  <2> SUFFICES ASSUME NEW a \in Ids, a # b, Busy(a) PROVE Supported(branch[a])'
    BY <1>1, <1>2 DEF BranchesSupported, Supported, Busy
  <2>1. Supported(branch[a]) /\ branch'[a] = branch[a] /\ branch[a].task \in Ids
    BY <1>1, <1>2, <1>3 DEF BranchesSupported
  <2>2. branch[a].task # branch[b].task
    BY <1>1 DEF DistinctTasks
  <2>3. /\ rows'[branch[a].task] = rows[branch[a].task]
        /\ verdict'[branch[a].task] = verdict[branch[a].task]
    BY <1>1, <1>3, <2>1, <2>2 DEF VaultStep
  <2>4. saved \subseteq saved' /\ \A t \in Ids : source[t] # 0 => source'[t] # 0
    BY <1>1 DEF VaultStep
  <2>5. QED
    BY <2>1, <2>3, <2>4 DEF Supported
<1>6. DistinctTasks'
  <2>1. \A t \in Ids : rows[t] # "absent" => rows'[t] # "absent"
    BY <1>1 DEF VaultStep
  <2>2. \/ branch'[b].pc = "idle" \/ branch'[b].task = branch[b].task
        \/ branch'[b].task \in Ids /\ rows[branch'[b].task] = "absent"
    BY <1>1 DEF Moves
  <2>3. \A x, y \in Ids : x # y /\ Busy(x)' /\ Busy(y)' => branch'[x].task # branch'[y].task
    BY <1>1, <1>2, <1>3, <2>2 DEF DistinctTasks, Busy
  <2>4. run'.queue = run.queue /\ run.queue \subseteq Ids
    BY <1>1 DEF Moves, TypeOK, RunRecords
  <2>5. \A q \in run.queue : rows'[q] # "absent"
    BY <1>1, <2>1, <2>4 DEF DistinctTasks
  <2>6. \A q \in run.queue : \A x \in Ids : Busy(x)' => branch'[x].task # q
    BY <1>1, <1>2, <2>2, <2>4 DEF DistinctTasks, Busy
  <2>7. QED
    BY <2>3, <2>4, <2>5, <2>6 DEF DistinctTasks
<1>7. QED
  BY <1>4, <1>5, <1>6

-----------------------------------------------------------------------------
(* The budget.                                                             *)

LEMMA HoldingFinite ==
    /\ IsFiniteSet(Holding) /\ Cardinality(Holding) \in Nat /\ Holding \subseteq Ids
<1>1. Holding \subseteq Ids
  BY DEF Holding
<1>2. QED
  BY <1>1, IdsFacts, FS_Subset, FS_CardinalityType

LEMMA HoldingFiniteNext ==
    /\ IsFiniteSet(Holding') /\ Cardinality(Holding') \in Nat /\ Holding' \subseteq Ids
<1>1. Holding' \subseteq Ids
  BY DEF Holding
<1>2. QED
  BY <1>1, IdsFacts, FS_Subset, FS_CardinalityType

\* A step that neither counts nor makes a call and takes up no reservation.
LEMMA CountersKept ==
    ASSUME TypeOK, Accounted, UNCHANGED <<calls, invoked>>, Holding' \subseteq Holding
    PROVE  Accounted'
<1>1. Cardinality(Holding') <= Cardinality(Holding)
  BY HoldingFinite, FS_Subset
<1>2. QED
  BY <1>1, HoldingFinite, HoldingFiniteNext DEF Accounted, TypeOK

\* The reservation and the call.
LEMMA ReserveAccounted ==
    ASSUME IInv, NEW b \in Ids, Reserve(b)
    PROVE  Accounted'
<1>1. TypeOK /\ Accounted /\ calls \in Nat /\ invoked \in Nat
  BY DEF IInv, TypeOK
<1>2. PICK pc \in {"execute", "review"} : Goto(b, pc)
  BY DEF Reserve
<1>3. branch'[b].pc = pc /\ \A a \in Ids : a # b => branch'[a] = branch[a]
  BY <1>1, <1>2, GotoFacts DEF Points
<1>4. Holding' = Holding \cup {b} /\ b \notin Holding
  BY <1>3 DEF Holding, Reserve, At
<1>5. Cardinality(Holding') = Cardinality(Holding) + 1
  BY <1>4, HoldingFinite, FS_AddElement
<1>6. calls < MaxCalls /\ calls' = calls + 1 /\ invoked' = invoked
  BY DEF Reserve
<1>7. QED
  BY <1>1, <1>5, <1>6, HoldingFinite, LimitsAssumption DEF Accounted

LEMMA CallAccounted ==
    ASSUME IInv, NEW b \in Ids, StartTask(b) \/ ReviewStarts(b)
    PROVE  Accounted'
<1>1. TypeOK /\ Accounted /\ calls \in Nat /\ invoked \in Nat
  BY DEF IInv, TypeOK
<1>2. PICK pc \in {"working", "judging"} : Goto(b, pc)
  BY DEF StartTask, ReviewStarts
<1>3. branch'[b].pc = pc /\ \A a \in Ids : a # b => branch'[a] = branch[a]
  BY <1>1, <1>2, GotoFacts DEF Points
<1>4. Holding' = Holding \ {b} /\ b \in Holding
  BY <1>3 DEF Holding, StartTask, ReviewStarts, At
<1>5. Cardinality(Holding') = Cardinality(Holding) - 1
  BY <1>4, HoldingFinite, FS_RemoveElement
<1>6. calls' = calls /\ invoked' = invoked + 1
  BY DEF StartTask, ReviewStarts
<1>7. QED
  BY <1>1, <1>5, <1>6, HoldingFinite DEF Accounted

\* Every other step of a branch.
LEMMA BranchAccounted ==
    ASSUME IInv, NEW b \in Ids, Branch(b)
    PROVE  Accounted'
<1>1. TypeOK /\ Accounted
  BY DEF IInv
<1>2. CASE Reserve(b)
  BY <1>2, ReserveAccounted
<1>3. CASE StartTask(b) \/ ReviewStarts(b)
  BY <1>3, CallAccounted
<1>4. CASE /\ UNCHANGED <<calls, invoked>>
           /\ branch'[b].pc \notin {"execute", "review"}
  <2>1. \A a \in Ids : a # b => branch'[a] = branch[a]
    BY EveryBranchStep DEF BranchStep, Moves
  <2>2. Holding' \subseteq Holding
    BY <1>4, <2>1 DEF Holding
  <2>3. QED
    BY <1>1, <1>4, <2>2, CountersKept
<1>5. ASSUME NEW err \in Stages \cup {"none"}, Return(b, err), UNCHANGED <<calls, invoked>>
      PROVE  Accounted'
  BY <1>1, <1>4, <1>5, ReturnFacts DEF Idle
<1>6. ASSUME NEW pc \in Points \ {"execute", "review"}, Goto(b, pc), UNCHANGED <<calls, invoked>>
      PROVE  Accounted'
  BY <1>1, <1>4, <1>6, GotoFacts
<1>7. CASE OverBudget(b) \/ ReviewRefused(b) \/ RevisionBlocked(b) \/ IntentExists(b)
  BY <1>5, <1>7 DEF OverBudget, ReviewRefused, RevisionBlocked, IntentExists, Stages
<1>8. CASE StopRevising(b)
  BY <1>5, <1>8 DEF StopRevising, GivesUp, Stages
<1>9. CASE StartRefused(b) \/ WorkerFails(b) \/ SaveFails(b) \/ CompleteFails(b) \/ RevisionFails(b)
  BY <1>5, <1>9
    DEF StartRefused, WorkerFails, SaveFails, CompleteFails, RevisionFails, Stages
<1>10. CASE ReviewFails(b) \/ Approve(b)
  BY <1>5, <1>10 DEF ReviewFails, Approve, Stages
<1>11. CASE WorkerReturns(b) \/ SaveDeliverable(b) \/ CompleteTask(b)
  BY <1>6, <1>11 DEF WorkerReturns, SaveDeliverable, CompleteTask, Points
<1>12. CASE RequestChanges(b) \/ SaveIntent(b)
  BY <1>6, <1>12 DEF RequestChanges, SaveIntent, Points
<1>13. CASE PlanRevision(b)
  <2>1. PICK m \in Ids :
            branch' = [branch EXCEPT ![b] = [pc |-> "intent", task |-> branch[b].task,
                                             revs |-> branch[b].revs, next |-> m]]
    BY <1>13 DEF PlanRevision
  <2>2. branch'[b].pc = "intent"
    BY <1>1, <2>1 DEF TypeOK
  <2>3. QED
    BY <1>4, <1>13, <2>2 DEF PlanRevision
<1>14. CASE CreateTask(b)
  <2>1. branch'[b].pc = "attempt"
    BY <1>1, <1>14 DEF CreateTask, TypeOK
  <2>2. QED
    BY <1>4, <1>14, <2>1 DEF CreateTask
<1>15. QED
  BY <1>2, <1>3, <1>7, <1>8, <1>9, <1>10, <1>11, <1>12, <1>13, <1>14 DEF Branch
-----------------------------------------------------------------------------
(* The Command and its rounds: the steps that touch no Vault file.         *)

LEMMA BranchTyped ==
    ASSUME IInv, NEW b \in Ids, Branch(b)
    PROVE  TypeOK'
<1>1. TypeOK /\ BranchStep(b) /\ branch[b].task \in Ids
  BY EveryBranchStep, OwnFacts
<1>2. VaultTyped' /\ branch' \in [Ids -> BranchRecords] /\ run' \in RunRecords
  BY <1>1 DEF BranchStep, VaultKept, Moves
<1>3. UNCHANGED <<expired, runs>>
  BY DEF Branch, Reserve, OverBudget, StartTask, StartRefused, WorkerReturns, WorkerFails,
         SaveDeliverable, SaveFails, CompleteTask, CompleteFails, ReviewStarts, ReviewRefused,
         ReviewFails, Approve, RequestChanges, StopRevising, PlanRevision, RevisionBlocked,
         SaveIntent, IntentExists, CreateTask, RevisionFails
<1>4. /\ calls' \in {calls, calls + 1} /\ invoked' \in {invoked, invoked + 1}
      /\ started' \in {started, started \cup {branch[b].task}}
  BY DEF Branch, Reserve, OverBudget, StartTask, StartRefused, WorkerReturns, WorkerFails,
         SaveDeliverable, SaveFails, CompleteTask, CompleteFails, ReviewStarts, ReviewRefused,
         ReviewFails, Approve, RequestChanges, StopRevising, PlanRevision, RevisionBlocked,
         SaveIntent, IntentExists, CreateTask, RevisionFails
<1>5. /\ expired \in BOOLEAN /\ runs \in 0 .. MaxRuns /\ calls \in Nat /\ invoked \in Nat
      /\ started \subseteq Ids
  BY <1>1 DEF TypeOK
<1>6. /\ expired' \in BOOLEAN /\ runs' \in 0 .. MaxRuns /\ calls' \in Nat /\ invoked' \in Nat
      /\ started' \subseteq Ids
  BY <1>1, <1>3, <1>4, <1>5
<1>7. run'.phase # "idle" => runs' > 0
  BY <1>1, <1>3 DEF BranchStep, Moves, TypeOK
<1>8. QED
  BY <1>2, <1>6, <1>7 DEF TypeOK, VaultTyped

LEMMA BranchPreserves ==
    ASSUME IInv, NEW b \in Ids, Branch(b)
    PROVE  IInv'
<1>1. Busy(b) /\ BranchStep(b)
  BY EveryBranchStep
<1>2. EvidenceChain'
  BY <1>1 DEF BranchStep, VaultKept
<1>3. QED
  BY <1>1, <1>2, BranchTyped, BranchAccounted, OthersKept DEF IInv

\* The Vault and the goroutines stay: what the branches know stays true.
LEMMA StillSupported ==
    ASSUME IInv, UNCHANGED vault, UNCHANGED branch
    PROVE  EvidenceChain' /\ BranchesSupported' /\ VaultTyped'
<1>1. UNCHANGED <<rows, saved, verdict, source>>
  BY DEF vault
<1>2. EvidenceChain'
  BY <1>1 DEF IInv, EvidenceChain, DependenciesCompleted
<1>3. BranchesSupported'
  BY <1>1 DEF IInv, BranchesSupported, Supported
<1>4. VaultTyped'
  BY <1>1 DEF IInv, TypeOK, VaultTyped
<1>5. QED
  BY <1>2, <1>3, <1>4

\* Between rounds, every new queue of existing Tasks is sound.
LEMMA RunChanges ==
    ASSUME IInv, UNCHANGED vault, UNCHANGED branch, run' \in RunRecords,
           Quiet \/ run'.phase = "dispatch",
           \A q \in run'.queue : rows[q] # "absent" /\ (Quiet \/ q \in run.queue)
    PROVE  QuietBetweenRounds' /\ DistinctTasks'
<1>1. UNCHANGED rows /\ DistinctTasks
  BY DEF vault, IInv
<1>2. QuietBetweenRounds'
  BY DEF QuietBetweenRounds, Quiet, At
<1>3. DistinctTasks'
  BY <1>1 DEF DistinctTasks, Busy, Quiet, At
<1>4. QED
  BY <1>2, <1>3

LEMMA RunRecordTyped ==
    ASSUME NEW p \in {"idle", "plan", "dispatch"}, NEW q \in SUBSET Ids,
           NEW l \in 0 .. MaxWorkflowTasks, NEW s \in Nat, NEW e \in Stages \cup {"none"},
           NEW r \in Results
    PROVE  [phase |-> p, queue |-> q, left |-> l, slots |-> s, err |-> e, result |-> r]
              \in RunRecords
  BY DEF RunRecords

LEMMA StoppedTyped ==
    ASSUME NEW r \in Results
    PROVE  /\ Stopped(r) \in RunRecords
           /\ Stopped(r).phase = "idle" /\ Stopped(r).queue = {}
<1>1. 0 \in 0 .. MaxWorkflowTasks /\ {} \in SUBSET Ids
  BY LimitsAssumption
<1>2. QED
  BY <1>1, RunRecordTyped DEF Stopped

\* A begun Command has a Task limit and a semaphore.
LEMMA SlotsTyped ==
    ASSUME NEW n \in 1 .. MaxRuns
    PROVE  TaskLimits[n] \in 0 .. MaxWorkflowTasks /\ Slots(n) \in Nat
<1>1. TaskLimits[n] \in 1 .. MaxWorkflowTasks /\ MaxParallel \in Nat
  BY LimitsAssumption
<1>2. QED
  BY <1>1, LimitsAssumption DEF Slots

\* The Command stops, or takes the next round's Tasks.
LEMMA RoundBoundary ==
    ASSUME IInv, RunFails \/ AllCompleted \/ NothingReady \/ NextBatch \/ RoundEnds
    PROVE  IInv'
<1>1. /\ UNCHANGED <<vault, branch, expired, calls, invoked, started, runs>>
      /\ TypeOK /\ QuietBetweenRounds /\ run \in RunRecords
  BY DEF RunFails, AllCompleted, NothingReady, NextBatch, RoundEnds, IInv, TypeOK
<1>2. Quiet
  BY <1>1 DEF RunFails, AllCompleted, NothingReady, NextBatch, RoundEnds, QuietBetweenRounds
<1>3. run' \in RunRecords /\ \A q \in run'.queue : q \in Ids /\ rows[q] # "absent"
  <2>1. ASSUME NEW r \in Results, run' = Stopped(r)
        PROVE  run' \in RunRecords /\ \A q \in run'.queue : q \in Ids /\ rows[q] # "absent"
    BY <2>1, StoppedTyped
  <2>2. CASE NextBatch
    <3>1. run' = [phase |-> "dispatch", queue |-> Ready, left |-> run.left, slots |-> Slots(runs),
                  err |-> run.err, result |-> run.result]
      BY <1>1, <2>2 DEF NextBatch, RunRecords
    <3>2. Ready \subseteq Ids /\ \A q \in Ready : rows[q] # "absent"
      BY DEF Ready
    <3>3. Slots(runs) \in Nat
      <4>1. runs \in 1 .. MaxRuns
        BY <1>1, <2>2, LimitsAssumption DEF NextBatch, TypeOK
      <4>2. QED
        BY <4>1, SlotsTyped
    <3>4. /\ run.left \in 0 .. MaxWorkflowTasks /\ run.err \in Stages \cup {"none"}
          /\ run.result \in Results
      BY <1>1 DEF RunRecords
    <3>5. run' \in RunRecords
      BY <3>1, <3>2, <3>3, <3>4, RunRecordTyped
    <3>6. QED
      BY <3>1, <3>2, <3>5
  <2>3. CASE RoundEnds
    <3>1. CASE run' = [run EXCEPT !.phase = "plan"]
      <4>1. run' = [phase |-> "plan", queue |-> run.queue, left |-> run.left,
                    slots |-> run.slots, err |-> run.err, result |-> run.result]
        BY <1>1, <3>1 DEF RunRecords
      <4>2. run' \in RunRecords /\ run'.queue = run.queue /\ run.queue \subseteq Ids
        BY <1>1, <4>1 DEF RunRecords
      <4>3. QED
        BY <4>2 DEF IInv, DistinctTasks
    <3>2. QED
      BY <2>1, <2>3, <3>1 DEF RoundEnds, Results
  <2>4. QED
    BY <2>1, <2>2, <2>3 DEF RunFails, AllCompleted, NothingReady, Finish, Results
<1>4. QuietBetweenRounds' /\ DistinctTasks'
  BY <1>1, <1>2, <1>3, RunChanges
<1>5. Accounted'
  <2>1. Holding' = Holding
    BY <1>1 DEF Holding
  <2>2. QED
    BY <1>1, <2>1, CountersKept DEF IInv
<1>6. run.phase # "idle"
  BY <1>1 DEF RunFails, AllCompleted, NothingReady, NextBatch, RoundEnds
<1>7. TypeOK'
  BY <1>1, <1>3, <1>6, StillSupported DEF TypeOK, VaultTyped
<1>8. QED
  BY <1>1, <1>4, <1>5, <1>7, StillSupported DEF IInv

\* The next Task of the queue gets a goroutine.
LEMMA DispatchPreserves ==
    ASSUME IInv, NEW b \in Ids, Dispatch(b)
    PROVE  IInv'
<1> DEFINE fresh == [pc |-> "attempt", task |-> b, revs |-> 0, next |-> 0]
<1>1. /\ UNCHANGED <<vault, expired, calls, invoked, started, runs>>
      /\ UNCHANGED <<rows, saved, verdict, source>>
      /\ TypeOK /\ run \in RunRecords /\ branch \in [Ids -> BranchRecords]
      /\ DistinctTasks /\ BranchesSupported /\ EvidenceChain
  BY DEF Dispatch, IInv, TypeOK, vault
<1>2. /\ run.phase = "dispatch" /\ b \in run.queue /\ rows[b] # "absent"
      /\ \A a \in Ids : Busy(a) => branch[a].task # b
      /\ run.left > 0 /\ run.slots > 0
  BY <1>1 DEF Dispatch, DistinctTasks
<1>3. /\ run.queue \in SUBSET Ids /\ run.left \in 0 .. MaxWorkflowTasks /\ run.slots \in Nat
      /\ run.err \in Stages \cup {"none"} /\ run.result \in Results
  BY <1>1 DEF RunRecords
<1>4. run' = [phase |-> "dispatch", queue |-> run.queue \ {b}, left |-> run.left - 1,
              slots |-> run.slots - 1, err |-> run.err, result |-> run.result]
  BY <1>1, <1>2 DEF Dispatch, RunRecords
<1>5. run.left - 1 \in 0 .. MaxWorkflowTasks /\ run.slots - 1 \in Nat
  BY <1>2, <1>3, LimitsAssumption
<1>6. run' \in RunRecords
  BY <1>3, <1>4, <1>5, RunRecordTyped
<1>7. fresh \in BranchRecords
  BY IdsFacts, LimitsAssumption DEF BranchRecords, Points
<1>8. /\ branch' \in [Ids -> BranchRecords] /\ branch'[b] = fresh
      /\ \A a \in Ids : a # b => branch'[a] = branch[a]
  BY <1>1, <1>7 DEF Dispatch
<1>9. branch'[b].pc = "attempt" /\ branch'[b].task = b
  BY <1>8
<1>10. QuietBetweenRounds'
  BY <1>4 DEF QuietBetweenRounds
<1>11. BranchesSupported'
  <2> SUFFICES ASSUME NEW a \in Ids PROVE Supported(branch[a])'
    BY DEF BranchesSupported
  <2>1. CASE a = b
    BY <1>1, <1>2, <1>9, <2>1 DEF Supported
  <2>2. CASE a # b
    <3>1. Supported(branch[a]) /\ branch'[a] = branch[a]
      BY <1>1, <1>8, <2>2 DEF BranchesSupported
    <3>2. QED
      BY <1>1, <3>1 DEF Supported
  <2>3. QED
    BY <2>1, <2>2
<1>12. DistinctTasks'
  <2>1. \A x, y \in Ids : x # y /\ Busy(x)' /\ Busy(y)' => branch'[x].task # branch'[y].task
    BY <1>1, <1>2, <1>8, <1>9 DEF DistinctTasks, Busy
  <2>2. run'.queue = run.queue \ {b} /\ run.queue \subseteq Ids
    BY <1>3, <1>4
  <2>3. \A q \in run.queue \ {b} : \A x \in Ids : Busy(x)' => branch'[x].task # q
    BY <1>1, <1>8, <1>9 DEF DistinctTasks, Busy
  <2>4. \A q \in run.queue : rows'[q] # "absent"
    BY <1>1 DEF DistinctTasks
  <2>5. QED
    BY <2>1, <2>2, <2>3, <2>4 DEF DistinctTasks
<1>13. Accounted'
  <2>1. Holding' \subseteq Holding
    BY <1>8, <1>9 DEF Holding
  <2>2. QED
    BY <1>1, <2>1, CountersKept DEF IInv
<1>14. EvidenceChain'
  BY <1>1 DEF EvidenceChain, DependenciesCompleted
<1>15. TypeOK'
  BY <1>1, <1>2, <1>6, <1>8 DEF TypeOK
<1>16. QED
  BY <1>10, <1>11, <1>12, <1>13, <1>14, <1>15 DEF IInv

\* A Command starts with a fresh budget.
LEMMA BeginPreserves ==
    ASSUME IInv, NEW queue \in SUBSET Ids, \A q \in queue : rows[q] # "absent", Begin(queue)
    PROVE  IInv'
<1>1. /\ UNCHANGED vault /\ UNCHANGED branch /\ TypeOK /\ QuietBetweenRounds
      /\ expired' = FALSE /\ calls' = 0 /\ invoked' = 0 /\ started' = {} /\ runs' = runs + 1
  BY DEF Begin, IInv
<1>2. Quiet
  BY <1>1 DEF Begin, QuietBetweenRounds
<1>3. run' = [phase |-> IF queue = {} THEN "plan" ELSE "dispatch", queue |-> queue,
              left |-> TaskLimits[runs + 1], slots |-> Slots(runs + 1), err |-> "none", result |-> "none"]
  BY DEF Begin
<1>4. TaskLimits[runs + 1] \in 0 .. MaxWorkflowTasks /\ Slots(runs + 1) \in Nat
  <2>1. runs + 1 \in 1 .. MaxRuns
    BY <1>1, LimitsAssumption DEF Begin, TypeOK
  <2>2. QED
    BY <2>1, SlotsTyped
<1>5. run' \in RunRecords /\ run'.queue = queue
  BY <1>3, <1>4, RunRecordTyped DEF Results
<1>6. QuietBetweenRounds' /\ DistinctTasks'
  BY <1>1, <1>2, <1>5, RunChanges
<1>7. Accounted'
  <2>1. Holding' = {}
    BY <1>1, <1>2 DEF Holding, Quiet, At
  <2>2. Cardinality(Holding') = 0
    BY <2>1, FS_EmptySet
  <2>3. QED
    BY <1>1, <2>2, LimitsAssumption DEF Accounted
<1>8. TypeOK'
  <2>1. VaultTyped' /\ branch' \in [Ids -> BranchRecords]
    BY <1>1, StillSupported DEF TypeOK
  <2>2. expired' \in BOOLEAN
    BY <1>1
  <2>3. calls' \in Nat /\ invoked' \in Nat /\ started' \subseteq Ids
    BY <1>1 DEF TypeOK
  <2>4. runs' \in 0 .. MaxRuns /\ runs' > 0
    BY <1>1, LimitsAssumption DEF Begin, TypeOK
  <2>5. QED
    BY <1>5, <2>1, <2>2, <2>3, <2>4 DEF TypeOK, VaultTyped
<1>9. QED
  BY <1>1, <1>6, <1>7, <1>8, StillSupported DEF IInv

LEMMA CrashPreserves ==
    ASSUME IInv, Crash
    PROVE  IInv'
<1>1. /\ UNCHANGED <<vault, expired, calls, invoked, started, runs>>
      /\ UNCHANGED <<rows, saved, verdict, source>>
      /\ run' = Stopped("crashed") /\ branch' = [b \in Ids |-> Idle] /\ TypeOK /\ EvidenceChain
  BY DEF Crash, IInv, vault
<1>2. run' \in RunRecords /\ run'.queue = {} /\ run'.phase = "idle"
  BY <1>1, StoppedTyped DEF Results
<1>3. Idle \in BranchRecords
  BY LimitsAssumption DEF Idle, BranchRecords, Points
<1>4. \A b \in Ids : branch'[b].pc = "idle"
  BY <1>1 DEF Idle
<1>5. branch' \in [Ids -> BranchRecords]
  BY <1>1, <1>3
<1>6. QuietBetweenRounds' /\ DistinctTasks' /\ BranchesSupported'
  BY <1>2, <1>4 DEF QuietBetweenRounds, Quiet, At, DistinctTasks, Busy, BranchesSupported, Supported
<1>7. Accounted'
  <2>1. Holding' \subseteq Holding
    BY <1>4 DEF Holding
  <2>2. QED
    BY <1>1, <2>1, CountersKept DEF IInv
<1>8. EvidenceChain'
  BY <1>1 DEF EvidenceChain, DependenciesCompleted
<1>9. TypeOK'
  BY <1>1, <1>2, <1>5 DEF TypeOK
<1>10. QED
  BY <1>6, <1>7, <1>8, <1>9 DEF IInv

\* Steps that leave everything but the clock alone.
LEMMA ClockPreserves ==
    ASSUME IInv, expired' \in BOOLEAN,
           UNCHANGED <<vault, run, branch, calls, invoked, started, runs>>
    PROVE  IInv'
<1>1. TypeOK /\ UNCHANGED <<rows, saved, verdict, source>>
  BY DEF IInv, vault
<1>2. TypeOK'
  BY <1>1 DEF TypeOK
<1>3. QuietBetweenRounds' /\ DistinctTasks'
  BY <1>1 DEF IInv, QuietBetweenRounds, Quiet, At, DistinctTasks, Busy
<1>4. Holding' = Holding
  BY DEF Holding
<1>5. Accounted'
  BY <1>1, <1>4, CountersKept DEF IInv
<1>6. QED
  BY <1>2, <1>3, <1>5, StillSupported DEF IInv

-----------------------------------------------------------------------------
LEMMA InitHolds == Init => IInv
<1> SUFFICES ASSUME Init PROVE IInv
  OBVIOUS
<1>1. \A b \in Ids : branch[b] = Idle /\ branch[b].pc = "idle"
  BY DEF Init, Idle
<1>2. run \in RunRecords /\ run.queue = {} /\ run.phase = "idle"
  BY StoppedTyped DEF Init, Results
<1>3. Idle \in BranchRecords
  BY LimitsAssumption DEF Idle, BranchRecords, Points
<1>4. TypeOK
  <2>1. rows \in [Ids -> Statuses] /\ saved \subseteq Ids
    BY DEF Init, Statuses
  <2>2. verdict \in [Ids -> Verdicts] /\ source \in [Ids -> 0 .. MaxTaskId]
    BY LimitsAssumption DEF Init, Verdicts
  <2>3. branch \in [Ids -> BranchRecords]
    BY <1>3 DEF Init
  <2>4. /\ expired \in BOOLEAN /\ calls \in Nat /\ invoked \in Nat
        /\ started \subseteq Ids /\ runs = 0
    BY DEF Init
  <2>5. 0 \in 0 .. MaxRuns
    BY LimitsAssumption
  <2>6. QED
    BY <1>2, <2>1, <2>2, <2>3, <2>4, <2>5 DEF TypeOK
<1>5. QuietBetweenRounds /\ DistinctTasks /\ BranchesSupported
  BY <1>1, <1>2 DEF QuietBetweenRounds, Quiet, At, DistinctTasks, Busy, BranchesSupported, Supported
<1>6. Accounted
  <2>1. Holding = {}
    BY <1>1 DEF Holding
  <2>2. Cardinality(Holding) = 0
    BY <2>1, FS_EmptySet
  <2>3. QED
    BY <2>2, LimitsAssumption DEF Accounted, Init
<1>7. EvidenceChain
  BY LimitsAssumption, IdsFacts DEF EvidenceChain, Init
<1>8. QED
  BY <1>4, <1>5, <1>6, <1>7 DEF IInv

LEMMA InvariantStep == IInv /\ [Next]_vars => IInv'
<1> SUFFICES ASSUME IInv, [Next]_vars PROVE IInv'
  OBVIOUS
<1>1. CASE StartRun
  BY <1>1, BeginPreserves DEF StartRun
<1>2. ASSUME NEW t \in Ids, ResumeRevision(t) PROVE IInv'
  <2>1. rows[t] # "absent" /\ Begin({t})
    BY <1>2 DEF ResumeRevision, NextRevision
  <2>2. QED
    BY <2>1, BeginPreserves
<1>3. CASE Round
  BY <1>3, RoundBoundary, DispatchPreserves DEF Round
<1>4. ASSUME NEW b \in Ids, Branch(b) PROVE IInv'
  BY <1>4, BranchPreserves
<1>5. CASE Deadline
  BY <1>5, ClockPreserves DEF Deadline
<1>6. CASE Crash
  BY <1>6, CrashPreserves
<1>7. CASE UNCHANGED vars
  <2>1. UNCHANGED <<vault, run, branch, calls, invoked, started, runs>> /\ expired' = expired
    BY <1>7 DEF vars, vault
  <2>2. expired' \in BOOLEAN
    BY <2>1 DEF IInv, TypeOK
  <2>3. QED
    BY <2>1, <2>2, ClockPreserves
<1>8. QED
  BY <1>1, <1>2, <1>3, <1>4, <1>5, <1>6, <1>7 DEF Next

\* The inductive invariant holds in every reachable state.
THEOREM Invariance == Spec => []IInv
  BY InitHolds, InvariantStep, PTL DEF Spec

\* Types: the Vault, the Command and every goroutine stay well formed.
THEOREM TypeCorrect == Spec => []TypeOK
<1>1. IInv => TypeOK
  BY DEF IInv
<1> QED
  BY <1>1, Invariance, PTL

\* Whatever branches interleave, fail or crash, the evidence in the Vault is
\* complete: completed Tasks have Deliverables, Reviews judge completed
\* Tasks, Revisions answer refusals, and dependencies come first.
THEOREM EvidenceComplete == Spec => []EvidenceChain
<1>1. IInv => EvidenceChain
  BY DEF IInv
<1> QED
  BY <1>1, Invariance, PTL

\* Any number of branches racing for the last Provider calls stay within
\* the approved number.
THEOREM WithinBudget == Spec => []BudgetNeverOvershot
<1>1. IInv => BudgetNeverOvershot
  BY HoldingFinite, LimitsAssumption DEF IInv, Accounted, TypeOK, BudgetNeverOvershot
<1> QED
  BY <1>1, Invariance, PTL

LEMMA FinalStep ==
    ASSUME IInv, [Next]_vars
    PROVE  /\ saved \subseteq saved'
           /\ \A t \in Ids :
                 /\ rows[t] = "completed" => rows'[t] = "completed"
                 /\ verdict[t] # "none" => verdict'[t] = verdict[t]
                 /\ source[t] # 0 => source'[t] = source[t]
<1>1. ASSUME NEW b \in Ids, Branch(b) PROVE VaultStep(b)
  BY <1>1, EveryBranchStep DEF BranchStep, VaultKept
<1>2. (\E b \in Ids : Branch(b)) \/ UNCHANGED vault
  BY DEF Next, Round, StartRun, ResumeRevision, Begin, RunFails, AllCompleted, NothingReady,
         NextBatch, Dispatch, RoundEnds, Deadline, Crash, vars, vault
<1>3. QED
  BY <1>1, <1>2 DEF VaultStep, vault

\* Deliverables, completions, Reviews and Revision intents are never
\* replaced or withdrawn, by any branch of any Command.
THEOREM EvidenceStays == Spec => EvidenceIsFinal
<1>1. IInv /\ [Next]_vars =>
        [/\ saved \subseteq saved'
         /\ \A t \in Ids :
               /\ rows[t] = "completed" => rows'[t] = "completed"
               /\ verdict[t] # "none" => verdict'[t] = verdict[t]
               /\ source[t] # 0 => source'[t] = source[t]]_vars
  BY FinalStep
<1> QED
  BY <1>1, Invariance, PTL DEF Spec, EvidenceIsFinal

-----------------------------------------------------------------------------
\* A is a member of F with no smaller one in F.
Minimal(A, F) == A \in F /\ \A B \in F : B \subseteq A => B = A

\* A finite set's subsets are well founded under strict inclusion.
LEMMA MinimalSubset ==
    ASSUME NEW S, IsFiniteSet(S), NEW F, F \subseteq SUBSET S, F # {}
    PROVE  \E A : Minimal(A, F)
<1>1. IsWellFoundedOn(StrictSubsetOrdering(S), SUBSET S)
  <2>1. IsWellFoundedOn(StrictSubsetOrdering(S), FiniteSubsetsOf(S))
    BY FS_StrictSubsetOrderingWellFounded
  <2>2. FiniteSubsetsOf(S) = SUBSET S
    BY FS_FiniteSubsetsOfFinite
  <2>3. QED
    BY <2>1, <2>2
<1>2. PICK A \in F : \A B \in F : ~ (<<B, A>> \in StrictSubsetOrdering(S))
  <2> DEFINE R == StrictSubsetOrdering(S)  P == SUBSET S
  <2>1. IsWellFoundedOn(R, P) /\ F \subseteq P
    BY <1>1
  <2> HIDE DEF R, P
  <2>2. \E A \in F : \A B \in F : ~ (<<B, A>> \in R)
    BY <2>1, WFMin
  <2>3. QED
    BY <2>2 DEF R
<1>3. ASSUME NEW B \in F, B \subseteq A PROVE B = A
  BY <1>2, <1>3 DEF StrictSubsetOrdering
<1>4. QED
  BY <1>3 DEF Minimal

\* The minimum principle: the numbers t are compared by what lies below them.
LEMMA LeastNumber ==
    ASSUME NEW S \in SUBSET Nat, IsFiniteSet(S), NEW T \in SUBSET S, T # {}
    PROVE  \E x \in T : \A y \in T : x <= y
<1> DEFINE Upto(t) == {k \in S : k <= t}
           F == {Upto(t) : t \in T}
<1>1. F \subseteq SUBSET S /\ F # {}
  OBVIOUS
<1>2. PICK A : Minimal(A, F)
  <2> HIDE DEF F
  <2>1. QED
    BY <1>1, MinimalSubset
<1>3. PICK x \in T : A = Upto(x)
  BY <1>2 DEF Minimal
<1>4. ASSUME NEW y \in T PROVE x <= y
  <2>1. SUFFICES ASSUME y < x PROVE FALSE
    BY <1>3
  <2>2. Upto(y) \subseteq A /\ Upto(y) \in F
    <3>1. Upto(y) \in F
      OBVIOUS
    <3>2. \A k \in S : k <= y => k <= x
      BY <2>1
    <3>3. QED
      BY <1>3, <3>1, <3>2
  <2>3. Upto(y) = A
    <3> HIDE DEF F, Upto
    <3> QED BY <1>2, <2>2 DEF Minimal
  <2>4. x \in Upto(y)
    BY <1>3, <2>3
  <2>5. QED
    BY <2>1, <2>4
<1>5. QED
  BY <1>4

\* The maximum principle, from the same order seen from above.
LEMMA GreatestNumber ==
    ASSUME NEW S \in SUBSET Nat, IsFiniteSet(S), NEW T \in SUBSET S, T # {}
    PROVE  \E x \in T : \A y \in T : y <= x
<1> DEFINE From(t) == {k \in S : t <= k}
           F == {From(t) : t \in T}
<1>1. F \subseteq SUBSET S /\ F # {}
  OBVIOUS
<1>2. PICK A : Minimal(A, F)
  <2> HIDE DEF F
  <2>1. QED
    BY <1>1, MinimalSubset
<1>3. PICK x \in T : A = From(x)
  BY <1>2 DEF Minimal
<1>4. ASSUME NEW y \in T PROVE y <= x
  <2>1. SUFFICES ASSUME x < y PROVE FALSE
    BY <1>3
  <2>2. From(y) \subseteq A /\ From(y) \in F
    <3>1. From(y) \in F
      OBVIOUS
    <3>2. \A k \in S : y <= k => x <= k
      BY <2>1
    <3>3. QED
      BY <1>3, <3>1, <3>2
  <2>3. From(y) = A
    <3> HIDE DEF F, From
    <3> QED BY <1>2, <2>2 DEF Minimal
  <2>4. x \in From(y)
    BY <1>3, <2>3
  <2>5. QED
    BY <2>1, <2>4
<1>5. QED
  BY <1>4


-----------------------------------------------------------------------------
(* Lineages as least closed sets: what lineage and approved compute.       *)

Intents == [Ids -> 0 .. MaxTaskId]

\* S holds the Tasks that its Tasks revise.
ClosedUnder(S, src) == \A u \in S : src[u] # 0 => src[u] \in S

LineageIn(t, src) == {u \in Ids : \A S \in SUBSET Ids : t \in S /\ ClosedUnder(S, src) => u \in S}

\* LineageIn(t, src) is itself closed: the least closed set with t in it.
LEMMA LineageLeast ==
    ASSUME NEW src \in Intents, NEW t \in Ids
    PROVE  /\ LineageIn(t, src) \subseteq Ids /\ t \in LineageIn(t, src)
           /\ ClosedUnder(LineageIn(t, src), src)
           /\ \A S \in SUBSET Ids : t \in S /\ ClosedUnder(S, src) => LineageIn(t, src) \subseteq S
<1>1. LineageIn(t, src) \subseteq Ids /\ t \in LineageIn(t, src)
  BY DEF LineageIn
<1>2. ASSUME NEW u \in LineageIn(t, src), src[u] # 0 PROVE src[u] \in LineageIn(t, src)
  <2>1. u \in Ids /\ src[u] \in Ids
    BY <1>1, <1>2, LimitsAssumption DEF Intents, Ids
  <2>2. ASSUME NEW S \in SUBSET Ids, t \in S, ClosedUnder(S, src) PROVE src[u] \in S
    <3>1. u \in S
      BY <2>2 DEF LineageIn
    <3>2. QED
      BY <1>2, <2>2, <3>1 DEF ClosedUnder
  <2>3. QED
    BY <2>1, <2>2 DEF LineageIn
<1>3. ClosedUnder(LineageIn(t, src), src)
  BY <1>2 DEF ClosedUnder
<1>4. \A S \in SUBSET Ids : t \in S /\ ClosedUnder(S, src) => LineageIn(t, src) \subseteq S
  BY DEF LineageIn
<1>5. QED
  BY <1>1, <1>3, <1>4

\* One step of a lineage: the Task, and the lineage of what it revises.
LEMMA LineageEquation ==
    ASSUME NEW src \in Intents, NEW t \in Ids
    PROVE  LineageIn(t, src) = {t} \cup IF src[t] = 0 THEN {} ELSE LineageIn(src[t], src)
<1>1. /\ LineageIn(t, src) \subseteq Ids /\ t \in LineageIn(t, src)
      /\ ClosedUnder(LineageIn(t, src), src)
  BY LineageLeast
<1>2. CASE src[t] = 0
  <2>1. ClosedUnder({t}, src)
    BY <1>2 DEF ClosedUnder
  <2>2. LineageIn(t, src) \subseteq {t}
    BY <2>1, LineageLeast
  <2>3. QED
    BY <1>1, <1>2, <2>2
<1>3. CASE src[t] # 0
  <2> DEFINE s == src[t]  L == LineageIn(s, src)  M == LineageIn(t, src)
  <2>1. s \in Ids
    BY <1>3, LimitsAssumption DEF Intents, Ids
  <2>2. /\ L \subseteq Ids /\ s \in L /\ ClosedUnder(L, src)
        /\ \A S \in SUBSET Ids : s \in S /\ ClosedUnder(S, src) => L \subseteq S
    BY <2>1, LineageLeast
  <2>3. ClosedUnder({t} \cup L, src)
    BY <2>2 DEF ClosedUnder
  <2>4. M \subseteq {t} \cup L
    BY <2>2, <2>3, LineageLeast
  <2>5. s \in M
    BY <1>1, <1>3 DEF ClosedUnder
  <2>6. L \subseteq M
    BY <1>1, <2>2, <2>5
  <2>7. QED
    BY <1>1, <1>3, <2>4, <2>6
<1>4. QED
  BY <1>2, <1>3

\* Intents that are only added take nothing out of a lineage.
LEMMA LineageGrows ==
    ASSUME NEW old \in Intents, NEW new \in Intents, NEW t \in Ids,
           \A u \in Ids : old[u] # 0 => new[u] = old[u]
    PROVE  LineageIn(t, old) \subseteq LineageIn(t, new)
<1>1. /\ LineageIn(t, new) \subseteq Ids /\ t \in LineageIn(t, new)
      /\ ClosedUnder(LineageIn(t, new), new)
  BY LineageLeast
<1>2. ClosedUnder(LineageIn(t, new), old)
  BY <1>1 DEF ClosedUnder
<1>3. QED
  BY <1>1, <1>2, LineageLeast

\* An intent for a Task that nothing revises changes the lineage of its own
\* Task only.
LEMMA LineageUntouched ==
    ASSUME NEW old \in Intents, NEW new \in Intents, NEW n \in Ids, old[n] = 0,
           \A v \in Ids : old[v] # n /\ (v # n => new[v] = old[v]), NEW u \in Ids, u # n
    PROVE  LineageIn(u, new) = LineageIn(u, old)
<1> DEFINE L == LineageIn(u, old)
<1>1. \A v \in Ids : v # n => new[v] = old[v]
  OBVIOUS
<1>2. L \subseteq Ids /\ u \in L /\ ClosedUnder(L, old)
  BY LineageLeast
<1>3. ClosedUnder(Ids \ {n}, old)
  BY LimitsAssumption DEF ClosedUnder, Intents, Ids
<1>4. n \notin L
  <2>1. L \subseteq Ids \ {n}
    BY <1>3, LineageLeast
  <2>2. QED
    BY <2>1
<1>5. ClosedUnder(L, new)
  BY <1>1, <1>2, <1>4 DEF ClosedUnder
<1>6. LineageIn(u, new) \subseteq L
  <2> HIDE DEF L
  <2>1. QED
    BY <1>2, <1>5, LineageLeast
<1>7. L \subseteq LineageIn(u, new)
  <2>1. \A v \in Ids : old[v] # 0 => new[v] = old[v]
    BY <1>1
  <2>2. QED
    BY <2>1, LineageGrows
<1>8. QED
  BY <1>6, <1>7

\* A Revision Task's lineage is its source's and itself.
LEMMA LineageExtended ==
    ASSUME NEW old \in Intents, NEW t \in Ids, NEW n \in Ids, t # n, old[n] = 0,
           \A v \in Ids : old[v] # n, NEW new \in Intents, new = [old EXCEPT ![n] = t]
    PROVE  LineageIn(n, new) = {n} \cup LineageIn(t, old)
<1>1. new[n] = t /\ t # 0
  BY IdsFacts DEF Intents
<1>2. LineageIn(n, new) = {n} \cup LineageIn(t, new)
  BY <1>1, LineageEquation
<1>3. LineageIn(t, new) = LineageIn(t, old)
  <2>1. \A v \in Ids : old[v] # n /\ (v # n => new[v] = old[v])
    BY DEF Intents
  <2>2. QED
    BY <2>1, LineageUntouched
<1>4. QED
  BY <1>2, <1>3

\* How often t was revised so far.
Revised(t, src) == Cardinality(LineageIn(t, src)) - 1

LEMMA RevisedFacts ==
    ASSUME NEW src \in Intents, NEW t \in Ids
    PROVE  /\ Revised(t, src) \in Nat
           /\ Cardinality(LineageIn(t, src)) = Revised(t, src) + 1
           /\ src[t] = 0 => Revised(t, src) = 0
           /\ src[t] \notin {0, t} => Revised(t, src) # 0
<1> DEFINE L == LineageIn(t, src)
<1>1. L \subseteq Ids /\ t \in L
  BY LineageLeast
<1>2. IsFiniteSet(L)
  BY <1>1, IdsFacts, FS_Subset
<1>3. Cardinality(L) \in Nat /\ Cardinality(L) # 0
  BY <1>1, <1>2, FS_CardinalityType, FS_EmptySet
<1>4. src[t] = 0 => L = {t}
  BY LineageEquation
<1>5. src[t] \notin {0, t} => Cardinality(L) # 1
  <2>1. ASSUME src[t] \notin {0, t}, Cardinality(L) = 1 PROVE FALSE
    <3>1. \E x : L = {x}
      BY <1>2, <2>1, FS_Singleton
    <3>2. src[t] \in L
      BY <1>1, <2>1, LineageLeast DEF ClosedUnder
    <3>3. QED
      BY <2>1, <3>1, <3>2, <1>1
  <2>2. QED
    BY <2>1
<1>6. src[t] = 0 => Cardinality(L) = 1
  BY <1>4, FS_Singleton
<1>7. QED
  BY <1>3, <1>5, <1>6 DEF Revised

LEMMA SourceTyped ==
    ASSUME TypeOK, EvidenceChain
    PROVE  /\ source \in Intents
           /\ \A t \in Ids : source[t] # 0 => /\ source[t] \in Ids /\ source[t] < t
                                              /\ verdict[source[t]] = "request_changes"
BY LimitsAssumption, IdsFacts DEF TypeOK, EvidenceChain, Intents, Ids

\* What the recursive definition computes is the least closed set.
LEMMA LineageEqn ==
    ASSUME TypeOK, EvidenceChain
    PROVE  lineage = [t \in Ids |-> {t} \cup IF source[t] = 0 THEN {} ELSE lineage[source[t]]]
<1> DEFINE f == [t \in Ids |-> LineageIn(t, source)]
<1>1. ASSUME NEW t \in Ids
      PROVE  f[t] = {t} \cup IF source[t] = 0 THEN {} ELSE f[source[t]]
  <2>1. LineageIn(t, source) = {t} \cup IF source[t] = 0 THEN {} ELSE LineageIn(source[t], source)
    BY SourceTyped, LineageEquation
  <2>2. source[t] # 0 => f[source[t]] = LineageIn(source[t], source)
    BY SourceTyped
  <2>3. f[t] = LineageIn(t, source)
    OBVIOUS
  <2>4. QED
    BY <2>1, <2>2, <2>3
<1>2. f = [t \in Ids |-> f[t]]
  OBVIOUS
<1> HIDE DEF f
<1>3. f = [t \in Ids |-> {t} \cup IF source[t] = 0 THEN {} ELSE f[source[t]]]
  BY <1>1, <1>2
<1>4. QED
  BY <1>3 DEF lineage

\* The recursive function lineage computes the least closed set.
LEMMA LineageIsLeast ==
    ASSUME TypeOK, EvidenceChain
    PROVE  \A t \in Ids : lineage[t] = LineageIn(t, source)
<1> DEFINE Wrong == {t \in Ids : lineage[t] # LineageIn(t, source)}
<1>1. SUFFICES ASSUME Wrong # {} PROVE FALSE
  OBVIOUS
<1>2. PICK x \in Wrong : \A y \in Wrong : x <= y
  <2>1. Wrong \subseteq Ids
    OBVIOUS
  <2> HIDE DEF Wrong
  <2>2. QED
    BY <1>1, <2>1, IdsFacts, LeastNumber
<1>3. lineage[x] = {x} \cup IF source[x] = 0 THEN {} ELSE lineage[source[x]]
  BY LineageEqn
<1>4. LineageIn(x, source) = {x} \cup IF source[x] = 0 THEN {} ELSE LineageIn(source[x], source)
  BY SourceTyped, LineageEquation
<1>5. source[x] # 0 => lineage[source[x]] = LineageIn(source[x], source)
  <2>1. ASSUME source[x] # 0 PROVE source[x] \in Ids /\ ~ (x <= source[x])
    <3>1. x \in Nat /\ source[x] \in Ids /\ source[x] \in Nat /\ source[x] < x
      <4>1. x \in Ids
        OBVIOUS
      <4>2. QED
        BY <2>1, <4>1, SourceTyped, IdsFacts
    <3>2. QED
      BY <3>1
  <2>2. QED
    BY <1>2, <2>1
<1>6. QED
  BY <1>2, <1>3, <1>4, <1>5

\* The Tasks that t leads to, Revision after Revision.
NextRevised(t) == CHOOSE r \in Ids : source[r] = t

ClosedForward(S) == \A u \in S : ExistingForSource(u) => NextRevised(u) \in S

Onward(t) == {u \in Ids : \A S \in SUBSET Ids : t \in S /\ ClosedForward(S) => u \in S}

LEMMA OnwardEquation ==
    ASSUME NEW t \in Ids
    PROVE  Onward(t) = {t} \cup IF ExistingForSource(t) THEN Onward(NextRevised(t)) ELSE {}
<1>1. \A u \in Ids : ExistingForSource(u) => NextRevised(u) \in Ids
  BY DEF ExistingForSource, NextRevised
<1>2. ASSUME NEW v \in Ids
      PROVE  Onward(v) \subseteq Ids /\ v \in Onward(v) /\ ClosedForward(Onward(v))
  <2>1. Onward(v) \subseteq Ids /\ v \in Onward(v)
    BY DEF Onward
  <2>2. ASSUME NEW u \in Onward(v), ExistingForSource(u) PROVE NextRevised(u) \in Onward(v)
    <3>1. NextRevised(u) \in Ids
      BY <1>1, <2>1, <2>2
    <3>2. ASSUME NEW S \in SUBSET Ids, v \in S, ClosedForward(S) PROVE NextRevised(u) \in S
      <4>1. u \in S
        BY <3>2 DEF Onward
      <4>2. QED
        BY <2>2, <3>2, <4>1 DEF ClosedForward
    <3>3. QED
      BY <3>1, <3>2 DEF Onward
  <2>3. QED
    BY <2>1, <2>2 DEF ClosedForward
<1>3. CASE ~ExistingForSource(t)
  <2>1. ClosedForward({t})
    BY <1>3 DEF ClosedForward
  <2>2. Onward(t) \subseteq {t}
    BY <2>1 DEF Onward
  <2>3. QED
    BY <1>2, <1>3, <2>2
<1>4. CASE ExistingForSource(t)
  <2> DEFINE s == NextRevised(t)
  <2>1. s \in Ids
    BY <1>1, <1>4
  <2>2. /\ Onward(s) \subseteq Ids /\ s \in Onward(s) /\ ClosedForward(Onward(s))
        /\ Onward(t) \subseteq Ids /\ t \in Onward(t) /\ ClosedForward(Onward(t))
    BY <1>2, <2>1
  <2>3. ClosedForward({t} \cup Onward(s))
    BY <2>2 DEF ClosedForward
  <2>4. Onward(t) \subseteq {t} \cup Onward(s)
    <3> HIDE DEF s
    <3>1. {t} \cup Onward(s) \in SUBSET Ids
      BY <2>2
    <3>2. QED
      BY <2>3, <3>1 DEF Onward
  <2>5. s \in Onward(t)
    BY <1>4, <2>2 DEF ClosedForward
  <2>6. Onward(s) \subseteq Onward(t)
    <3>1. ASSUME NEW u \in Onward(s) PROVE u \in Onward(t)
      <4> HIDE DEF s
      <4>1. u \in Ids
        BY <2>2
      <4>2. ASSUME NEW S \in SUBSET Ids, t \in S, ClosedForward(S) PROVE u \in S
        <5>1. s \in S
          BY <1>4, <4>2 DEF ClosedForward, s
        <5>2. QED
          BY <4>2, <5>1 DEF Onward
      <4>3. QED
        BY <4>1, <4>2 DEF Onward
    <3>2. QED
      BY <3>1
  <2>7. QED
    BY <1>4, <2>2, <2>4, <2>6
<1>5. QED
  BY <1>3, <1>4

LEMMA ApprovedEqn ==
    approved = [t \in Ids |-> IF ExistingForSource(t)
                              THEN approved[CHOOSE r \in Ids : source[r] = t]
                              ELSE verdict[t] = "approve"]
<1> DEFINE Last(t) == \E u \in Onward(t) : ~ExistingForSource(u) /\ verdict[u] = "approve"
           f == [t \in Ids |-> Last(t)]
<1>1. ASSUME NEW t \in Ids
      PROVE  Last(t) = IF ExistingForSource(t) THEN Last(NextRevised(t)) ELSE verdict[t] = "approve"
  BY OnwardEquation
<1>2. \A t \in Ids : ExistingForSource(t) => NextRevised(t) \in Ids
  BY DEF ExistingForSource, NextRevised
<1>3. ASSUME NEW t \in Ids
      PROVE  f[t] = IF ExistingForSource(t) THEN f[NextRevised(t)] ELSE verdict[t] = "approve"
  <2>1. f[t] = Last(t) /\ (ExistingForSource(t) => f[NextRevised(t)] = Last(NextRevised(t)))
    <3> HIDE DEF Last
    <3>1. QED BY <1>2
  <2>2. QED
    <3> HIDE DEF Last, f
    <3>1. QED BY <1>1, <2>1
<1>4. f = [t \in Ids |-> f[t]]
  <2> HIDE DEF Last
  <2>1. QED OBVIOUS
<1> HIDE DEF f
<1>5. f = [t \in Ids |-> IF ExistingForSource(t) THEN f[NextRevised(t)] ELSE verdict[t] = "approve"]
  BY <1>3, <1>4, Zenon
<1>6. f = [t \in Ids |-> IF ExistingForSource(t)
                         THEN f[CHOOSE r \in Ids : source[r] = t]
                         ELSE verdict[t] = "approve"]
  BY <1>5 DEF NextRevised
<1>7. QED
  BY <1>6, Zenon DEF approved

\* An intent is the only one for its source.
OneRevision == \A r, s \in Ids : source[r] = source[s] /\ source[r] # 0 => r = s

\* t, or a later Revision of it, was approved.
Approved(t) == \E u \in Ids : t \in LineageIn(u, source) /\ verdict[u] = "approve"

\* What approved computes going forward, some Task whose lineage holds t says.
LEMMA ApprovedIsApproved ==
    ASSUME TypeOK, EvidenceChain, OneRevision
    PROVE  \A t \in Ids : Approved(t) => approved[t]
<1> DEFINE Wrong == {t \in Ids : Approved(t) /\ ~approved[t]}
<1>1. SUFFICES ASSUME Wrong # {} PROVE FALSE
  OBVIOUS
<1>2. PICK x \in Wrong : \A y \in Wrong : y <= x
  <2>1. Wrong \subseteq Ids
    OBVIOUS
  <2> HIDE DEF Wrong
  <2>2. QED
    BY <1>1, <2>1, IdsFacts, GreatestNumber
<1>3. x \in Ids /\ x \in Nat /\ Approved(x) /\ ~approved[x]
  BY IdsFacts
<1>4. PICK u \in Ids : x \in LineageIn(u, source) /\ verdict[u] = "approve"
  BY <1>3 DEF Approved
<1>5. CASE ~ExistingForSource(x)
  <2>1. ClosedUnder(Ids \ {x}, source)
    BY <1>5, SourceTyped DEF ClosedUnder, ExistingForSource
  <2>2. ASSUME u # x PROVE FALSE
    <3>1. LineageIn(u, source) \subseteq Ids \ {x}
      BY <2>1, <2>2, SourceTyped, LineageLeast
    <3>2. QED
      BY <1>4, <3>1
  <2>3. approved[x] = (verdict[x] = "approve")
    BY <1>3, <1>5, ApprovedEqn
  <2>4. QED
    BY <1>3, <1>4, <2>2, <2>3
<1>6. CASE ExistingForSource(x)
  <2> DEFINE r == CHOOSE r \in Ids : source[r] = x
  <2>1. r \in Ids /\ source[r] = x
    BY <1>6 DEF ExistingForSource
  <2> HIDE DEF r
  <2>2. x # 0 /\ x < r /\ verdict[x] = "request_changes" /\ r \in Nat
    BY <1>3, <2>1, SourceTyped, IdsFacts
  <2>3. u # x
    BY <1>4, <2>2
  <2>4. r \in LineageIn(u, source)
    <3> DEFINE L == LineageIn(u, source)
    <3>1. SUFFICES ASSUME r \notin L PROVE FALSE
      OBVIOUS
    <3>2. L \subseteq Ids /\ u \in L /\ ClosedUnder(L, source)
      BY SourceTyped, LineageLeast
    <3>3. \A v \in L \ {x} : source[v] # x
      BY <2>1, <2>2, <3>1, <3>2 DEF OneRevision
    <3>4. ClosedUnder(L \ {x}, source)
      BY <3>2, <3>3 DEF ClosedUnder
    <3>5. L \subseteq L \ {x}
      <4>1. L \ {x} \in SUBSET Ids /\ u \in L \ {x}
        BY <2>3, <3>2
      <4>2. QED
        BY <3>4, <4>1, SourceTyped, LineageLeast
    <3>6. QED
      BY <1>4, <3>5
  <2>5. Approved(r)
    BY <1>4, <2>4 DEF Approved
  <2>6. r \notin Wrong
    <3>1. ~ (r <= x)
      BY <1>3, <2>2
    <3>2. QED
      BY <1>2, <3>1
  <2>7. approved[r]
    BY <2>1, <2>5, <2>6
  <2>8. approved[x] = approved[r]
    BY <1>3, <1>6, ApprovedEqn DEF r
  <2>9. QED
    BY <1>3, <2>7, <2>8
<1>7. QED
  BY <1>5, <1>6

-----------------------------------------------------------------------------
(* What the Commands so far have left, and what the branches make of it.   *)

Held(t) == \E b \in Ids : Busy(b) /\ branch[b].task = t

\* The Revisions a lineage may have had when the current Command began.
Before == IF runs = 0 THEN 0 ELSE MaxRevisions * (runs - 1)

\* A Command runs, and none of its branches has failed.
Clean == run.phase # "idle" /\ run.err = "none"

PlanKept == \A t \in 1 .. Planned : rows[t] # "absent"

Untouched ==
    runs = 0 => \A t \in Ids : source[t] = 0 /\ rows[t] \in {"absent", "unstarted"}

PhaseKept ==
    /\ run.phase = "plan" => run.err = "none"
    /\ run.phase # "idle" => run.result = "none"

\* A branch has made revs of the Revisions of its Task, no more than the
\* Command allows, and works on one lineage.
OwnLineage(br) ==
    /\ br.revs <= MaxRevisions /\ Revised(br.task, source) <= Before + br.revs
    /\ br.pc \in {"intent", "create"} => br.next > Planned /\ br.revs < MaxRevisions
    /\ br.pc = "create" => source[br.next] = br.task

BranchesOwn ==
    \A b \in Ids : Busy(b) => b \in LineageIn(branch[b].task, source) /\ OwnLineage(branch[b])

QueueOwn == \A q \in run.queue : rows[q] = "unstarted" /\ Revised(q, source) <= Before

AllBounded == \A t \in Ids : Revised(t, source) <= MaxRevisions * runs

\* While nothing has failed, a Revision Task of this Command that waits is
\* in its branch's hands.
Waiting ==
    Clean => \A t \in Ids : rows[t] = "unstarted" /\ ~Held(t) => Revised(t, source) <= Before

\* While nothing of the first Command has failed, whatever no branch holds is
\* untouched, approved or revised, and every intent has its Task or its branch.
Settled ==
    Clean /\ runs = 1 =>
        \A t \in Ids :
            /\ rows[t] = "absent" /\ source[t] # 0 =>
                  \E b \in Ids : At(b, "create") /\ branch[b].next = t
            /\ ~Held(t) => /\ rows[t] \in {"absent", "unstarted", "completed"}
                           /\ rows[t] = "completed" => verdict[t] = "approve" \/ ExistingForSource(t)

Grounded(t) == \A d \in DepsOf(t) : Approved(d)

\* What the first Command is about to execute depends on approved lineages.
AllGrounded ==
    runs = 1 => /\ \A q \in run.queue : Grounded(q)
                /\ \A b \in Ids : branch[b].pc \in {"attempt", "execute"} => Grounded(branch[b].task)

Reported == runs = 1 /\ run.result = "completed" => \A t \in 1 .. Planned : Approved(t)

LInv ==
    /\ IInv
    /\ PlanKept /\ OneRevision /\ Untouched /\ PhaseKept
    /\ BranchesOwn /\ QueueOwn /\ AllBounded
    /\ Waiting /\ Settled /\ AllGrounded /\ Reported

LEMMA BeforeFacts ==
    ASSUME TypeOK
    PROVE  /\ Before \in Nat /\ MaxRevisions * runs \in Nat
           /\ runs > 0 => Before + MaxRevisions = MaxRevisions * runs
           /\ MaxRevisions * (runs + 1 - 1) = MaxRevisions * runs
           /\ Before <= MaxRevisions * runs
<1>1. runs \in Nat /\ MaxRevisions \in Nat \ {0}
  BY LimitsAssumption DEF TypeOK
<1>2. CASE runs = 0
  BY <1>1, <1>2 DEF Before
<1>3. CASE runs # 0
  <2>1. Before = MaxRevisions * (runs - 1) /\ runs - 1 \in Nat
    BY <1>1, <1>3 DEF Before
  <2>2. MaxRevisions * (runs - 1) + MaxRevisions = MaxRevisions * runs
    BY <1>1
  <2>3. MaxRevisions * (runs - 1) \in Nat /\ MaxRevisions * runs \in Nat /\ runs + 1 - 1 = runs
    BY <1>1, <2>1
  <2>4. QED
    BY <1>1, <2>1, <2>2, <2>3
<1>4. QED
  BY <1>2, <1>3

-----------------------------------------------------------------------------
(* The steps of a branch, by what they do to lineages.                     *)

Fails(b) ==
    /\ branch'[b].pc = "idle" /\ run'.err # "none" /\ UNCHANGED source

Goes(b) ==
    /\ branch'[b].pc # "idle" /\ branch'[b].pc # "create"
    /\ branch'[b].task = branch[b].task /\ branch'[b].revs = branch[b].revs
    /\ branch'[b].pc \in {"attempt", "execute"} => branch[b].pc = "attempt"
    /\ branch'[b].pc = "intent" => branch'[b].next > Planned /\ branch[b].revs < MaxRevisions
    /\ branch[b].pc # "create"
    /\ UNCHANGED <<source, run>>

LEMMA ReturnErr ==
    ASSUME TypeOK, NEW b \in Ids, NEW err \in Stages, Return(b, err)
    PROVE  run'.err # "none"
<1>1. run' = [phase |-> run.phase, queue |-> run.queue, left |-> run.left,
              slots |-> run.slots + 1, err |-> IF run.err = "none" THEN err ELSE run.err,
              result |-> run.result]
  BY DEF Return, TypeOK, RunRecords
<1>2. QED
  BY <1>1 DEF Stages

\* A branch that fails goes idle, and its error ends the dispatch.
LEMMA FailsFacts ==
    ASSUME IInv, NEW b \in Ids,
           OverBudget(b) \/ ReviewRefused(b) \/ StopRevising(b) \/ RevisionBlocked(b)
             \/ IntentExists(b) \/ StartRefused(b) \/ WorkerFails(b) \/ SaveFails(b)
             \/ CompleteFails(b) \/ RevisionFails(b) \/ ReviewFails(b)
    PROVE  Fails(b)
<1>1. TypeOK
  BY DEF IInv
<1>2. UNCHANGED source
  BY DEF OverBudget, ReviewRefused, StopRevising, RevisionBlocked, IntentExists, StartRefused,
         WorkerFails, SaveFails, CompleteFails, RevisionFails, ReviewFails, vault
<1>3. GivesUp(b) \subseteq Stages
  BY DEF GivesUp, Stages
<1>4. PICK err \in Stages : Return(b, err)
  BY <1>3 DEF OverBudget, ReviewRefused, StopRevising, RevisionBlocked, IntentExists, StartRefused,
         WorkerFails, SaveFails, CompleteFails, RevisionFails, ReviewFails, Stages
<1>5. branch'[b] = Idle
  BY <1>1, <1>4, ReturnFacts
<1>6. QED
  BY <1>1, <1>2, <1>4, <1>5, ReturnErr DEF Fails, Idle

LEMMA GotoRevs ==
    ASSUME TypeOK, NEW b \in Ids, NEW pc \in Points, Goto(b, pc)
    PROVE  branch'[b].revs = branch[b].revs
<1>1. branch \in [Ids -> BranchRecords] /\ branch[b] \in BranchRecords
  BY DEF TypeOK
<1>2. branch'[b] = [branch[b] EXCEPT !.pc = pc]
  BY <1>1 DEF Goto
<1>3. QED
  BY <1>1, <1>2 DEF BranchRecords

\* A branch that goes on keeps its Task or takes the Revision it created.
LEMMA GoesFacts ==
    ASSUME IInv, PlanKept, NEW b \in Ids,
           Reserve(b) \/ StartTask(b) \/ WorkerReturns(b) \/ SaveDeliverable(b) \/ CompleteTask(b)
             \/ ReviewStarts(b) \/ RequestChanges(b) \/ PlanRevision(b)
    PROVE  Goes(b)
<1>1. TypeOK /\ UNCHANGED <<source, run>>
  BY DEF IInv, Reserve, StartTask, WorkerReturns, SaveDeliverable, CompleteTask, ReviewStarts,
         RequestChanges, PlanRevision, vault
<1>2. ASSUME NEW pc \in Points \ {"idle", "create", "intent", "attempt"}, Goto(b, pc),
             branch[b].pc # "create", pc = "execute" => branch[b].pc = "attempt"
      PROVE  Goes(b)
  BY <1>1, <1>2, GotoFacts, GotoRevs DEF Goes
<1>3. CASE PlanRevision(b)
  <2>1. PICK m \in Ids : /\ IsNextTaskID(m)
                         /\ branch' = [branch EXCEPT ![b] =
                                         [pc |-> "intent", task |-> branch[b].task,
                                          revs |-> branch[b].revs, next |-> m]]
    BY <1>3 DEF PlanRevision
  <2>2. /\ branch'[b].pc = "intent" /\ branch'[b].task = branch[b].task
        /\ branch'[b].revs = branch[b].revs /\ branch'[b].next = m
    BY <1>1, <2>1 DEF TypeOK
  <2>3. Planned \in Rows
    BY LimitsAssumption DEF PlanKept, Rows, Ids
  <2>4. m > Planned
    BY <2>1, <2>3, IdsFacts, LimitsAssumption DEF IsNextTaskID
  <2>5. branch[b].revs < MaxRevisions /\ branch[b].pc = "revise"
    BY <1>3 DEF PlanRevision, MayRevise, At
  <2>6. QED
    BY <1>1, <2>2, <2>4, <2>5 DEF Goes
<1>4. CASE Reserve(b)
  BY <1>2, <1>4 DEF Reserve, At, Points
<1>5. CASE StartTask(b) \/ WorkerReturns(b) \/ SaveDeliverable(b) \/ CompleteTask(b)
  BY <1>2, <1>5 DEF StartTask, WorkerReturns, SaveDeliverable, CompleteTask, At, Points
<1>6. CASE ReviewStarts(b) \/ RequestChanges(b)
  BY <1>2, <1>6 DEF ReviewStarts, RequestChanges, At, Points
<1>7. QED
  BY <1>3, <1>4, <1>5, <1>6

\* Every step of a branch fails, goes on or ends approved.
LEMMA BranchKinds ==
    ASSUME IInv, PlanKept, NEW b \in Ids, Branch(b)
    PROVE  Fails(b) \/ Goes(b) \/ Approve(b) \/ SaveIntent(b) \/ CreateTask(b)
BY FailsFacts, GoesFacts DEF Branch

LEMMA BranchFrame ==
    ASSUME IInv, NEW b \in Ids, Branch(b)
    PROVE  /\ IInv' /\ VaultStep(b) /\ TypeOK /\ EvidenceChain /\ TypeOK' /\ EvidenceChain'
           /\ branch[b].task \in Ids /\ rows[branch[b].task] # "absent"
           /\ run.phase = "dispatch" /\ runs > 0
           /\ runs' = runs /\ Before' = Before
           /\ run'.phase = run.phase /\ run'.queue = run.queue /\ run'.result = run.result
           /\ \A a \in Ids : a # b => branch'[a] = branch[a]
<1>1. Busy(b) /\ BranchStep(b) /\ IInv'
  BY EveryBranchStep, BranchPreserves
<1>2. /\ branch[b].task \in Ids /\ rows[branch[b].task] # "absent" /\ run.phase = "dispatch"
      /\ TypeOK /\ EvidenceChain
  BY <1>1, OwnFacts
<1>3. runs > 0
  BY <1>2 DEF TypeOK
<1>4. runs' = runs
  BY DEF Branch, Reserve, OverBudget, StartTask, StartRefused, WorkerReturns, WorkerFails,
         SaveDeliverable, SaveFails, CompleteTask, CompleteFails, ReviewStarts, ReviewRefused,
         ReviewFails, Approve, RequestChanges, StopRevising, PlanRevision, RevisionBlocked,
         SaveIntent, IntentExists, CreateTask, RevisionFails
<1>5. Before' = Before
  BY <1>4 DEF Before
<1>6. run'.result = run.result
  <2>1. run' = run \/ \E err : Return(b, err)
    BY DEF Branch, Reserve, OverBudget, StartTask, StartRefused, WorkerReturns, WorkerFails,
         SaveDeliverable, SaveFails, CompleteTask, CompleteFails, ReviewStarts, ReviewRefused,
         ReviewFails, Approve, RequestChanges, StopRevising, PlanRevision, RevisionBlocked,
         SaveIntent, IntentExists, CreateTask, RevisionFails
  <2>2. QED
    BY <1>2, <2>1 DEF Return, TypeOK, RunRecords
<1>7. QED
  BY <1>1, <1>2, <1>3, <1>4, <1>5, <1>6 DEF BranchStep, VaultKept, Moves, IInv

\* Of the rows a branch does not hold, it moves one: the one it creates.
LEMMA OtherRows ==
    ASSUME IInv, NEW b \in Ids, Branch(b), NEW t \in Ids, t # branch[b].task
    PROVE  \/ rows'[t] = rows[t]
           \/ /\ At(b, "create") /\ t = branch[b].next
              /\ rows[t] = "absent" /\ rows'[t] = "unstarted"
              /\ CreateTask(b) \/ Fails(b)
<1>1. rows \in [Ids -> Statuses] /\ branch[b].task \in Ids /\ TypeOK
  BY BranchFrame DEF TypeOK
<1>2. CASE \E s : rows' = [rows EXCEPT ![branch[b].task] = s]
  BY <1>1, <1>2
<1>3. CASE rows' = rows
  BY <1>3
<1>4. CASE CreateTask(b)
  BY <1>1, <1>4 DEF CreateTask
<1>5. CASE RevisionFails(b)
  <2>1. Fails(b)
    BY <1>5, FailsFacts
  <2>2. QED
    BY <1>1, <1>5, <2>1 DEF RevisionFails
<1>6. CASE StartRefused(b) \/ WorkerFails(b) \/ SaveFails(b) \/ CompleteFails(b)
  BY <1>2, <1>3, <1>6 DEF StartRefused, WorkerFails, SaveFails, CompleteFails, AfterFailure
<1>7. CASE StartTask(b) \/ CompleteTask(b)
  BY <1>2, <1>7 DEF StartTask, CompleteTask
<1>8. QED
  BY <1>3, <1>4, <1>5, <1>6, <1>7
     DEF Branch, Reserve, OverBudget, WorkerReturns, SaveDeliverable, ReviewStarts, ReviewRefused,
         ReviewFails, Approve, RequestChanges, StopRevising, PlanRevision, RevisionBlocked,
         SaveIntent, IntentExists, vault

\* The intent that a branch saves names a Task that does not exist yet.
LEMMA IntentFacts ==
    ASSUME LInv, NEW b \in Ids, SaveIntent(b)
    PROVE  LET t == branch[b].task  n == branch[b].next IN
           /\ t \in Ids /\ n \in Ids /\ t # n /\ t # 0 /\ source[n] = 0 /\ rows[n] = "absent"
           /\ ~ExistingForSource(t) /\ ~ExistingForSource(n)
           /\ source \in Intents /\ source' = [source EXCEPT ![n] = t] /\ UNCHANGED <<rows, verdict>>
           /\ \A u \in Ids : u # n => LineageIn(u, source') = LineageIn(u, source)
           /\ LineageIn(n, source') = {n} \cup LineageIn(t, source)
           /\ Revised(n, source') <= Revised(t, source) + 1
           /\ branch[b].revs < MaxRevisions
<1> DEFINE t == branch[b].task  n == branch[b].next
<1>1. IInv /\ PlanKept /\ BranchesOwn /\ TypeOK /\ EvidenceChain /\ At(b, "intent") /\ Busy(b)
  BY DEF LInv, IInv, SaveIntent, At, Busy
<1>2. t \in Ids /\ n \in Ids /\ t < n
  BY <1>1, OwnFacts DEF At
<1>3. /\ source[n] = 0 /\ ~ExistingForSource(t) /\ source' = [source EXCEPT ![n] = t]
      /\ UNCHANGED <<rows, verdict>>
  BY DEF SaveIntent
<1>4. n > Planned /\ branch[b].revs < MaxRevisions
  BY <1>1 DEF BranchesOwn, OwnLineage, At
<1>5. rows[n] = "absent"
  BY <1>1, <1>2, <1>3, <1>4 DEF EvidenceChain
<1>6. source \in Intents /\ \A u \in Ids : source[u] # n
  <2>1. ASSUME NEW u \in Ids, source[u] = n PROVE FALSE
    <3>1. verdict[n] = "request_changes"
      BY <1>1, <1>2, <2>1, IdsFacts DEF EvidenceChain
    <3>2. QED
      BY <1>1, <1>2, <1>5, <3>1 DEF EvidenceChain
  <2>2. QED
    BY <1>1, <2>1, SourceTyped
<1>7. t # n /\ t # 0
  BY <1>2, IdsFacts
<1>8. /\ source' \in Intents
      /\ \A u \in Ids : u # n => LineageIn(u, source') = LineageIn(u, source)
      /\ LineageIn(n, source') = {n} \cup LineageIn(t, source)
  <2>1. PICK x \in Ids, m \in Ids : x = t /\ m = n
    BY <1>2
  <2> HIDE DEF t, n
  <2>2. /\ source \in Intents /\ x # m /\ source[m] = 0 /\ \A u \in Ids : source[u] # m
        /\ source' = [source EXCEPT ![m] = x]
    BY <1>3, <1>6, <1>7, <2>1
  <2>3. source' \in Intents
    BY <2>2, IdsFacts DEF Intents
  <2>4. ASSUME NEW u \in Ids, u # m PROVE LineageIn(u, source') = LineageIn(u, source)
    <3>1. \A v \in Ids : source[v] # m /\ (v # m => source'[v] = source[v])
      BY <2>2 DEF Intents
    <3>2. QED
      BY <2>2, <2>3, <2>4, <3>1, LineageUntouched
  <2>5. LineageIn(m, source') = {m} \cup LineageIn(x, source)
    BY <2>2, <2>3, LineageExtended
  <2>6. QED
    BY <2>1, <2>3, <2>4, <2>5
<1>9. Revised(n, source') <= Revised(t, source) + 1
  <2> DEFINE L == LineageIn(t, source)
  <2>1. L \subseteq Ids
    BY <1>2, <1>6, LineageLeast
  <2>2. IsFiniteSet(L) /\ Cardinality(L) \in Nat
    BY <2>1, IdsFacts, FS_Subset, FS_CardinalityType
  <2>3. Cardinality(L \cup {n}) = Cardinality(L) \/ Cardinality(L \cup {n}) = Cardinality(L) + 1
    BY <2>2, FS_AddElement
  <2>4. LineageIn(n, source') = L \cup {n}
    BY <1>8
  <2>5. QED
    BY <2>2, <2>3, <2>4 DEF Revised
<1>10. ~ExistingForSource(n)
  BY <1>6 DEF ExistingForSource
<1>11. QED
  BY <1>2, <1>3, <1>4, <1>5, <1>6, <1>7, <1>8, <1>9, <1>10

\* What a step of a branch leaves of every lineage.
LEMMA LineageStep ==
    ASSUME LInv, NEW b \in Ids, Branch(b)
    PROVE  /\ source \in Intents /\ source' \in Intents
           /\ \A u \in Ids : LineageIn(u, source) \subseteq LineageIn(u, source')
           /\ \A u \in Ids : rows[u] # "absent" =>
                 /\ LineageIn(u, source') = LineageIn(u, source)
                 /\ Revised(u, source') = Revised(u, source)
           /\ ~SaveIntent(b) => UNCHANGED source
<1>1. /\ IInv /\ PlanKept /\ TypeOK /\ EvidenceChain /\ TypeOK' /\ EvidenceChain' /\ VaultStep(b)
  BY BranchFrame DEF LInv
<1>2. source \in Intents /\ source' \in Intents
  BY <1>1 DEF TypeOK, Intents
<1>3. \A u \in Ids : source[u] # 0 => source'[u] = source[u]
  BY <1>1 DEF VaultStep
<1>4. \A u \in Ids : LineageIn(u, source) \subseteq LineageIn(u, source')
  BY <1>2, <1>3, LineageGrows
<1>5. ~SaveIntent(b) => UNCHANGED source
  BY <1>1, BranchKinds DEF Fails, Goes, Approve, CreateTask
<1>6. \A u \in Ids : rows[u] # "absent" => LineageIn(u, source') = LineageIn(u, source)
  <2>1. CASE SaveIntent(b)
    BY <2>1, IntentFacts
  <2>2. QED
    BY <1>5, <2>1
<1>7. QED
  BY <1>2, <1>4, <1>5, <1>6 DEF Revised

\* A Task's Revision Task is written once: the intent keeps one source per Task.
LEMMA RevisedOnce ==
    ASSUME NEW src \in Intents, NEW n \in Ids, NEW t \in Ids, src[n] = t
    PROVE  /\ Revised(n, src) <= Revised(t, src) + 1
           /\ LineageIn(t, src) \subseteq LineageIn(n, src)
<1> DEFINE L == LineageIn(t, src)
<1>1. t # 0 /\ L \subseteq Ids
  BY IdsFacts, LineageLeast
<1>2. LineageIn(n, src) = L \cup {n}
  BY <1>1, LineageEquation
<1>3. IsFiniteSet(L) /\ Cardinality(L) \in Nat
  BY <1>1, IdsFacts, FS_Subset, FS_CardinalityType
<1>4. Cardinality(L \cup {n}) = Cardinality(L) \/ Cardinality(L \cup {n}) = Cardinality(L) + 1
  BY <1>3, FS_AddElement
<1>5. QED
  BY <1>2, <1>3, <1>4 DEF Revised

LEMMA SaveIntentMoves ==
    ASSUME LInv, NEW b \in Ids, SaveIntent(b)
    PROVE  /\ branch'[b].pc = "create" /\ branch'[b].task = branch[b].task
           /\ branch'[b].next = branch[b].next /\ branch'[b].revs = branch[b].revs
           /\ UNCHANGED run /\ At(b, "intent")
<1>1. TypeOK /\ Goto(b, "create") /\ "create" \in Points
  BY DEF LInv, IInv, SaveIntent, Points
<1>2. QED
  BY <1>1, GotoFacts, GotoRevs DEF SaveIntent

LEMMA CreateTaskMoves ==
    ASSUME LInv, NEW b \in Ids, CreateTask(b)
    PROVE  /\ branch'[b].pc = "attempt" /\ branch'[b].task = branch[b].next
           /\ branch'[b].revs = branch[b].revs + 1
           /\ branch[b].next \in Ids /\ branch[b].next > Planned /\ branch[b].task \in Ids
           /\ source[branch[b].next] = branch[b].task
           /\ branch[b].revs < MaxRevisions /\ rows[branch[b].task] = "completed"
           /\ branch[b].task # branch[b].next /\ branch[b].task # 0
           /\ rows[branch[b].next] = "absent" /\ rows'[branch[b].next] = "unstarted"
           /\ UNCHANGED run /\ UNCHANGED source /\ At(b, "create")
<1>1. /\ IInv /\ TypeOK /\ BranchesOwn /\ At(b, "create") /\ Busy(b)
      /\ rows \in [Ids -> Statuses] /\ branch \in [Ids -> BranchRecords]
  BY DEF LInv, IInv, CreateTask, At, Busy, TypeOK
<1>2. /\ branch[b].next \in Ids /\ branch[b].task \in Ids /\ branch[b].task < branch[b].next
      /\ rows[branch[b].task] = "completed"
  BY <1>1, OwnFacts DEF At
<1>3. branch[b].next > Planned /\ branch[b].revs < MaxRevisions
      /\ source[branch[b].next] = branch[b].task
  BY <1>1 DEF BranchesOwn, OwnLineage, At
<1>4. branch[b].task # branch[b].next /\ branch[b].task # 0
  <2>1. branch[b].task \in Nat /\ branch[b].next \in Nat /\ branch[b].task >= 1
    BY <1>2, IdsFacts
  <2>2. QED
    BY <1>2, <2>1
<1>5. QED
  BY <1>1, <1>2, <1>3, <1>4 DEF CreateTask

LEMMA ApproveMoves ==
    ASSUME LInv, NEW b \in Ids, Approve(b)
    PROVE  /\ branch'[b].pc = "idle" /\ verdict'[branch[b].task] = "approve"
           /\ UNCHANGED <<rows, source>> /\ run'.err = run.err
<1>1. TypeOK /\ Return(b, "none") /\ UNCHANGED <<rows, source>> /\ At(b, "judging")
      /\ verdict' = [verdict EXCEPT ![branch[b].task] = "approve"] /\ verdict \in [Ids -> Verdicts]
  BY DEF LInv, IInv, Approve, TypeOK
<1>2. branch[b].task \in Ids
  BY <1>1, OwnFacts DEF LInv, Busy, At
<1>3. branch'[b] = Idle
  BY <1>1, ReturnFacts
<1>4. run'.err = run.err
  BY <1>1 DEF Return, TypeOK, RunRecords
<1>5. QED
  BY <1>1, <1>2, <1>3, <1>4 DEF Idle

\* A branch stays in the lineage of the Task it was dispatched for.
LEMMA BranchesOwnStep ==
    ASSUME LInv, NEW b \in Ids, Branch(b)
    PROVE  BranchesOwn'
<1>1. /\ IInv /\ PlanKept /\ BranchesOwn /\ BranchesSupported /\ TypeOK /\ EvidenceChain
      /\ VaultStep(b) /\ Before' = Before /\ runs > 0 /\ branch \in [Ids -> BranchRecords]
      /\ branch[b].task \in Ids /\ rows[branch[b].task] # "absent"
      /\ \A a \in Ids : a # b => branch'[a] = branch[a]
  BY BranchFrame DEF LInv, IInv, TypeOK
<1>2. /\ source \in Intents /\ source' \in Intents
      /\ \A u \in Ids : rows[u] # "absent" =>
            /\ LineageIn(u, source') = LineageIn(u, source)
            /\ Revised(u, source') = Revised(u, source)
      /\ ~SaveIntent(b) => UNCHANGED source
  BY LineageStep
<1>3. Before \in Nat /\ MaxRevisions \in Nat
  BY <1>1, BeforeFacts, LimitsAssumption
<1>4. Busy(b) /\ b \in LineageIn(branch[b].task, source) /\ OwnLineage(branch[b])
  BY <1>1, EveryBranchStep DEF BranchesOwn
<1>5. SUFFICES ASSUME NEW a \in Ids, branch'[a].pc # "idle"
               PROVE  a \in LineageIn(branch'[a].task, source') /\ OwnLineage(branch[a])'
  BY DEF BranchesOwn, Busy
<1>6. CASE a # b
  <2>1. branch'[a] = branch[a] /\ Busy(a)
    BY <1>1, <1>5, <1>6 DEF Busy
  <2>2. a \in LineageIn(branch[a].task, source) /\ OwnLineage(branch[a]) /\ Supported(branch[a])
    BY <1>1, <2>1 DEF BranchesOwn, BranchesSupported
  <2>3. branch[a].task \in Ids /\ rows[branch[a].task] # "absent"
    BY <2>1, <2>2 DEF Supported, Busy
  <2>4. branch[a].pc = "create" => source'[branch[a].next] = source[branch[a].next]
    BY <1>1, <2>2, <2>1 DEF Supported, VaultStep
  <2>5. QED
    BY <1>1, <1>2, <2>1, <2>2, <2>3, <2>4 DEF OwnLineage
<1>7. CASE a = b
  <2>1. CASE Goes(b)
    BY <1>1, <1>2, <1>4, <1>7, <2>1 DEF Goes, OwnLineage
  <2>2. CASE SaveIntent(b)
    <3>1. /\ branch'[b].pc = "create" /\ branch'[b].task = branch[b].task
          /\ branch'[b].next = branch[b].next /\ branch'[b].revs = branch[b].revs
          /\ At(b, "intent")
      BY <2>2, SaveIntentMoves
    <3>2. source'[branch[b].next] = branch[b].task
      BY <2>2, IntentFacts DEF Intents
    <3>3. QED
      BY <1>1, <1>2, <1>4, <1>7, <3>1, <3>2 DEF OwnLineage, At
  <2>3. CASE CreateTask(b)
    <3> DEFINE n == branch[b].next  t == branch[b].task
    <3>1. /\ branch'[b].pc = "attempt" /\ branch'[b].task = n
          /\ branch'[b].revs = branch[b].revs + 1
          /\ n \in Ids /\ source[n] = t /\ t \in Ids /\ branch[b].revs < MaxRevisions
          /\ source' = source
      BY <2>3, CreateTaskMoves
    <3>2. Revised(n, source) <= Revised(t, source) + 1 /\ LineageIn(t, source) \subseteq LineageIn(n, source)
      BY <1>2, <3>1, RevisedOnce
    <3>3. b \in LineageIn(n, source)
      BY <1>4, <3>2
    <3>4. Revised(t, source) <= Before + branch[b].revs /\ branch[b].revs \in Nat
      BY <1>1, <1>4 DEF OwnLineage, BranchRecords
    <3>5. Revised(n, source) \in Nat /\ Revised(t, source) \in Nat
      BY <1>2, <3>1, RevisedFacts
    <3>6. Revised(n, source) <= Before + (branch[b].revs + 1) /\ branch[b].revs + 1 <= MaxRevisions
      BY <1>3, <3>1, <3>2, <3>4, <3>5
    <3>7. QED
      BY <1>1, <1>7, <3>1, <3>3, <3>6 DEF OwnLineage
  <2>4. CASE Fails(b) \/ Approve(b)
    BY <1>5, <1>7, <2>4, ApproveMoves DEF Fails
  <2>5. QED
    BY <1>1, <2>1, <2>2, <2>3, <2>4, BranchKinds
<1>8. QED
  BY <1>6, <1>7

LEMMA PlainPartsStep ==
    ASSUME LInv, NEW b \in Ids, Branch(b)
    PROVE  PlanKept' /\ OneRevision' /\ Untouched' /\ PhaseKept' /\ Reported'
<1>1. /\ VaultStep(b) /\ runs > 0 /\ runs' = runs /\ run.phase = "dispatch"
      /\ run'.phase = run.phase /\ run'.result = run.result
      /\ PlanKept /\ OneRevision /\ PhaseKept
  BY BranchFrame DEF LInv
<1>2. PlanKept'
  <2>1. 1 .. Planned \subseteq Ids
    BY LimitsAssumption DEF Ids
  <2>2. QED
    BY <1>1, <2>1 DEF PlanKept, VaultStep
<1>3. OneRevision'
  <2>1. CASE UNCHANGED source
    BY <1>1, <2>1 DEF OneRevision
  <2>2. CASE SaveIntent(b)
    <3>1. /\ ~ExistingForSource(branch[b].task) /\ branch[b].task # 0 /\ branch[b].next \in Ids
          /\ source' = [source EXCEPT ![branch[b].next] = branch[b].task] /\ source \in Intents
      BY <2>2, IntentFacts
    <3>2. /\ source'[branch[b].next] = branch[b].task
          /\ \A u \in Ids : u # branch[b].next => source'[u] = source[u]
          /\ \A u \in Ids : source[u] # branch[b].task
      BY <3>1 DEF Intents, ExistingForSource
    <3>3. QED
      BY <1>1, <3>2 DEF OneRevision
  <2>3. QED
    BY <2>1, <2>2, LineageStep
<1>4. Untouched' /\ PhaseKept'
  BY <1>1 DEF Untouched, PhaseKept
<1>5. Reported'
  BY <1>1 DEF PhaseKept, Reported
<1>6. QED
  BY <1>2, <1>3, <1>4, <1>5

\* Revisions of a lineage stay under the limit, branch by branch.
LEMMA BoundsStep ==
    ASSUME LInv, NEW b \in Ids, Branch(b)
    PROVE  AllBounded' /\ QueueOwn'
<1>1. /\ TypeOK /\ DistinctTasks /\ AllBounded /\ QueueOwn /\ BranchesOwn
      /\ VaultStep(b) /\ runs' = runs /\ Before' = Before /\ runs > 0
      /\ run'.queue = run.queue /\ run.queue \subseteq Ids /\ Busy(b)
  BY BranchFrame, EveryBranchStep DEF LInv, IInv, TypeOK, RunRecords
<1>2. /\ source \in Intents /\ source' \in Intents
      /\ \A u \in Ids : rows[u] # "absent" => Revised(u, source') = Revised(u, source)
      /\ ~SaveIntent(b) => UNCHANGED source
  BY LineageStep
<1>3. QueueOwn'
  <2> SUFFICES ASSUME NEW q \in run.queue
               PROVE  rows'[q] = "unstarted" /\ Revised(q, source') <= Before
    BY <1>1 DEF QueueOwn
  <2>1. /\ q \in Ids /\ rows[q] = "unstarted" /\ Revised(q, source) <= Before
        /\ branch[b].task # q
    BY <1>1 DEF QueueOwn, DistinctTasks
  <2>2. rows'[q] = "unstarted"
    BY <1>1, <2>1 DEF VaultStep
  <2>3. QED
    BY <1>2, <2>1, <2>2
<1>4. AllBounded'
  <2>1. CASE UNCHANGED source
    BY <1>1, <2>1 DEF AllBounded
  <2>2. CASE SaveIntent(b)
    <3> DEFINE t == branch[b].task  n == branch[b].next
    <3>1. /\ t \in Ids /\ n \in Ids /\ branch[b].revs < MaxRevisions
          /\ \A u \in Ids : u # n => LineageIn(u, source') = LineageIn(u, source)
          /\ Revised(n, source') <= Revised(t, source) + 1
      BY <2>2, IntentFacts
    <3>2. Revised(t, source) <= Before + branch[b].revs /\ branch[b].revs \in Nat
      BY <1>1 DEF BranchesOwn, OwnLineage, TypeOK, BranchRecords
    <3>3. Revised(n, source') \in Nat /\ Revised(t, source) \in Nat
      BY <1>2, <3>1, RevisedFacts
    <3>4. Revised(n, source') <= MaxRevisions * runs
      <4>1. Before \in Nat /\ MaxRevisions \in Nat /\ MaxRevisions * runs \in Nat
            /\ Before + MaxRevisions = MaxRevisions * runs
        BY <1>1, BeforeFacts, LimitsAssumption
      <4>2. Revised(n, source') <= Before + branch[b].revs + 1
        BY <3>1, <3>2, <3>3, <4>1
      <4>3. branch[b].revs + 1 <= MaxRevisions
        BY <3>1, <3>2, <4>1
      <4>4. QED
        BY <3>2, <3>3, <4>1, <4>2, <4>3
    <3>5. \A u \in Ids : u # n => Revised(u, source') = Revised(u, source)
      BY <3>1 DEF Revised
    <3>6. QED
      BY <1>1, <3>4, <3>5 DEF AllBounded
  <2>3. QED
    BY <1>2, <2>1, <2>2
<1>5. QED
  BY <1>3, <1>4

\* What no branch holds after the step was nobody's before it, or was left
\* approved or revised.
LEMMA Released ==
    ASSUME LInv, NEW b \in Ids, Branch(b), NEW t \in Ids, ~Held(t)', run'.err = "none"
    PROVE  /\ t = branch[b].task =>
                 /\ rows'[t] = "completed"
                 /\ verdict'[t] = "approve" \/ ExistingForSource(t)'
           /\ t # branch[b].task => ~Held(t) /\ rows'[t] = rows[t]
<1>1. /\ IInv /\ PlanKept /\ Busy(b) /\ TypeOK /\ VaultStep(b) /\ branch[b].task \in Ids
      /\ \A a \in Ids : a # b => branch'[a] = branch[a]
  BY BranchFrame, EveryBranchStep DEF LInv
<1>2. Goes(b) \/ Approve(b) \/ SaveIntent(b) \/ CreateTask(b)
  BY <1>1, BranchKinds DEF Fails
<1>3. ASSUME t = branch[b].task
      PROVE  rows'[t] = "completed" /\ (verdict'[t] = "approve" \/ ExistingForSource(t)')
  <2>1. ~ (branch'[b].pc # "idle" /\ branch'[b].task = t)
    BY DEF Held, Busy
  <2>2. ~Goes(b) /\ ~SaveIntent(b)
    BY <1>3, <2>1, SaveIntentMoves DEF Goes
  <2>3. CASE Approve(b)
    <3>1. At(b, "judging") /\ UNCHANGED rows
      BY <2>3 DEF Approve
    <3>2. rows[t] = "completed"
      BY <1>1, <1>3, <3>1, OwnFacts DEF At
    <3>3. QED
      BY <1>3, <2>3, <3>1, <3>2, ApproveMoves
  <2>4. CASE CreateTask(b)
    <3>1. /\ source[branch[b].next] = t /\ branch[b].next \in Ids /\ UNCHANGED source
          /\ rows[t] = "completed"
      BY <1>3, <2>4, CreateTaskMoves
    <3>2. ExistingForSource(t)'
      BY <3>1 DEF ExistingForSource
    <3>3. QED
      BY <1>1, <3>1, <3>2 DEF VaultStep
  <2>5. QED
    BY <1>2, <2>2, <2>3, <2>4
<1>4. ASSUME t # branch[b].task PROVE ~Held(t) /\ rows'[t] = rows[t]
  <2>1. ~Held(t)
    BY <1>1, <1>4 DEF Held, Busy
  <2>2. CASE CreateTask(b)
    <3>1. branch'[b].pc = "attempt" /\ branch'[b].task = branch[b].next
      BY <2>2, CreateTaskMoves
    <3>2. t # branch[b].next
      BY <3>1 DEF Held, Busy
    <3>3. QED
      BY <1>1, <1>4, <2>1, <3>2, OtherRows
  <2>3. CASE ~CreateTask(b)
    <3>1. ~Fails(b)
      BY DEF Fails
    <3>2. QED
      BY <1>1, <1>4, <2>1, <2>3, <3>1, OtherRows
  <2>4. QED
    BY <2>2, <2>3
<1>5. QED
  BY <1>3, <1>4

LEMMA ErrStays ==
    ASSUME LInv, NEW b \in Ids, Branch(b), Clean'
    PROVE  Clean
<1>1. /\ IInv /\ PlanKept /\ run.phase = "dispatch"
  BY BranchFrame DEF LInv
<1>2. Goes(b) \/ Approve(b) \/ SaveIntent(b) \/ CreateTask(b)
  BY <1>1, BranchKinds DEF Fails, Clean
<1>3. run'.err = run.err
  BY <1>2, SaveIntentMoves, CreateTaskMoves, ApproveMoves DEF Goes
<1>4. QED
  BY <1>1, <1>3 DEF Clean

\* A Task that waits for its round still waits after a branch's step.
LEMMA WaitingStep ==
    ASSUME LInv, NEW b \in Ids, Branch(b)
    PROVE  Waiting'
<1>1. SUFFICES ASSUME Clean', NEW t \in Ids, rows'[t] = "unstarted", ~Held(t)'
               PROVE  Revised(t, source') <= Before'
  BY DEF Waiting
<1>2. Clean /\ run'.err = "none" /\ Waiting /\ Before' = Before
  BY <1>1, ErrStays, BranchFrame DEF Clean, LInv
<1>3. t # branch[b].task /\ ~Held(t) /\ rows[t] = "unstarted"
  BY <1>1, <1>2, Released
<1>4. Revised(t, source) <= Before
  BY <1>2, <1>3 DEF Waiting
<1>5. QED
  BY <1>2, <1>3, <1>4, LineageStep

\* Tasks the round left behind are approved, or the round failed.
LEMMA SettledStep ==
    ASSUME LInv, NEW b \in Ids, Branch(b)
    PROVE  Settled'
<1>1. SUFFICES ASSUME Clean', runs' = 1, NEW t \in Ids
               PROVE  /\ rows'[t] = "absent" /\ source'[t] # 0 =>
                            \E a \in Ids : branch'[a].pc = "create" /\ branch'[a].next = t
                      /\ ~Held(t)' =>
                            /\ rows'[t] \in {"absent", "unstarted", "completed"}
                            /\ rows'[t] = "completed" =>
                                  verdict'[t] = "approve" \/ ExistingForSource(t)'
  BY DEF Settled, At
<1>2. /\ IInv /\ PlanKept /\ VaultStep(b) /\ runs' = runs /\ Settled
      /\ \A a \in Ids : a # b => branch'[a] = branch[a]
  BY BranchFrame DEF LInv
<1>3. Clean /\ run'.err = "none" /\ ~Fails(b)
  BY <1>1, ErrStays DEF Clean, Fails
<1>4. ASSUME rows'[t] = "absent", source'[t] # 0
      PROVE  \E a \in Ids : branch'[a].pc = "create" /\ branch'[a].next = t
  <2>1. rows[t] = "absent"
    BY <1>2, <1>4 DEF VaultStep
  <2>2. CASE source[t] # 0
    <3>1. PICK a \in Ids : At(a, "create") /\ branch[a].next = t
      BY <1>1, <1>2, <1>3, <2>1, <2>2 DEF Settled
    <3>2. ~CreateTask(b) \/ a # b
      BY <1>4, <3>1, CreateTaskMoves
    <3>3. a # b
      BY <1>2, <1>3, <3>1, <3>2, BranchKinds DEF Goes, Approve, SaveIntent, At
    <3>4. QED
      BY <1>2, <3>1, <3>3 DEF At
  <2>3. CASE source[t] = 0
    <3>1. SaveIntent(b)
      BY <1>4, <2>3, LineageStep
    <3>2. source \in Intents /\ source' = [source EXCEPT ![branch[b].next] = branch[b].task]
      BY <3>1, IntentFacts
    <3>3. t = branch[b].next
      BY <1>4, <2>3, <3>2 DEF Intents
    <3>4. QED
      BY <3>1, <3>3, SaveIntentMoves
  <2>4. QED
    BY <2>2, <2>3
<1>5. ASSUME ~Held(t)'
      PROVE  /\ rows'[t] \in {"absent", "unstarted", "completed"}
             /\ rows'[t] = "completed" => verdict'[t] = "approve" \/ ExistingForSource(t)'
  <2>1. CASE t = branch[b].task
    BY <1>3, <1>5, <2>1, Released
  <2>2. CASE t # branch[b].task
    <3>1. ~Held(t) /\ rows'[t] = rows[t]
      BY <1>3, <1>5, <2>2, Released
    <3>2. /\ rows[t] \in {"absent", "unstarted", "completed"}
          /\ rows[t] = "completed" => verdict[t] = "approve" \/ ExistingForSource(t)
      BY <1>1, <1>2, <1>3, <3>1 DEF Settled
    <3>3. verdict[t] = "approve" => verdict'[t] = "approve"
      BY <1>2 DEF VaultStep
    <3>4. ExistingForSource(t) => ExistingForSource(t)'
      <4>1. t # 0
        BY IdsFacts
      <4>2. QED
        BY <1>2, <4>1 DEF VaultStep, ExistingForSource
    <3>5. QED
      BY <3>1, <3>2, <3>3, <3>4
  <2>3. QED
    BY <2>1, <2>2
<1>6. QED
  BY <1>4, <1>5

\* Approval is never lost.
LEMMA ApprovedStays ==
    ASSUME LInv, NEW b \in Ids, Branch(b)
    PROVE  /\ \A t \in Ids : Approved(t) => Approved(t)'
           /\ \A t \in Ids : Grounded(t) => Grounded(t)'
<1>1. VaultStep(b)
  BY BranchFrame DEF LInv
<1>2. \A u \in Ids : LineageIn(u, source) \subseteq LineageIn(u, source')
  BY LineageStep
<1>3. ASSUME NEW t \in Ids, Approved(t) PROVE Approved(t)'
  <2>1. PICK u \in Ids : t \in LineageIn(u, source) /\ verdict[u] = "approve"
    BY <1>3 DEF Approved
  <2>2. t \in LineageIn(u, source') /\ verdict'[u] = "approve"
    BY <1>1, <1>2, <2>1 DEF VaultStep
  <2>3. QED
    BY <2>2 DEF Approved
<1>4. \A t \in Ids : Grounded(t) => Grounded(t)'
  BY <1>3, IdsFacts DEF Grounded
<1>5. QED
  BY <1>3, <1>4

\* What has started rests on approved Deliverables, branch by branch.
LEMMA GroundedStep ==
    ASSUME LInv, NEW b \in Ids, Branch(b)
    PROVE  AllGrounded'
<1>1. SUFFICES ASSUME runs' = 1
               PROVE  /\ \A q \in run'.queue : Grounded(q)'
                      /\ \A a \in Ids : branch'[a].pc \in {"attempt", "execute"} =>
                            Grounded(branch[a].task)'
  BY DEF AllGrounded
<1>2. /\ IInv /\ PlanKept /\ AllGrounded /\ runs = 1 /\ BranchesSupported
      /\ run'.queue = run.queue /\ run.queue \subseteq Ids
      /\ \A a \in Ids : a # b => branch'[a] = branch[a]
      /\ branch[b].task \in Ids
  BY <1>1, BranchFrame DEF LInv, IInv, TypeOK, RunRecords
<1>3. \A t \in Ids : Grounded(t) => Grounded(t)'
  BY ApprovedStays
<1>4. \A q \in run'.queue : Grounded(q)'
  BY <1>2, <1>3 DEF AllGrounded
<1>5. ASSUME NEW a \in Ids, branch'[a].pc \in {"attempt", "execute"}
      PROVE  Grounded(branch[a].task)'
  <2>1. CASE a # b
    <3>1. branch'[a] = branch[a] /\ branch[a].task \in Ids /\ Grounded(branch[a].task)
      BY <1>2, <1>5, <2>1 DEF AllGrounded, BranchesSupported, Supported
    <3>2. PICK t \in Ids : t = branch[a].task
      BY <3>1
    <3>3. Grounded(t)'
      BY <1>3, <3>1, <3>2
    <3>4. QED
      BY <3>1, <3>2, <3>3
  <2>2. CASE a = b
    <3>1. CASE Goes(b)
      <4>1. branch[b].pc = "attempt" /\ branch'[b].task = branch[b].task
        BY <1>5, <2>2, <3>1 DEF Goes
      <4>2. PICK t \in Ids : t = branch[b].task
        BY <1>2
      <4>3. Grounded(t)
        BY <1>2, <4>1, <4>2 DEF AllGrounded
      <4>4. QED
        BY <1>3, <2>2, <4>1, <4>2, <4>3
    <3>2. CASE CreateTask(b)
      <4>1. branch'[b].task = branch[b].next /\ branch[b].next \in Ids /\ branch[b].next > Planned
        BY <3>2, CreateTaskMoves
      <4>2. PICK n \in Ids : n = branch'[b].task
        BY <4>1
      <4>3. ~ (n <= Planned)
        BY <4>1, <4>2, IdsFacts, LimitsAssumption
      <4>4. DepsOf(n) = {}
        BY <4>3 DEF DepsOf
      <4>5. Grounded(n)'
        BY <4>4 DEF Grounded
      <4>6. QED
        BY <2>2, <4>2, <4>5
    <3>3. CASE Fails(b) \/ Approve(b) \/ SaveIntent(b)
      BY <1>5, <2>2, <3>3, ApproveMoves, SaveIntentMoves DEF Fails
    <3>4. QED
      BY <1>2, <3>1, <3>2, <3>3, BranchKinds
  <2>3. QED
    BY <2>1, <2>2
<1>6. QED
  BY <1>4, <1>5

\* Every branch step keeps the lineage invariant.
LEMMA BranchKeepsLineages ==
    ASSUME LInv, NEW b \in Ids, Branch(b)
    PROVE  LInv'
BY BranchFrame, PlainPartsStep, BranchesOwnStep, BoundsStep, WaitingStep, SettledStep, GroundedStep
   DEF LInv

-----------------------------------------------------------------------------
(* Between the rounds of the first Command everything completed is approved. *)

LEMMA QuietApproved ==
    ASSUME LInv, Clean, runs = 1, Quiet
    PROVE  \A t \in Ids : rows[t] = "completed" => Approved(t)
<1> DEFINE Wrong == {t \in Ids : rows[t] = "completed" /\ ~Approved(t)}
<1>1. SUFFICES ASSUME Wrong # {} PROVE FALSE
  OBVIOUS
<1>2. PICK x \in Wrong : \A y \in Wrong : y <= x
  <2>1. Wrong \subseteq Ids
    OBVIOUS
  <2> HIDE DEF Wrong
  <2>2. QED
    BY <1>1, <2>1, IdsFacts, GreatestNumber
<1>3. x \in Ids /\ x \in Nat /\ rows[x] = "completed" /\ ~Approved(x)
  BY IdsFacts
<1>4. /\ TypeOK /\ EvidenceChain /\ Settled /\ Waiting
      /\ \A t \in Ids : ~Held(t)
      /\ \A b \in Ids : ~At(b, "create")
  BY DEF LInv, IInv, Quiet, At, Held, Busy
<1>5. CASE verdict[x] = "approve"
  <2>1. x \in LineageIn(x, source)
    BY <1>3, <1>4, SourceTyped, LineageLeast
  <2>2. QED
    BY <1>3, <1>5, <2>1 DEF Approved
<1>6. CASE ExistingForSource(x)
  <2>1. PICK r \in Ids : source[r] = x
    BY <1>6 DEF ExistingForSource
  <2>2. x # 0 /\ x < r /\ r \in Nat /\ x # r /\ source \in Intents
    BY <1>3, <1>4, <2>1, SourceTyped, IdsFacts
  <2>3. rows[r] # "absent" /\ rows[r] \in {"absent", "unstarted", "completed"}
    BY <1>4, <2>1, <2>2 DEF Settled
  <2>4. rows[r] # "unstarted"
    <3>1. Before = 0
      BY LimitsAssumption DEF Before
    <3>2. Revised(r, source) \in Nat /\ Revised(r, source) # 0
      BY <2>1, <2>2, RevisedFacts
    <3>3. ~ (Revised(r, source) <= 0)
      BY <3>2
    <3>4. QED
      BY <1>4, <3>1, <3>3 DEF Waiting
  <2>5. r \notin Wrong
    <3>1. ~ (r <= x)
      BY <1>3, <2>2
    <3>2. QED
      BY <1>2, <3>1
  <2>6. Approved(r)
    BY <2>1, <2>3, <2>4, <2>5
  <2>7. PICK u \in Ids : r \in LineageIn(u, source) /\ verdict[u] = "approve"
    BY <2>6 DEF Approved
  <2>8. x \in LineageIn(u, source)
    BY <2>1, <2>2, <2>7, LineageLeast DEF ClosedUnder
  <2>9. QED
    BY <1>3, <2>7, <2>8 DEF Approved
<1>7. verdict[x] = "approve" \/ ExistingForSource(x)
  BY <1>3, <1>4 DEF Settled
<1>8. QED
  BY <1>5, <1>6, <1>7

\* The Vault, the number of Commands and what follows from them alone.
LEMMA SameVaultSame ==
    ASSUME LInv, UNCHANGED vault
    PROVE  /\ UNCHANGED <<rows, verdict, source>>
           /\ PlanKept' /\ OneRevision'
           /\ \A t \in Ids : Approved(t)' = Approved(t) /\ Grounded(t)' = Grounded(t)
           /\ runs' = runs => Untouched' /\ AllBounded' /\ Before' = Before
<1>1. UNCHANGED <<rows, verdict, source>> /\ PlanKept /\ OneRevision /\ Untouched /\ AllBounded
  BY DEF vault, LInv
<1>2. PlanKept' /\ OneRevision'
  BY <1>1 DEF PlanKept, OneRevision
<1>3. ASSUME NEW t \in Ids PROVE Approved(t)' = Approved(t)
  BY <1>1 DEF Approved
<1>4. ASSUME NEW t \in Ids PROVE Grounded(t)' = Grounded(t)
  BY <1>3, IdsFacts DEF Grounded
<1>5. runs' = runs => Untouched' /\ AllBounded' /\ Before' = Before
  BY <1>1 DEF Untouched, AllBounded, Before
<1>6. QED
  BY <1>1, <1>2, <1>3, <1>4, <1>5

\* The Command ends: nothing runs, and only a completed one reports.
LEMMA StopKeepsLineages ==
    ASSUME LInv, IInv', UNCHANGED vault, runs' = runs, NEW r \in Results, run' = Stopped(r),
           \A b \in Ids : branch'[b].pc = "idle",
           r = "completed" => Reported'
    PROVE  LInv'
<1>1. run'.phase = "idle" /\ run'.queue = {} /\ run'.result = r
  BY DEF Stopped
<1>2. PlanKept' /\ OneRevision' /\ Untouched' /\ AllBounded'
  BY SameVaultSame
<1>3. BranchesOwn' /\ QueueOwn' /\ PhaseKept' /\ Waiting' /\ Settled'
  BY <1>1 DEF BranchesOwn, QueueOwn, PhaseKept, Waiting, Settled, Clean, Busy
<1>4. AllGrounded'
  BY <1>1 DEF AllGrounded
<1>5. Reported'
  BY <1>1 DEF Reported
<1>6. QED
  BY <1>2, <1>3, <1>4, <1>5 DEF LInv

\* The goroutines stay as they are while the Command goes on.
LEMMA GoOnKeepsLineages ==
    ASSUME LInv, IInv', UNCHANGED vault, UNCHANGED branch, runs' = runs, runs > 0,
           run'.phase # "idle", run.phase # "idle",
           run'.err = run.err, run'.result = run.result, run'.phase = "plan" => run.err = "none",
           QueueOwn', runs = 1 => \A q \in run'.queue : q \in Ids /\ Grounded(q)
    PROVE  LInv'
<1>1. /\ UNCHANGED <<rows, verdict, source>> /\ Before' = Before
      /\ PlanKept' /\ OneRevision' /\ Untouched' /\ AllBounded'
      /\ \A t \in Ids : Grounded(t)' = Grounded(t)
  BY SameVaultSame
<1>2. /\ BranchesOwn /\ PhaseKept /\ Waiting /\ Settled /\ AllGrounded /\ BranchesSupported
  BY DEF LInv, IInv
<1>3. BranchesOwn'
  BY <1>1, <1>2 DEF BranchesOwn, Busy, OwnLineage
<1>4. PhaseKept' /\ Reported'
  BY <1>2 DEF PhaseKept, Reported
<1>5. (\A t \in Ids : Held(t)' = Held(t)) /\ Clean' = Clean
  BY DEF Held, Busy, Clean
<1>6. Waiting'
  BY <1>1, <1>2, <1>5 DEF Waiting
<1>7. Settled'
  BY <1>1, <1>2, <1>5 DEF Settled, At, ExistingForSource
<1>8. AllGrounded'
  <2>1. SUFFICES ASSUME runs = 1
                 PROVE  /\ \A q \in run'.queue : Grounded(q)'
                        /\ \A a \in Ids : branch'[a].pc \in {"attempt", "execute"} =>
                              Grounded(branch[a].task)'
    BY DEF AllGrounded
  <2>2. \A q \in run'.queue : Grounded(q)'
    BY <1>1, <2>1
  <2>3. ASSUME NEW a \in Ids, branch'[a].pc \in {"attempt", "execute"}
        PROVE  Grounded(branch[a].task)'
    <3>1. branch[a].task \in Ids /\ Grounded(branch[a].task)
      BY <1>2, <2>1, <2>3 DEF AllGrounded, BranchesSupported, Supported
    <3>2. PICK t \in Ids : t = branch[a].task
      BY <3>1
    <3>3. Grounded(t)'
      BY <1>1, <3>1, <3>2
    <3>4. QED
      BY <3>2, <3>3
  <2>4. QED
    BY <2>2, <2>3
<1>9. QED
  BY <1>1, <1>3, <1>4, <1>6, <1>7, <1>8 DEF LInv

\* RunRound: the batch takes its readiness from the records it reads here.
LEMMA RoundKeepsLineages ==
    ASSUME LInv, RunFails \/ AllCompleted \/ NothingReady \/ NextBatch \/ RoundEnds
    PROVE  LInv'
<1>1. /\ IInv /\ TypeOK /\ PhaseKept /\ QueueOwn /\ Waiting /\ AllGrounded
      /\ UNCHANGED vault /\ UNCHANGED branch /\ runs' = runs
      /\ UNCHANGED <<rows, source>>
  BY DEF LInv, IInv, RunFails, AllCompleted, NothingReady, NextBatch, RoundEnds, vault
<1>2. IInv'
  BY <1>1, RoundBoundary
<1>3. Quiet /\ run.phase # "idle" /\ runs > 0 /\ run \in RunRecords
  BY <1>1 DEF IInv, QuietBetweenRounds, TypeOK, RunFails, AllCompleted, NothingReady, NextBatch, RoundEnds
<1>4. (\A b \in Ids : branch'[b].pc = "idle") /\ (\A t \in Ids : ~Held(t)) /\ Before' = Before
  BY <1>1, <1>3 DEF Quiet, At, Held, Busy, Before
<1>5. ASSUME NEW r \in Results \ {"completed"}, run' = Stopped(r) PROVE LInv'
  BY <1>1, <1>2, <1>4, <1>5, StopKeepsLineages
<1>6. CASE RunFails
  BY <1>5, <1>6 DEF RunFails, Finish, Results
<1>7. CASE NothingReady
  BY <1>5, <1>7 DEF NothingReady, Finish, Results
<1>8. CASE AllCompleted
  <2>1. run' = Stopped("completed") /\ run.phase = "plan" /\ \A t \in Rows : rows[t] = "completed"
    BY <1>8 DEF AllCompleted, Finish
  <2>2. Clean
    BY <1>1, <2>1 DEF Clean, PhaseKept
  <2>3. ASSUME runs = 1, NEW t \in 1 .. Planned PROVE Approved(t)'
    <3>1. t \in Ids /\ rows[t] = "completed"
      <4>1. t \in Ids /\ rows[t] # "absent"
        BY <2>3, LimitsAssumption DEF LInv, PlanKept, Ids
      <4>2. QED
        BY <2>1, <4>1 DEF Rows
    <3>2. Approved(t)
      BY <1>3, <2>2, <2>3, <3>1, QuietApproved
    <3>3. QED
      BY <1>1, <3>1, <3>2, SameVaultSame
  <2>4. Reported'
    BY <1>1, <2>3 DEF Reported
  <2>5. QED
    BY <1>1, <1>2, <1>4, <2>1, <2>4, StopKeepsLineages DEF Results
<1>9. CASE NextBatch
  <2>1. /\ run.phase = "plan"
        /\ run' = [run EXCEPT !.phase = "dispatch", !.queue = Ready, !.slots = Slots(runs)]
    BY <1>9 DEF NextBatch
  <2>2. /\ run'.phase = "dispatch" /\ run'.queue = Ready
        /\ run'.err = run.err /\ run'.result = run.result
    BY <1>3, <2>1 DEF RunRecords
  <2>3. Clean
    BY <1>1, <2>1 DEF Clean, PhaseKept
  <2>4. QueueOwn'
    BY <1>1, <1>4, <2>2, <2>3 DEF QueueOwn, Waiting, Ready
  <2>5. ASSUME runs = 1, NEW q \in Ready PROVE q \in Ids /\ Grounded(q)
    BY <1>3, <2>3, <2>5, QuietApproved, IdsFacts DEF Grounded, Ready, DependenciesCompleted
  <2>6. QED
    BY <1>1, <1>2, <1>3, <2>2, <2>4, <2>5, GoOnKeepsLineages
<1>10. CASE RoundEnds
  <2>1. CASE run' = Stopped("failed") \/ run' = Stopped("limit_reached")
    BY <1>5, <2>1 DEF Results
  <2>2. CASE run.err = "none" /\ run' = [run EXCEPT !.phase = "plan"]
    <3>1. /\ run'.phase = "plan" /\ run'.queue = run.queue /\ run.queue \subseteq Ids
          /\ run'.err = run.err /\ run'.result = run.result
      BY <1>3, <2>2 DEF RunRecords
    <3>2. QueueOwn'
      BY <1>1, <1>4, <3>1 DEF QueueOwn
    <3>3. runs = 1 => \A q \in run'.queue : q \in Ids /\ Grounded(q)
      BY <1>1, <3>1 DEF AllGrounded
    <3>4. QED
      BY <1>1, <1>2, <1>3, <2>2, <3>1, <3>2, <3>3, GoOnKeepsLineages
  <2>3. QED
    BY <1>10, <2>1, <2>2 DEF RoundEnds
<1>11. QED
  BY <1>6, <1>7, <1>8, <1>9, <1>10

\* Dispatch: the started goroutine holds a Task nobody holds.
LEMMA DispatchKeepsLineages ==
    ASSUME LInv, NEW b \in Ids, Dispatch(b)
    PROVE  LInv'
<1> DEFINE fresh == [pc |-> "attempt", task |-> b, revs |-> 0, next |-> 0]
<1>1. /\ IInv /\ TypeOK /\ PhaseKept /\ QueueOwn /\ Waiting /\ AllGrounded /\ BranchesOwn /\ Settled
      /\ BranchesSupported /\ DistinctTasks /\ UNCHANGED vault /\ runs' = runs
      /\ run.phase = "dispatch" /\ run \in RunRecords /\ b \in run.queue
      /\ branch \in [Ids -> BranchRecords]
      /\ branch' = [branch EXCEPT ![b] = fresh]
      /\ run' = [run EXCEPT !.queue = @ \ {b}, !.left = @ - 1, !.slots = @ - 1]
  BY DEF LInv, IInv, TypeOK, Dispatch
<1>2. IInv' /\ runs > 0
  BY <1>1, DispatchPreserves DEF TypeOK
<1>3. /\ UNCHANGED <<rows, verdict, source>> /\ Before' = Before
      /\ PlanKept' /\ OneRevision' /\ Untouched' /\ AllBounded'
      /\ \A t \in Ids : Grounded(t)' = Grounded(t)
  BY <1>1, SameVaultSame
<1>4. /\ branch'[b].pc = "attempt" /\ branch'[b].task = b /\ branch'[b].revs = 0
      /\ \A a \in Ids : a # b => branch'[a] = branch[a]
  BY <1>1
<1>5. /\ run'.phase = run.phase /\ run'.queue = run.queue \ {b} /\ run.queue \subseteq Ids
      /\ run'.err = run.err /\ run'.result = run.result
  BY <1>1 DEF RunRecords
<1>6. PhaseKept' /\ Reported'
  BY <1>1, <1>5 DEF PhaseKept, Reported
<1>7. QueueOwn'
  BY <1>1, <1>3, <1>5 DEF QueueOwn
<1>8. BranchesOwn'
  <2>1. SUFFICES ASSUME NEW a \in Ids, branch'[a].pc # "idle"
                 PROVE  a \in LineageIn(branch'[a].task, source') /\ OwnLineage(branch[a])'
    BY DEF BranchesOwn, Busy
  <2>2. CASE a = b
    <3>1. b \in LineageIn(b, source)
      BY <1>1, SourceTyped, LineageLeast DEF IInv
    <3>2. Revised(b, source) <= Before /\ Before \in Nat /\ 0 <= MaxRevisions
      BY <1>1, BeforeFacts, LimitsAssumption DEF QueueOwn
    <3>3. Revised(b, source) \in Nat
      BY <1>1, SourceTyped, RevisedFacts DEF IInv
    <3>4. QED
      BY <1>3, <1>4, <2>2, <3>1, <3>2, <3>3 DEF OwnLineage
  <2>3. CASE a # b
    BY <1>1, <1>3, <1>4, <2>1, <2>3 DEF BranchesOwn, Busy, OwnLineage
  <2>4. QED
    BY <2>2, <2>3
\* Only b holds anything more than before.
<1>9. /\ \A t \in Ids : ~Held(t)' => ~Held(t)
      /\ \A a \in Ids : At(a, "create") => branch'[a] = branch[a]
      /\ Clean' = Clean
  <2>1. ~Busy(b)
    <3>1. SUFFICES ASSUME Busy(b) PROVE FALSE
      OBVIOUS
    <3>2. b \in LineageIn(branch[b].task, source) /\ branch[b].task # b /\ branch[b].task \in Ids
      BY <1>1, <3>1 DEF BranchesOwn, DistinctTasks, BranchesSupported, Supported, Busy
    <3>3. rows[b] = "unstarted"
      BY <1>1 DEF QueueOwn
    <3>4. ~ExistingForSource(b)
      <4>1. verdict[b] # "request_changes"
        BY <1>1, <3>3 DEF IInv, EvidenceChain
      <4>2. b # 0
        BY IdsFacts
      <4>3. QED
        BY <1>1, <4>1, <4>2 DEF IInv, EvidenceChain, ExistingForSource
    <3>5. ClosedUnder(Ids \ {b}, source) /\ source \in Intents
      BY <1>1, <3>4, SourceTyped DEF IInv, ClosedUnder, ExistingForSource
    <3>6. PICK t \in Ids : t = branch[b].task
      BY <3>2
    <3>7. LineageIn(t, source) \subseteq Ids \ {b}
      BY <3>2, <3>5, <3>6, LineageLeast
    <3>8. QED
      BY <3>2, <3>6, <3>7
  <2>2. \A a \in Ids : At(a, "create") => branch'[a] = branch[a]
    BY <1>4, <2>1 DEF At, Busy
  <2>3. \A t \in Ids : ~Held(t)' => ~Held(t)
    BY <1>4, <2>1 DEF Held, Busy
  <2>4. QED
    BY <1>5, <2>2, <2>3 DEF Clean
<1>10. Waiting'
  BY <1>1, <1>3, <1>9 DEF Waiting
<1>11. Settled'
  BY <1>1, <1>3, <1>9 DEF Settled, At, ExistingForSource
<1>12. AllGrounded'
  <2>1. SUFFICES ASSUME runs = 1
                 PROVE  /\ \A q \in run'.queue : Grounded(q)'
                        /\ \A a \in Ids : branch'[a].pc \in {"attempt", "execute"} =>
                              Grounded(branch[a].task)'
    BY <1>1 DEF AllGrounded
  <2>2. \A q \in run'.queue : Grounded(q)'
    BY <1>1, <1>3, <1>5, <2>1 DEF AllGrounded
  <2>3. ASSUME NEW a \in Ids, branch'[a].pc \in {"attempt", "execute"}
        PROVE  Grounded(branch[a].task)'
    <3>1. \E t \in Ids : t = branch'[a].task /\ Grounded(t)
      BY <1>1, <1>4, <2>1, <2>3 DEF AllGrounded, BranchesSupported, Supported
    <3>2. PICK t \in Ids : t = branch'[a].task /\ Grounded(t)
      BY <3>1
    <3>3. Grounded(t)'
      BY <1>3, <3>2
    <3>4. QED
      BY <3>2, <3>3
  <2>4. QED
    BY <2>2, <2>3
<1>13. QED
  BY <1>2, <1>3, <1>6, <1>7, <1>8, <1>10, <1>11, <1>12 DEF LInv

\* A Command begins: its limit is added to those of the Commands before.
LEMMA BeginKeepsLineages ==
    ASSUME LInv, NEW queue \in SUBSET Ids, Begin(queue),
           \A q \in queue : rows[q] = "unstarted" /\ source[q] # 0
    PROVE  LInv'
<1>1. /\ IInv /\ TypeOK /\ QuietBetweenRounds /\ Untouched /\ AllBounded
      /\ UNCHANGED vault /\ UNCHANGED branch /\ runs' = runs + 1
      /\ run'.phase # "idle" /\ run'.queue = queue /\ run'.err = "none" /\ run'.result = "none"
      /\ runs \in Nat /\ run.phase = "idle"
  BY DEF LInv, IInv, Begin, TypeOK
<1>2. IInv'
  BY <1>1, BeginPreserves
<1>3. /\ UNCHANGED <<rows, verdict, source>> /\ PlanKept' /\ OneRevision'
  BY <1>1, SameVaultSame
<1>4. \A b \in Ids : branch'[b].pc = "idle"
  BY <1>1 DEF QuietBetweenRounds, Quiet, At
<1>5. Before' = MaxRevisions * runs
  <2>1. runs' # 0 /\ runs' - 1 = runs
    BY <1>1
  <2>2. QED
    BY <2>1 DEF Before
<1>6. \A t \in Ids : Revised(t, source') <= Before'
  BY <1>1, <1>3, <1>5 DEF AllBounded
<1>7. AllBounded'
  <2>1. ASSUME NEW t \in Ids PROVE Revised(t, source') <= MaxRevisions * runs'
    <3>1. Revised(t, source') \in Nat /\ Revised(t, source') <= Before'
      BY <1>3, <1>1, <1>6, SourceTyped, RevisedFacts DEF IInv
    <3>2. Before' \in Nat /\ Before' <= MaxRevisions * runs' /\ MaxRevisions * runs' \in Nat
      <4>1. runs \in Nat /\ MaxRevisions \in Nat /\ runs' = runs + 1
        BY <1>1, LimitsAssumption
      <4>2. MaxRevisions * (runs + 1) = MaxRevisions * runs + MaxRevisions
        BY <4>1
      <4>3. MaxRevisions * runs \in Nat
        BY <4>1
      <4>4. QED
        BY <1>5, <4>1, <4>2, <4>3
    <3>3. QED
      BY <3>1, <3>2
  <2>2. QED
    BY <2>1 DEF AllBounded
<1>8. QueueOwn'
  BY <1>1, <1>3, <1>6 DEF QueueOwn
<1>9. BranchesOwn' /\ Waiting'
  BY <1>4, <1>6 DEF BranchesOwn, Busy, Waiting
<1>10. Untouched' /\ PhaseKept' /\ Reported'
  BY <1>1 DEF Untouched, PhaseKept, Reported
<1>11. Settled'
  BY <1>1, <1>3 DEF Settled, Untouched
<1>12. AllGrounded'
  <2>1. runs' = 1 => queue = {}
    BY <1>1 DEF Untouched
  <2>2. QED
    BY <1>1, <1>4, <2>1 DEF AllGrounded
<1>13. QED
  BY <1>2, <1>3, <1>7, <1>8, <1>9, <1>10, <1>11, <1>12 DEF LInv

\* A crash forgets the branches and keeps the Vault.
LEMMA CrashKeepsLineages ==
    ASSUME LInv, Crash
    PROVE  LInv'
<1>1. /\ UNCHANGED vault /\ runs' = runs /\ run' = Stopped("crashed")
      /\ branch' = [b \in Ids |-> Idle]
  BY DEF Crash
<1>2. \A b \in Ids : branch'[b].pc = "idle"
  BY <1>1 DEF Idle
<1>3. IInv'
  BY CrashPreserves DEF LInv
<1>4. QED
  BY <1>1, <1>2, <1>3, StopKeepsLineages DEF Results

LEMMA ClockKeepsLineages ==
    ASSUME LInv, IInv', UNCHANGED <<vault, run, branch, runs>>
    PROVE  LInv'
<1>1. /\ UNCHANGED <<rows, verdict, source>> /\ Before' = Before
      /\ PlanKept' /\ OneRevision' /\ Untouched' /\ AllBounded'
      /\ \A t \in Ids : Approved(t)' = Approved(t) /\ Grounded(t)' = Grounded(t)
  BY SameVaultSame
<1>2. /\ BranchesOwn /\ PhaseKept /\ QueueOwn /\ Waiting /\ Settled /\ AllGrounded /\ Reported
      /\ BranchesSupported /\ TypeOK
  BY DEF LInv, IInv
<1>3. BranchesOwn' /\ PhaseKept' /\ QueueOwn'
  BY <1>1, <1>2 DEF BranchesOwn, Busy, OwnLineage, PhaseKept, QueueOwn
<1>4. (\A t \in Ids : Held(t)' = Held(t)) /\ Clean' = Clean
  BY DEF Held, Busy, Clean
<1>5. Waiting' /\ Settled'
  BY <1>1, <1>2, <1>4 DEF Waiting, Settled, At, ExistingForSource
<1>6. AllGrounded'
  <2>1. SUFFICES ASSUME runs = 1
                 PROVE  /\ \A q \in run.queue : Grounded(q)'
                        /\ \A a \in Ids : branch[a].pc \in {"attempt", "execute"} =>
                              Grounded(branch[a].task)'
    BY DEF AllGrounded
  <2>2. \A q \in run.queue : Grounded(q)'
    BY <1>1, <1>2, <2>1 DEF AllGrounded, TypeOK, RunRecords
  <2>3. ASSUME NEW a \in Ids, branch[a].pc \in {"attempt", "execute"}
        PROVE  Grounded(branch[a].task)'
    <3>1. branch[a].task \in Ids /\ Grounded(branch[a].task)
      BY <1>2, <2>1, <2>3 DEF AllGrounded, BranchesSupported, Supported
    <3>2. PICK t \in Ids : t = branch[a].task
      BY <3>1
    <3>3. Grounded(t)'
      BY <1>1, <3>1, <3>2
    <3>4. QED
      BY <3>2, <3>3
  <2>4. QED
    BY <2>2, <2>3
<1>7. Reported'
  <2>1. 1 .. Planned \subseteq Ids
    BY LimitsAssumption DEF Ids
  <2>2. QED
    BY <1>1, <1>2, <2>1 DEF Reported
<1>8. QED
  BY <1>1, <1>3, <1>5, <1>6, <1>7 DEF LInv

LEMMA InitLineages == Init => LInv
<1> SUFFICES ASSUME Init PROVE LInv
  OBVIOUS
<1>1. IInv /\ TypeOK /\ EvidenceChain
  BY InitHolds DEF IInv
<1>2. /\ \A b \in Ids : branch[b].pc = "idle"
      /\ run.phase = "idle" /\ run.queue = {} /\ run.result = "none" /\ runs = 0
      /\ \A t \in Ids : source[t] = 0
  BY DEF Init, Idle, Stopped
<1>3. PlanKept /\ Untouched
  <2>1. 1 .. Planned \subseteq Ids
    BY LimitsAssumption DEF Ids
  <2>2. QED
    BY <2>1, IdsFacts, LimitsAssumption DEF PlanKept, Untouched, Init
<1>4. AllBounded
  <2>1. MaxRevisions * runs = 0
    BY <1>2, LimitsAssumption
  <2>2. \A t \in Ids : Revised(t, source) = 0
    BY <1>1, <1>2, SourceTyped, RevisedFacts
  <2>3. QED
    BY <2>1, <2>2 DEF AllBounded
<1>5. OneRevision /\ PhaseKept /\ BranchesOwn /\ QueueOwn /\ Waiting /\ Settled /\ AllGrounded /\ Reported
  BY <1>2 DEF OneRevision, PhaseKept, BranchesOwn, Busy, QueueOwn, Waiting, Settled, Clean,
              AllGrounded, Reported
<1>6. QED
  BY <1>1, <1>3, <1>4, <1>5 DEF LInv

\* Every step keeps the lineage invariant.
LEMMA LineagesStep == LInv /\ [Next]_vars => LInv'
<1> SUFFICES ASSUME LInv, [Next]_vars PROVE LInv'
  OBVIOUS
<1>1. CASE StartRun
  BY <1>1, BeginKeepsLineages DEF StartRun
<1>2. ASSUME NEW t \in Ids, ResumeRevision(t) PROVE LInv'
  <2>1. rows[t] = "unstarted" /\ source[t] # 0 /\ Begin({t})
    BY <1>2 DEF ResumeRevision, NextRevision, IsRevision
  <2>2. QED
    BY <2>1, BeginKeepsLineages
<1>3. CASE Round
  BY <1>3, RoundKeepsLineages, DispatchKeepsLineages DEF Round
<1>4. ASSUME NEW b \in Ids, Branch(b) PROVE LInv'
  BY <1>4, BranchKeepsLineages
<1>5. IInv'
  BY InvariantStep DEF LInv
<1>6. CASE Deadline
  BY <1>5, <1>6, ClockKeepsLineages DEF Deadline
<1>7. CASE Crash
  BY <1>7, CrashKeepsLineages
<1>8. CASE UNCHANGED vars
  <2>1. UNCHANGED <<vault, run, branch, runs>>
    BY <1>8 DEF vars, vault
  <2>2. QED
    BY <1>5, <2>1, ClockKeepsLineages
<1>9. QED
  BY <1>1, <1>2, <1>3, <1>4, <1>6, <1>7, <1>8 DEF Next

\* What every lineage, branch and Command knows of the Revisions so far.
THEOREM LineageInvariance == Spec => []LInv
  BY InitLineages, LineagesStep, PTL DEF Spec

\* Racing branches keep their lineages apart and within the Revision limit of
\* every Command, and a first Command that reports completion has had every
\* planned Task approved, after however many Revisions.
THEOREM LineagesStay == Spec => []LineagesKept
<1>1. LInv => LineagesKept
  <2> SUFFICES ASSUME LInv PROVE LineagesKept
    OBVIOUS
  <2>1. /\ TypeOK /\ EvidenceChain /\ OneRevision /\ BranchesOwn /\ AllBounded /\ Reported
        /\ BranchesSupported
    BY DEF LInv, IInv
  <2>2. \A t \in Ids : lineage[t] = LineageIn(t, source)
    BY <2>1, LineageIsLeast
  <2>3. BranchKeepsItsLineage
    BY <2>1, <2>2 DEF BranchKeepsItsLineage, BranchesOwn, OwnLineage, BranchesSupported, Supported,
                      Busy, At
  <2>4. RevisionsBounded
    BY <2>1, <2>2 DEF RevisionsBounded, AllBounded, Revised
  <2>5. CompletedMeansApproved
    <3>1. 1 .. Planned \subseteq Ids
      BY LimitsAssumption DEF Ids
    <3>2. QED
      BY <2>1, <3>1, ApprovedIsApproved DEF CompletedMeansApproved, Reported
  <2>6. QED
    BY <2>3, <2>4, <2>5 DEF LineagesKept
<1> QED
  BY <1>1, LineageInvariance, PTL

\* A row leaves "unstarted" for "in_progress" in the hands of a branch that
\* is about to execute it.
LEMMA StartsFrom ==
    ASSUME LInv, [Next]_vars, NEW t \in Ids, rows[t] = "unstarted", rows'[t] = "in_progress"
    PROVE  \E b \in Ids : At(b, "execute") /\ branch[b].task = t
<1>1. PICK b \in Ids : Branch(b)
  BY DEF Next, Round, StartRun, ResumeRevision, Begin, RunFails, AllCompleted, NothingReady,
         NextBatch, Dispatch, RoundEnds, Deadline, Crash, vars, vault
<1>2. /\ IInv /\ TypeOK /\ branch[b].task \in Ids /\ rows \in [Ids -> Statuses]
  BY <1>1, BranchFrame DEF LInv, TypeOK
<1>3. t = branch[b].task
  BY <1>1, <1>2, OtherRows
<1>4. CASE StartTask(b) \/ StartRefused(b)
  BY <1>3, <1>4 DEF StartTask, StartRefused
<1>5. CASE WorkerFails(b) \/ SaveFails(b)
  BY <1>2, <1>3, <1>5 DEF WorkerFails, SaveFails, AfterFailure
<1>6. CASE CompleteTask(b) \/ CompleteFails(b)
  BY <1>2, <1>3, <1>6 DEF CompleteTask, CompleteFails
<1>7. CASE CreateTask(b)
  BY <1>2, <1>3, <1>7, CreateTaskMoves DEF CreateTask
<1>8. CASE RevisionFails(b)
  BY <1>2, <1>3, <1>8 DEF RevisionFails
<1>9. QED
  BY <1>1, <1>4, <1>5, <1>6, <1>7, <1>8
     DEF Branch, Reserve, OverBudget, WorkerReturns, SaveDeliverable, ReviewStarts, ReviewRefused,
         ReviewFails, Approve, RequestChanges, StopRevising, PlanRevision, RevisionBlocked,
         SaveIntent, IntentExists, vault

\* Within the first Command a Task starts only after the lineages it depends
\* on were approved, whatever the other branches of the round do.
THEOREM FirstGrounded == Spec => FirstStartsOnApproved
<1>1. LInv /\ [Next]_vars => [runs = 1 => StartOnApproved]_vars
  <2> SUFFICES ASSUME LInv, [Next]_vars, runs = 1, NEW t \in Ids,
                      rows[t] = "unstarted", rows'[t] = "in_progress", NEW d \in DepsOf(t)
               PROVE  approved[d]
    BY DEF StartOnApproved
  <2>1. PICK b \in Ids : At(b, "execute") /\ branch[b].task = t
    BY StartsFrom
  <2>2. Grounded(t)
    BY <2>1 DEF LInv, AllGrounded, At
  <2>3. d \in Ids /\ Approved(d)
    BY <2>2, IdsFacts DEF Grounded
  <2>4. QED
    BY <2>3, ApprovedIsApproved DEF LInv, IInv
<1> QED
  BY <1>1, LineageInvariance, PTL DEF Spec, FirstStartsOnApproved
=============================================================================
