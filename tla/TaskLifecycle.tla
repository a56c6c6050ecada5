---------------------------- MODULE TaskLifecycle ----------------------------
(***************************************************************************)
(* What a Project's Task list promises its readers: every Task is a state  *)
(* machine of its own.  It is created once, changes one version at a time  *)
(* along the transition table, keeps every version it ever had, and no     *)
(* change of one Task disturbs another.                                    *)
(***************************************************************************)
EXTENDS Task

CONSTANT Tasks

VARIABLES tasks,     \* [Tasks -> TaskRecords \cup {NoTask}]
          history    \* the record each version of each Task had

vars == <<tasks, history>>

Init ==
    /\ tasks = [t \in Tasks |-> NoTask]
    /\ history = [t \in Tasks |-> [v \in Versions |-> NoTask]]

\* The record becomes the Task's latest version.
Commit(t, rec) ==
    /\ tasks' = [tasks EXCEPT ![t] = rec]
    /\ history' = [history EXCEPT ![t][rec.version] = rec]

Create(t) ==
    /\ tasks[t] = NoTask
    /\ Commit(t, NewTask)

Change(t, kind, reason) ==
    /\ tasks[t] # NoTask
    /\ tasks[t].version < MaxVersion
    /\ CanChange(tasks[t], kind)
    /\ Commit(t, Changed(tasks[t], kind, reason))

Next ==
    \E t \in Tasks :
        \/ Create(t)
        \/ \E kind \in Changes, reason \in Reasons : Change(t, kind, reason)

Spec == Init /\ [][Next]_vars
=============================================================================
