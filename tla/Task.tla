-------------------------------- MODULE Task --------------------------------
(***************************************************************************)
(* The Task record and its changes (task/task.go, task/transition.go).     *)
(* Title and assignee never change and are left out.                       *)
(***************************************************************************)
EXTENDS Naturals

CONSTANTS Reasons,    \* failure and hold reasons (non-blank)
          NoReason,   \* the empty reason
          NoTask,     \* no row in Tasks.md
          MaxVersion  \* bound on the versions explored (uint64 in the code)

Statuses == {"unstarted", "in_progress", "completed", "on_hold"}

Versions == 1 .. MaxVersion

TaskRecords ==
    [status : Statuses, version : Versions,
     hold : Reasons \cup {NoReason}, failure : Reasons \cup {NoReason}]

ASSUME NoTaskAssumption == NoTask \notin TaskRecords
ASSUME MaxVersionAssumption == MaxVersion \in Nat \ {0}
ASSUME NoReasonAssumption == NoReason \notin Reasons

\* allowedTransitions
Transitions ==
    {<<"unstarted", "in_progress">>, <<"in_progress", "completed">>,
     <<"in_progress", "on_hold">>, <<"on_hold", "unstarted">>}

\* New: a created Task starts at version one.
NewTask ==
    [status |-> "unstarted", version |-> 1, hold |-> NoReason, failure |-> NoReason]

\* Task.transition: the target status, the next version, and a hold reason
\* only while on hold.  The last failure reason stays.
Moved(rec, target, reason) ==
    [rec EXCEPT !.status = target,
                !.version = @ + 1,
                !.hold = IF target = "on_hold" THEN reason ELSE NoReason]

\* Task.Fail: the attempt failed; the status stays in progress.
FailedAttempt(rec, reason) ==
    [rec EXCEPT !.version = @ + 1, !.failure = reason]

Changes == {"start", "complete", "fail", "hold", "resume"}

Target(kind) ==
    CASE kind = "start"    -> "in_progress"
      [] kind = "complete" -> "completed"
      [] kind = "hold"     -> "on_hold"
      [] kind = "resume"   -> "unstarted"

\* Start, Complete, Hold and Resume follow the transition table; Fail wants
\* an attempt in progress.
CanChange(rec, kind) ==
    IF kind = "fail" THEN rec.status = "in_progress"
                     ELSE <<rec.status, Target(kind)>> \in Transitions

Changed(rec, kind, reason) ==
    IF kind = "fail" THEN FailedAttempt(rec, reason)
                     ELSE Moved(rec, Target(kind), reason)
=============================================================================
