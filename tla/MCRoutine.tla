----------------------------- MODULE MCRoutine -----------------------------
(* Model-checking instance of Routine: two daemons, one operator.           *)
EXTENDS Routine

MCSchedules == 1 .. MaxTime + 1 \cup Others
MCTargets == 1 .. MaxTime + 1
MCMoments == 0 .. MaxVersion
MCPayloads == {"routine.plan", "other"}
MCCreateIds == 1 .. MaxTime + 1 \cup RepairIds
=============================================================================
