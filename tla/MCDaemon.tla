------------------------------ MODULE MCDaemon ------------------------------
(* Model-checking instance of Daemon.                                        *)
EXTENDS Daemon

\* A Command that may be accepted, and one that only runs synchronously.
MCOperation == [c \in Commands |-> IF c = CHOOSE x \in Commands : TRUE THEN "interaction" ELSE "recovery"]
=============================================================================
