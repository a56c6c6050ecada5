------------------------------ MODULE OnceOnly ------------------------------
(***************************************************************************)
(* What the Command Ledger promises to the rest of WorkCairn: a durable    *)
(* Command is claimed once, its business effect runs at most once, and the *)
(* answer recorded for it is the outcome of that one run.  A claimed       *)
(* Command may stay unanswered for ever (its process died): the ledger     *)
(* never runs it again.                                                    *)
(***************************************************************************)
CONSTANTS Commands,   \* durable Command IDs
          Outcomes,   \* what one run of a Command can produce
          NoOutcome   \* placeholder: nothing produced yet

VARIABLES phase,      \* how far each Command has come
          produced,   \* the outcome of its business effect
          answer      \* the outcome recorded for replay

vars == <<phase, produced, answer>>

Init ==
    /\ phase = [c \in Commands |-> "unclaimed"]
    /\ produced = [c \in Commands |-> NoOutcome]
    /\ answer = [c \in Commands |-> NoOutcome]

Claim(c) ==
    /\ phase[c] = "unclaimed"
    /\ phase' = [phase EXCEPT ![c] = "claimed"]
    /\ UNCHANGED <<produced, answer>>

Execute(c, o) ==
    /\ phase[c] = "claimed"
    /\ phase' = [phase EXCEPT ![c] = "executed"]
    /\ produced' = [produced EXCEPT ![c] = o]
    /\ UNCHANGED answer

Record(c) ==
    /\ phase[c] = "executed"
    /\ phase' = [phase EXCEPT ![c] = "recorded"]
    /\ answer' = [answer EXCEPT ![c] = produced[c]]
    /\ UNCHANGED produced

Next ==
    \E c \in Commands :
        \/ Claim(c)
        \/ \E o \in Outcomes : Execute(c, o)
        \/ Record(c)

Spec == Init /\ [][Next]_vars
=============================================================================
