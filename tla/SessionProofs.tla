---------------------------- MODULE SessionProofs ----------------------------
(***************************************************************************)
(* Proofs about the Commands of a Session.  In three parts: the Command    *)
(* Ledger, by which a Command runs once; the Session, whose actions each   *)
(* belong to one such run; and the Session with the Workflow runs that     *)
(* work for it and what the CEO is shown of them.  All for any number of   *)
(* Commands, callers, requests, Plans and Tasks.                           *)
(***************************************************************************)
EXTENDS Session, CommandLedger, Views, FiniteSetTheorems, SequenceTheorems, WellFoundedInduction, TLAPS

-----------------------------------------------------------------------------
(* The Command Ledger.                                                     *)
(*                                                                         *)
(* The at-most-once promise is not inductive by itself.  What carries it   *)
(* is ownership: between its claim and the end of its finish a caller is   *)
(* the only one that may touch the Command, the record is the running one  *)
(* it created, and the effect has run exactly when it is about to finish.  *)

\* The record a caller owns is the running record of its own request.
OwnerHoldsRunning ==
    \A a \in Callers : \A c \in CommandIDs :
        Owns(a, c) => ledger[c] = Running(call[a].req)

\* Before the handler ran there is no effect; after it ran, exactly one.
EffectBeforeFinish ==
    \A a \in Callers :
        /\ pc[a] = "effect" /\ call[a].cmd # BlankID => ran[call[a].cmd] = 0
        /\ pc[a] = "finish" =>
              /\ call[a].cmd # BlankID
              /\ outcome[a] \in Outcomes
              /\ ran[call[a].cmd] = 1
              /\ effect[call[a].cmd] = [request |-> call[a].req, outcome |-> outcome[a]]

\* An unclaimed Command has had no effect, and no effect means no outcome.
UnclaimedIsUntouched ==
    \A c \in CommandIDs :
        /\ ledger[c] = NoRecord => ran[c] = 0
        /\ ran[c] = 0 => effect[c].outcome = NoOutcome
        /\ ran[c] # 0 => effect[c].outcome \in Outcomes

\* ToldIsProduced, with the run counted.
ToldOnce ==
    \A a \in Callers :
        (/\ call[a].cmd # BlankID
         /\ reply[a].kind \in {"executed", "replayed", "commit_error"}) =>
            /\ ran[call[a].cmd] = 1
            /\ effect[call[a].cmd] = [request |-> call[a].req, outcome |-> reply[a].outcome]

\* Past the blank-ID shortcut a caller works on a durable Command.
IdentifiedPastCreate ==
    \A a \in Callers : pc[a] \in {"create", "get"} => call[a].cmd \in CommandIDs

LedgerInv ==
    /\ LedgerTypeOK
    /\ OwnerHoldsRunning
    /\ EffectBeforeFinish
    /\ UnclaimedIsUntouched
    /\ ToldOnce
    /\ IdentifiedPastCreate
    /\ EffectAtMostOnce
    /\ RecordedIsProduced
    /\ SingleOwner

-----------------------------------------------------------------------------
\* A placeholder is never mistaken for an outcome or a record.
LEMMA Placeholders ==
    /\ NoOutcome \notin Outcomes
    /\ NoRecord \notin LedgerRecords
    /\ \A r \in Requests : Running(r) \in LedgerRecords /\ Running(r) # NoRecord
    /\ \A r \in Requests : ~Terminal(Running(r))
    /\ ~Terminal(NoRecord)
    /\ \A r \in Requests, o \in Outcomes :
          /\ Finished(Running(r), o) \in LedgerRecords
          /\ Finished(Running(r), o).request = r
          /\ Finished(Running(r), o).outcome = o
          /\ Terminal(Finished(Running(r), o))
          /\ Finished(Running(r), o) # NoRecord
  BY DEF NoOutcome, Outcomes, TerminalStates, NoRecord, LedgerRecords, Running, Finished, Terminal

\* An answer of a known kind keeps the types of a caller's local state.
LEMMA ReturnTyped ==
    ASSUME LedgerTypeOK, NEW a \in Callers, NEW k \in ReplyKinds,
           NEW o \in Outcomes \cup {NoOutcome}, Return(a, k, o)
    PROVE  /\ pc' \in [Callers -> Sources]
           /\ reply' \in [Callers -> [kind : ReplyKinds, outcome : Outcomes \cup {NoOutcome}]]
<1>1. Reply(k, o) \in [kind : ReplyKinds, outcome : Outcomes \cup {NoOutcome}]
  BY DEF Reply
<1> QED
  BY <1>1 DEF Return, LedgerTypeOK, Sources

\* Initially nothing is claimed, run or told.
LEMMA LedgerInitHolds == LedgerInit => LedgerInv
<1> SUFFICES ASSUME LedgerInit PROVE LedgerInv
  OBVIOUS
<1>1. LedgerTypeOK
  BY DEF LedgerInit, LedgerTypeOK, NoReply, ReplyKinds, Sources
<1>2. OwnerHoldsRunning /\ EffectBeforeFinish /\ IdentifiedPastCreate /\ SingleOwner
  BY DEF LedgerInit, OwnerHoldsRunning, EffectBeforeFinish, IdentifiedPastCreate, SingleOwner, Owns
<1>3. UnclaimedIsUntouched /\ ToldOnce /\ EffectAtMostOnce
  BY DEF LedgerInit, UnclaimedIsUntouched, ToldOnce, EffectAtMostOnce, NoReply
<1>4. RecordedIsProduced
  BY Placeholders DEF LedgerInit, RecordedIsProduced
<1> QED
  BY <1>1, <1>2, <1>3, <1>4 DEF LedgerInv

\* Types are preserved by every step.
LEMMA LedgerTypeStep == LedgerInv /\ [LedgerNext]_ledgerVars => LedgerTypeOK'
<1> SUFFICES ASSUME LedgerInv, [LedgerNext]_ledgerVars PROVE LedgerTypeOK'
  OBVIOUS
<1>0. LedgerTypeOK /\ IdentifiedPastCreate /\ EffectBeforeFinish
  BY DEF LedgerInv
<1>k. "error" \in ReplyKinds /\ "executed" \in ReplyKinds /\ "commit_error" \in ReplyKinds
      /\ "conflict" \in ReplyKinds /\ "in_progress" \in ReplyKinds /\ "replayed" \in ReplyKinds
  BY DEF ReplyKinds
<1>1. ASSUME NEW a \in Callers, NEW c \in CommandIDs \cup {BlankID}, NEW r \in Requests,
             SubmitCommand(a, c, r)
      PROVE  LedgerTypeOK'
  BY <1>0, <1>1 DEF SubmitCommand, LedgerTypeOK, NoReply, ReplyKinds, Sources
<1>2. ASSUME NEW a \in Callers, CreateClaims(a)
      PROVE  LedgerTypeOK'
  BY <1>0, <1>2, Placeholders DEF CreateClaims, Goto, LedgerTypeOK, Sources, IdentifiedPastCreate
<1>3. ASSUME NEW a \in Callers, CreateClaimsButFails(a)
      PROVE  LedgerTypeOK'
  <2>1. /\ pc' \in [Callers -> Sources]
        /\ reply' \in [Callers -> [kind : ReplyKinds, outcome : Outcomes \cup {NoOutcome}]]
    BY <1>0, <1>3, <1>k, ReturnTyped DEF CreateClaimsButFails
  <2> QED
    BY <1>0, <1>3, <2>1, Placeholders DEF CreateClaimsButFails, LedgerTypeOK, IdentifiedPastCreate
<1>4. ASSUME NEW a \in Callers, CreateFails(a) \/ GetFails(a)
      PROVE  LedgerTypeOK'
  <2>1. Return(a, "error", NoOutcome) /\ UNCHANGED <<ledger, call, outcome, ran, effect>>
    BY <1>4 DEF CreateFails, GetFails
  <2>2. /\ pc' \in [Callers -> Sources]
        /\ reply' \in [Callers -> [kind : ReplyKinds, outcome : Outcomes \cup {NoOutcome}]]
    BY <1>0, <1>k, <2>1, ReturnTyped
  <2> QED
    BY <1>0, <2>1, <2>2 DEF LedgerTypeOK
<1>5. ASSUME NEW a \in Callers, CreateFindsExisting(a)
      PROVE  LedgerTypeOK'
  BY <1>0, <1>5 DEF CreateFindsExisting, Goto, LedgerTypeOK, Sources
<1>6. ASSUME NEW a \in Callers, GetExisting(a)
      PROVE  LedgerTypeOK'
  <2>1. /\ call[a].cmd \in CommandIDs
        /\ UNCHANGED <<ledger, call, outcome, ran, effect>>
    BY <1>0, <1>6 DEF GetExisting, IdentifiedPastCreate
  <2>2. ledger[call[a].cmd].outcome \in Outcomes \cup {NoOutcome}
    BY <1>0, <2>1 DEF LedgerTypeOK, LedgerRecords, NoRecord
  <2>3. /\ pc' \in [Callers -> Sources]
        /\ reply' \in [Callers -> [kind : ReplyKinds, outcome : Outcomes \cup {NoOutcome}]]
    BY <1>0, <1>6, <1>k, <2>2, ReturnTyped DEF GetExisting
  <2> QED
    BY <1>0, <2>1, <2>3 DEF LedgerTypeOK
<1>7. ASSUME NEW a \in Callers, NEW o \in Outcomes, RunEffect(a, o)
      PROVE  LedgerTypeOK'
  <2>0. outcome' \in [Callers -> Outcomes \cup {NoOutcome}] /\ UNCHANGED <<ledger, call>>
    BY <1>0, <1>7 DEF RunEffect, LedgerTypeOK
  <2>1. CASE call[a].cmd = BlankID
    <3>1. Return(a, "executed", o) /\ UNCHANGED <<ran, effect>>
      BY <1>7, <2>1 DEF RunEffect
    <3>2. /\ pc' \in [Callers -> Sources]
          /\ reply' \in [Callers -> [kind : ReplyKinds, outcome : Outcomes \cup {NoOutcome}]]
      BY <1>0, <1>k, <3>1, ReturnTyped
    <3> QED
      BY <1>0, <2>0, <3>1, <3>2 DEF LedgerTypeOK
  <2>2. CASE call[a].cmd # BlankID
    <3>1. call[a].cmd \in CommandIDs /\ call[a].req \in Requests
      BY <1>0, <2>2 DEF LedgerTypeOK
    <3>2. ran' \in [CommandIDs -> Nat]
      BY <1>0, <1>7, <2>2, <3>1 DEF RunEffect, LedgerTypeOK
    <3>3. effect' \in [CommandIDs -> [request : Requests \cup {"none"},
                                      outcome : Outcomes \cup {NoOutcome}]]
      BY <1>0, <1>7, <2>2, <3>1 DEF RunEffect, LedgerTypeOK
    <3>4. pc' \in [Callers -> Sources] /\ UNCHANGED reply
      BY <1>0, <1>7, <2>2 DEF RunEffect, Goto, LedgerTypeOK, Sources
    <3> QED
      BY <1>0, <2>0, <3>2, <3>3, <3>4 DEF LedgerTypeOK
  <2> QED
    BY <2>1, <2>2
<1>8. ASSUME NEW a \in Callers, FinishRecords(a)
      PROVE  LedgerTypeOK'
  <2>1. outcome[a] \in Outcomes /\ call[a].req \in Requests
    BY <1>0, <1>8 DEF FinishRecords, EffectBeforeFinish, LedgerTypeOK
  <2>2. /\ pc' \in [Callers -> Sources]
        /\ reply' \in [Callers -> [kind : ReplyKinds, outcome : Outcomes \cup {NoOutcome}]]
    BY <1>0, <1>8, <1>k, <2>1, ReturnTyped DEF FinishRecords
  <2> QED
    BY <1>0, <1>8, <2>1, <2>2, Placeholders DEF FinishRecords, LedgerTypeOK
<1>9. ASSUME NEW a \in Callers, FinishFails(a)
      PROVE  LedgerTypeOK'
  <2>1. outcome[a] \in Outcomes
    BY <1>0, <1>9 DEF FinishFails, EffectBeforeFinish
  <2>2. /\ pc' \in [Callers -> Sources]
        /\ reply' \in [Callers -> [kind : ReplyKinds, outcome : Outcomes \cup {NoOutcome}]]
    BY <1>0, <1>9, <1>k, <2>1, ReturnTyped DEF FinishFails
  <2> QED
    BY <1>0, <1>9, <2>2 DEF FinishFails, LedgerTypeOK
<1>10. ASSUME NEW a \in Callers, Crash(a)
       PROVE  LedgerTypeOK'
  BY <1>0, <1>10 DEF Crash, NoReply, LedgerTypeOK, Sources, ReplyKinds
<1>11. CASE UNCHANGED ledgerVars
  BY <1>0, <1>11 DEF ledgerVars, LedgerTypeOK
<1> QED
  BY <1>1, <1>2, <1>3, <1>4, <1>5, <1>6, <1>7, <1>8, <1>9, <1>10, <1>11 DEF LedgerNext, CallerStep

-----------------------------------------------------------------------------
\* The part of IInv that speaks of the shared files and the history.
Facts ==
    /\ OwnerHoldsRunning
    /\ EffectBeforeFinish
    /\ UnclaimedIsUntouched
    /\ ToldOnce
    /\ IdentifiedPastCreate
    /\ EffectAtMostOnce
    /\ RecordedIsProduced
    /\ SingleOwner

\* A step of one caller that leaves the files and the history alone, owns
\* nothing new afterwards and tells nothing new, preserves every fact.
LEMMA QuietStep ==
    ASSUME LedgerInv, NEW a \in Callers,
           UNCHANGED <<ledger, ran, effect, call>>,
           \A b \in Callers \ {a} : /\ pc'[b] = pc[b]
                                     /\ outcome'[b] = outcome[b]
                                     /\ reply'[b] = reply[b],
           pc'[a] \in {"idle", "replied"} \/ (pc[a] = "create" /\ pc'[a] = "get"),
           \/ reply'[a].kind \notin {"executed", "replayed", "commit_error"}
           \/ reply'[a] = reply[a]
           \/ /\ call[a].cmd # BlankID
              /\ ran[call[a].cmd] = 1
              /\ effect[call[a].cmd] = [request |-> call[a].req, outcome |-> reply'[a].outcome]
    PROVE  Facts'
<1>1. OwnerHoldsRunning' /\ SingleOwner'
  BY DEF LedgerInv, OwnerHoldsRunning, SingleOwner, Owns
<1>2. EffectBeforeFinish' /\ IdentifiedPastCreate'
  BY DEF LedgerInv, EffectBeforeFinish, IdentifiedPastCreate
<1>3. UnclaimedIsUntouched' /\ EffectAtMostOnce' /\ RecordedIsProduced'
  BY DEF LedgerInv, UnclaimedIsUntouched, EffectAtMostOnce, RecordedIsProduced
<1>4. ToldOnce'
  BY DEF LedgerInv, ToldOnce
<1> QED
  BY <1>1, <1>2, <1>3, <1>4 DEF Facts

\* A new call owns nothing until its Create, and was told nothing.
LEMMA SubmitStep ==
    ASSUME LedgerInv, NEW a \in Callers, NEW c \in CommandIDs \cup {BlankID},
           NEW r \in Requests, SubmitCommand(a, c, r)
    PROVE  Facts'
<1>0. LedgerTypeOK /\ UNCHANGED <<ledger, ran, effect>>
  BY DEF LedgerInv, SubmitCommand
<1>1. \A b \in Callers \ {a} : pc'[b] = pc[b] /\ outcome'[b] = outcome[b]
                               /\ reply'[b] = reply[b] /\ call'[b] = call[b]
  BY <1>0 DEF SubmitCommand, LedgerTypeOK
<1>2. /\ call'[a].cmd = c
      /\ pc'[a] = IF c = BlankID THEN "effect" ELSE "create"
      /\ reply'[a] = NoReply
  BY <1>0 DEF SubmitCommand, LedgerTypeOK
<1>3. OwnerHoldsRunning' /\ SingleOwner'
  BY <1>0, <1>1, <1>2, CommandIDsAssumption DEF LedgerInv, OwnerHoldsRunning, SingleOwner, Owns
<1>4. EffectBeforeFinish' /\ IdentifiedPastCreate'
  BY <1>0, <1>1, <1>2 DEF LedgerInv, EffectBeforeFinish, IdentifiedPastCreate
<1>5. UnclaimedIsUntouched' /\ EffectAtMostOnce' /\ RecordedIsProduced'
  BY <1>0 DEF LedgerInv, UnclaimedIsUntouched, EffectAtMostOnce, RecordedIsProduced
<1>6. ToldOnce'
  BY <1>0, <1>1, <1>2 DEF LedgerInv, ToldOnce, NoReply
<1> QED
  BY <1>3, <1>4, <1>5, <1>6 DEF Facts

\* A claim finds no record, so nobody owns the Command and nothing ran.
LEMMA ClaimStep ==
    ASSUME LedgerInv, NEW a \in Callers, CreateClaims(a) \/ CreateClaimsButFails(a)
    PROVE  Facts'
<1> DEFINE k == call[a].cmd
<1>0. /\ LedgerTypeOK /\ pc[a] = "create" /\ k \in CommandIDs /\ call[a].req \in Requests
      /\ UNCHANGED <<call, outcome, ran, effect>>
      /\ ledger[k] = NoRecord /\ ran[k] = 0
      /\ ledger' = [ledger EXCEPT ![k] = Running(call[a].req)]
  BY DEF LedgerInv, LedgerTypeOK, IdentifiedPastCreate, UnclaimedIsUntouched, CreateClaims, CreateClaimsButFails
<1>1. \A b \in Callers \ {a} : pc'[b] = pc[b] /\ reply'[b] = reply[b]
  BY <1>0 DEF CreateClaims, CreateClaimsButFails, Goto, Return, LedgerTypeOK
<1>2. /\ pc'[a] \in {"effect", "replied"}
      /\ reply'[a] = reply[a] \/ reply'[a].kind = "error"
  BY <1>0 DEF CreateClaims, CreateClaimsButFails, Goto, Return, Reply, LedgerTypeOK
<1>3. /\ ledger'[k] = Running(call[a].req)
      /\ \A c \in CommandIDs \ {k} : ledger'[c] = ledger[c]
  BY <1>0 DEF LedgerTypeOK
<1>4. \A b \in Callers : ~Owns(b, k)
  BY <1>0, Placeholders DEF LedgerInv, OwnerHoldsRunning, LedgerTypeOK
<1>5. OwnerHoldsRunning'
  BY <1>0, <1>1, <1>2, <1>3, <1>4 DEF LedgerInv, OwnerHoldsRunning, Owns
<1>6. SingleOwner'
  BY <1>0, <1>1, <1>2, <1>4 DEF LedgerInv, SingleOwner, Owns
<1>7. EffectBeforeFinish' /\ IdentifiedPastCreate'
  BY <1>0, <1>1, <1>2 DEF LedgerInv, EffectBeforeFinish, IdentifiedPastCreate
<1>8. UnclaimedIsUntouched' /\ EffectAtMostOnce' /\ RecordedIsProduced'
  BY <1>0, <1>3, Placeholders DEF LedgerInv, UnclaimedIsUntouched, EffectAtMostOnce, RecordedIsProduced
<1>9. ToldOnce'
  BY <1>0, <1>1, <1>2 DEF LedgerInv, ToldOnce
<1> QED
  BY <1>5, <1>6, <1>7, <1>8, <1>9 DEF Facts

\* The owner runs the handler: the run it makes is the first one.
LEMMA EffectStep ==
    ASSUME LedgerInv, NEW a \in Callers, NEW o \in Outcomes, RunEffect(a, o)
    PROVE  Facts'
<1> DEFINE k == call[a].cmd
<1>0. LedgerTypeOK /\ pc[a] = "effect" /\ UNCHANGED <<ledger, call>>
      /\ outcome' = [outcome EXCEPT ![a] = o]
  BY DEF LedgerInv, RunEffect
<1>1. CASE k = BlankID
  <2>1. UNCHANGED <<ran, effect>> /\ Return(a, "executed", o)
    BY <1>1 DEF RunEffect
  <2>2. /\ \A b \in Callers \ {a} : pc'[b] = pc[b] /\ reply'[b] = reply[b] /\ outcome'[b] = outcome[b]
        /\ pc'[a] = "replied"
    BY <1>0, <2>1 DEF Return, LedgerTypeOK
  <2>3. OwnerHoldsRunning' /\ SingleOwner'
    BY <1>0, <2>2 DEF LedgerInv, OwnerHoldsRunning, SingleOwner, Owns
  <2>4. EffectBeforeFinish' /\ IdentifiedPastCreate'
    BY <1>0, <2>1, <2>2 DEF LedgerInv, EffectBeforeFinish, IdentifiedPastCreate
  <2>5. UnclaimedIsUntouched' /\ EffectAtMostOnce' /\ RecordedIsProduced'
    BY <1>0, <2>1 DEF LedgerInv, UnclaimedIsUntouched, EffectAtMostOnce, RecordedIsProduced
  <2>6. ToldOnce'
    BY <1>0, <1>1, <2>1, <2>2 DEF LedgerInv, ToldOnce
  <2> QED
    BY <2>3, <2>4, <2>5, <2>6 DEF Facts
<1>2. CASE k # BlankID
  <2>1. /\ k \in CommandIDs /\ call[a].req \in Requests /\ ran[k] = 0 /\ Owns(a, k)
        /\ ledger[k] = Running(call[a].req)
    BY <1>0, <1>2 DEF LedgerInv, EffectBeforeFinish, OwnerHoldsRunning, Owns, LedgerTypeOK
  <2>2. /\ ran' = [ran EXCEPT ![k] = @ + 1]
        /\ effect' = [effect EXCEPT ![k] = [request |-> call[a].req, outcome |-> o]]
        /\ Goto(a, "finish")
    BY <1>2 DEF RunEffect
  <2>3. /\ ran'[k] = 1 /\ effect'[k] = [request |-> call[a].req, outcome |-> o]
        /\ \A c \in CommandIDs \ {k} : ran'[c] = ran[c] /\ effect'[c] = effect[c]
    BY <1>0, <2>1, <2>2 DEF LedgerTypeOK
  <2>4. /\ \A b \in Callers \ {a} : pc'[b] = pc[b] /\ outcome'[b] = outcome[b]
        /\ pc'[a] = "finish" /\ outcome'[a] = o /\ UNCHANGED reply
    BY <1>0, <2>2 DEF Goto, LedgerTypeOK
  <2>5. \A b \in Callers \ {a} : pc[b] \in {"effect", "finish"} => call[b].cmd # k
    BY <2>1 DEF LedgerInv, SingleOwner, Owns
  <2>6. OwnerHoldsRunning' /\ SingleOwner'
    BY <1>0, <2>1, <2>4, <2>5 DEF LedgerInv, OwnerHoldsRunning, SingleOwner, Owns
  <2>7. EffectBeforeFinish' /\ IdentifiedPastCreate'
    BY <1>0, <1>2, <2>3, <2>4, <2>5 DEF LedgerInv, EffectBeforeFinish, IdentifiedPastCreate, LedgerTypeOK
  <2>8. UnclaimedIsUntouched' /\ EffectAtMostOnce' /\ RecordedIsProduced'
    BY <1>0, <2>1, <2>3, Placeholders
    DEF LedgerInv, UnclaimedIsUntouched, EffectAtMostOnce, RecordedIsProduced
  <2>9. ToldOnce'
    BY <1>0, <2>1, <2>3, <2>4 DEF LedgerInv, ToldOnce, LedgerTypeOK
  <2> QED
    BY <2>6, <2>7, <2>8, <2>9 DEF Facts
<1> QED
  BY <1>1, <1>2

\* The owner finishes: the record becomes terminal with what it produced.
LEMMA FinishStep ==
    ASSUME LedgerInv, NEW a \in Callers, FinishRecords(a)
    PROVE  Facts'
<1> DEFINE k == call[a].cmd
           new == Finished(Running(call[a].req), outcome[a])
<1>0. /\ LedgerTypeOK /\ pc[a] = "finish" /\ UNCHANGED <<call, outcome, ran, effect>>
      /\ ledger' = [ledger EXCEPT ![k] = new]
  BY DEF LedgerInv, FinishRecords
<1>1. /\ k \in CommandIDs /\ call[a].req \in Requests /\ outcome[a] \in Outcomes
      /\ ran[k] = 1 /\ effect[k] = [request |-> call[a].req, outcome |-> outcome[a]]
      /\ Owns(a, k)
  BY <1>0 DEF LedgerInv, EffectBeforeFinish, Owns, LedgerTypeOK
<1>2. /\ ledger'[k] = new
      /\ \A c \in CommandIDs \ {k} : ledger'[c] = ledger[c]
  BY <1>0, <1>1 DEF LedgerTypeOK
<1>3. /\ \A b \in Callers \ {a} : pc'[b] = pc[b] /\ reply'[b] = reply[b]
      /\ pc'[a] = "replied" /\ reply'[a].outcome = outcome[a]
  BY <1>0 DEF FinishRecords, Return, Reply, LedgerTypeOK
<1>4. \A b \in Callers \ {a} : ~Owns(b, k)
  BY <1>1 DEF LedgerInv, SingleOwner
<1>5. OwnerHoldsRunning' /\ SingleOwner'
  BY <1>0, <1>2, <1>3, <1>4 DEF LedgerInv, OwnerHoldsRunning, SingleOwner, Owns
<1>6. EffectBeforeFinish' /\ IdentifiedPastCreate'
  BY <1>0, <1>3 DEF LedgerInv, EffectBeforeFinish, IdentifiedPastCreate
<1>7. UnclaimedIsUntouched' /\ EffectAtMostOnce' /\ RecordedIsProduced'
  BY <1>0, <1>1, <1>2, Placeholders
  DEF LedgerInv, UnclaimedIsUntouched, EffectAtMostOnce, RecordedIsProduced
<1>8. ToldOnce'
  BY <1>0, <1>1, <1>3 DEF LedgerInv, ToldOnce
<1> QED
  BY <1>5, <1>6, <1>7, <1>8 DEF Facts

-----------------------------------------------------------------------------
\* The steps that leave the files and the history alone.
LEMMA OtherSteps ==
    ASSUME LedgerInv, NEW a \in Callers,
           \/ CreateFails(a) \/ CreateFindsExisting(a) \/ GetExisting(a)
           \/ GetFails(a) \/ FinishFails(a) \/ Crash(a)
    PROVE  Facts'
<1>0. LedgerTypeOK /\ UNCHANGED <<ledger, ran, effect, call>>
  BY DEF LedgerInv, CreateFails, CreateFindsExisting, GetExisting, GetFails, FinishFails, Crash
<1>1. CASE CreateFails(a) \/ GetFails(a)
  <2>1. Return(a, "error", NoOutcome) /\ UNCHANGED outcome
    BY <1>1 DEF CreateFails, GetFails
  <2> QED
    BY <1>0, <2>1, QuietStep DEF Return, Reply, LedgerTypeOK
<1>2. CASE CreateFindsExisting(a)
  BY <1>0, <1>2, QuietStep DEF CreateFindsExisting, Goto, LedgerTypeOK
<1>3. CASE GetExisting(a)
  <2> DEFINE k == call[a].cmd
  <2>1. k \in CommandIDs /\ UNCHANGED outcome
    BY <1>0, <1>3 DEF GetExisting, LedgerInv, IdentifiedPastCreate
  <2>2. CASE Return(a, "conflict", NoOutcome) \/ Return(a, "in_progress", NoOutcome)
    <3>1. pc'[a] = "replied" /\ reply'[a].kind \in {"conflict", "in_progress"}
      BY <1>0, <2>2 DEF Return, Reply, LedgerTypeOK
    <3>2. \A b \in Callers \ {a} : pc'[b] = pc[b] /\ outcome'[b] = outcome[b] /\ reply'[b] = reply[b]
      BY <1>0, <2>1, <2>2 DEF Return, LedgerTypeOK
    <3> QED
      BY <1>0, <3>1, <3>2, QuietStep
  <2>3. CASE /\ Return(a, "replayed", ledger[k].outcome)
             /\ Terminal(ledger[k])
             /\ ledger[k].request = call[a].req
    <3>1. /\ ran[k] = 1
          /\ effect[k] = [request |-> call[a].req, outcome |-> ledger[k].outcome]
      BY <2>1, <2>3 DEF LedgerInv, RecordedIsProduced
    <3>2. pc'[a] = "replied" /\ reply'[a].outcome = ledger[k].outcome
      BY <1>0, <2>3 DEF Return, Reply, LedgerTypeOK
    <3>3. \A b \in Callers \ {a} : pc'[b] = pc[b] /\ outcome'[b] = outcome[b] /\ reply'[b] = reply[b]
      BY <1>0, <2>1, <2>3 DEF Return, LedgerTypeOK
    <3> QED
      BY <1>0, <2>1, <3>1, <3>2, <3>3, QuietStep, CommandIDsAssumption
  <2> QED
    BY <1>3, <2>2, <2>3 DEF GetExisting
<1>4. CASE FinishFails(a)
  <2>1. /\ call[a].cmd # BlankID
        /\ ran[call[a].cmd] = 1
        /\ effect[call[a].cmd] = [request |-> call[a].req, outcome |-> outcome[a]]
    BY <1>4 DEF FinishFails, LedgerInv, EffectBeforeFinish
  <2>2. pc'[a] = "replied" /\ reply'[a].outcome = outcome[a]
    BY <1>0, <1>4 DEF FinishFails, Return, Reply, LedgerTypeOK
  <2>3. \A b \in Callers \ {a} : pc'[b] = pc[b] /\ outcome'[b] = outcome[b] /\ reply'[b] = reply[b]
    BY <1>0, <1>4 DEF FinishFails, Return, LedgerTypeOK
  <2>4. effect[call[a].cmd] = [request |-> call[a].req, outcome |-> reply'[a].outcome]
    BY <2>1, <2>2
  <2>5. pc'[a] \in {"idle", "replied"}
    BY <2>2
  <2> QED
    BY <1>0, <2>1, <2>3, <2>4, <2>5, QuietStep
<1>5. CASE Crash(a)
  BY <1>0, <1>5, QuietStep DEF Crash, NoReply, LedgerTypeOK
<1> QED
  BY <1>1, <1>2, <1>3, <1>4, <1>5

LEMMA InvariantStep == LedgerInv /\ [LedgerNext]_ledgerVars => LedgerInv'
<1> SUFFICES ASSUME LedgerInv, [LedgerNext]_ledgerVars PROVE LedgerInv'
  OBVIOUS
<1>1. LedgerTypeOK'
  BY LedgerTypeStep
<1>2. ASSUME UNCHANGED ledgerVars PROVE Facts'
  BY <1>2 DEF ledgerVars, LedgerInv, Facts, OwnerHoldsRunning, EffectBeforeFinish, UnclaimedIsUntouched,
              ToldOnce, IdentifiedPastCreate, EffectAtMostOnce, RecordedIsProduced,
              SingleOwner, Owns
<1>3. ASSUME LedgerNext PROVE Facts'
  <2>1. ASSUME NEW a \in Callers, CallerStep(a) PROVE Facts'
    BY <2>1, ClaimStep, EffectStep, FinishStep, OtherSteps DEF CallerStep
  <2> QED
    BY <1>3, <2>1, SubmitStep, OtherSteps DEF LedgerNext
<1>4. Facts'
  BY <1>2, <1>3
<1> QED
  BY <1>1, <1>4 DEF Facts, LedgerInv

\* Every reachable state satisfies the inductive invariant.
THEOREM LedgerInvariance == LedgerSpec => []LedgerInv
  BY LedgerInitHolds, InvariantStep, PTL DEF LedgerSpec

\* Types: the record, call and reply of every caller stay well formed.
THEOREM LedgerTypeCorrect == LedgerSpec => []LedgerTypeOK
<1>1. LedgerInv => LedgerTypeOK
  BY DEF LedgerInv
<1> QED
  BY <1>1, LedgerInvariance, PTL

\* For any number of callers, retries and crashes, the business effect of a
\* durable Command runs at most once (Begin claims before business effects).
THEOREM AtMostOnce == LedgerSpec => []EffectAtMostOnce
<1>1. LedgerInv => EffectAtMostOnce
  BY DEF LedgerInv
<1> QED
  BY <1>1, LedgerInvariance, PTL

\* A terminal record always states what the one run produced.
THEOREM RecordFaithful == LedgerSpec => []RecordedIsProduced
<1>1. LedgerInv => RecordedIsProduced
  BY DEF LedgerInv
<1> QED
  BY <1>1, LedgerInvariance, PTL

\* First answers and replays alike tell the outcome of the one run.
THEOREM AnswerFaithful == LedgerSpec => []ToldIsProduced
<1>1. LedgerInv => ToldIsProduced
  BY DEF LedgerInv, ToldOnce, ToldIsProduced
<1> QED
  BY <1>1, LedgerInvariance, PTL

\* No two callers are ever between claim and finish of the same Command.
THEOREM OneOwner == LedgerSpec => []SingleOwner
<1>1. LedgerInv => SingleOwner
  BY DEF LedgerInv
<1> QED
  BY <1>1, LedgerInvariance, PTL

-----------------------------------------------------------------------------
\* The step of one caller changes the file and the run count of at most the
\* Command it works on, and only when it finds no record or owns it.
LEMMA StepFootprint ==
    ASSUME LedgerInv, [LedgerNext]_ledgerVars, NEW c \in CommandIDs,
           ledger[c] # NoRecord, \A a \in Callers : ~Owns(a, c)
    PROVE  ledger'[c] = ledger[c] /\ ran'[c] = ran[c]
<1>0. LedgerTypeOK
  BY DEF LedgerInv
<1>1. CASE UNCHANGED ledgerVars
  BY <1>1 DEF ledgerVars
<1>2. ASSUME NEW a \in Callers, CreateClaims(a) \/ CreateClaimsButFails(a)
      PROVE  ledger'[c] = ledger[c] /\ ran'[c] = ran[c]
  <2>1. /\ ledger[call[a].cmd] = NoRecord /\ UNCHANGED ran
        /\ ledger' = [ledger EXCEPT ![call[a].cmd] = Running(call[a].req)]
    BY <1>2 DEF CreateClaims, CreateClaimsButFails
  <2> QED
    BY <1>0, <2>1 DEF LedgerTypeOK
<1>3. ASSUME NEW a \in Callers, NEW o \in Outcomes, RunEffect(a, o)
      PROVE  ledger'[c] = ledger[c] /\ ran'[c] = ran[c]
  BY <1>0, <1>3 DEF RunEffect, Owns, LedgerTypeOK
<1>4. ASSUME NEW a \in Callers, FinishRecords(a)
      PROVE  ledger'[c] = ledger[c] /\ ran'[c] = ran[c]
  BY <1>0, <1>4 DEF FinishRecords, Owns, LedgerTypeOK
<1>5. ASSUME NEW a \in Callers,
             \/ CreateFails(a) \/ CreateFindsExisting(a) \/ GetExisting(a)
             \/ GetFails(a) \/ FinishFails(a) \/ Crash(a)
             \/ \E k \in CommandIDs \cup {BlankID}, r \in Requests : SubmitCommand(a, k, r)
      PROVE  ledger'[c] = ledger[c] /\ ran'[c] = ran[c]
  BY <1>5 DEF CreateFails, CreateFindsExisting, GetExisting, GetFails, FinishFails, Crash, SubmitCommand
<1> QED
  BY <1>1, <1>2, <1>3, <1>4, <1>5 DEF LedgerNext, CallerStep

\* Nobody comes to own a Command that is recorded already.
LEMMA NoTakeover ==
    ASSUME LedgerInv, [LedgerNext]_ledgerVars, NEW c \in CommandIDs,
           ledger[c] # NoRecord, \A a \in Callers : ~Owns(a, c)
    PROVE  \A a \in Callers : ~Owns(a, c)'
<1>0. LedgerTypeOK
  BY DEF LedgerInv
<1>1. CASE UNCHANGED ledgerVars
  BY <1>1 DEF ledgerVars, Owns
<1>2. ASSUME NEW b \in Callers, NEW k \in CommandIDs \cup {BlankID}, NEW r \in Requests,
             SubmitCommand(b, k, r)
      PROVE  \A a \in Callers : ~Owns(a, c)'
  BY <1>0, <1>2, CommandIDsAssumption DEF SubmitCommand, Owns, LedgerTypeOK
<1>3. ASSUME NEW b \in Callers, CreateClaims(b)
      PROVE  \A a \in Callers : ~Owns(a, c)'
  <2>1. call[b].cmd # c /\ UNCHANGED call /\ pc' = [pc EXCEPT ![b] = "effect"]
    BY <1>3 DEF CreateClaims, Goto
  <2> QED
    BY <1>0, <2>1 DEF Owns, LedgerTypeOK
<1>4. ASSUME NEW b \in Callers, NEW o \in Outcomes, RunEffect(b, o)
      PROVE  \A a \in Callers : ~Owns(a, c)'
  <2>1. call[b].cmd # c /\ UNCHANGED call
    BY <1>4 DEF RunEffect, Owns
  <2>2. \A a \in Callers \ {b} : pc'[a] = pc[a]
    BY <1>0, <1>4 DEF RunEffect, Return, Goto, LedgerTypeOK
  <2> QED
    BY <2>1, <2>2 DEF Owns
<1>5. ASSUME NEW b \in Callers,
             \/ CreateClaimsButFails(b) \/ CreateFails(b) \/ CreateFindsExisting(b)
             \/ GetExisting(b) \/ GetFails(b) \/ FinishRecords(b) \/ FinishFails(b)
             \/ Crash(b)
      PROVE  \A a \in Callers : ~Owns(a, c)'
  <2>1. UNCHANGED call /\ \E l \in {"get", "replied", "idle"} : pc' = [pc EXCEPT ![b] = l]
    BY <1>5 DEF CreateClaimsButFails, CreateFails, CreateFindsExisting, GetExisting,
                GetFails, FinishRecords, FinishFails, Crash, Return, Goto
  <2> QED
    BY <1>0, <2>1 DEF Owns, LedgerTypeOK
<1> QED
  BY <1>1, <1>2, <1>3, <1>4, <1>5 DEF LedgerNext, CallerStep

\* A running record without an owner is never resumed nor finished, and its
\* effect never runs, by a new owner or otherwise (Begin: running records are never automatically resumed).
THEOREM OrphansStay == LedgerSpec => OrphanNeverResumed
<1>1. LedgerInv /\ [LedgerNext]_ledgerVars =>
        [\A c \in CommandIDs :
          (/\ ledger[c] # NoRecord
           /\ \A a \in Callers : ~Owns(a, c))
             => /\ ledger'[c] = ledger[c]
                /\ ran'[c] = ran[c]
                /\ \A a \in Callers : ~Owns(a, c)']_ledgerVars
  BY StepFootprint, NoTakeover
<1> QED
  BY <1>1, LedgerInvariance, PTL DEF LedgerSpec, OrphanNeverResumed

-----------------------------------------------------------------------------
\* A step that leaves files and history alone is a stutter of OnceOnly.
LEMMA QuietMapping ==
    ASSUME UNCHANGED <<ledger, ran, effect>>
    PROVE  UNCHANGED Once!vars
  BY DEF Once!vars, Phase, Terminal

\* Create is the abstract Claim.
LEMMA ClaimMapping ==
    ASSUME LedgerInv, NEW a \in Callers, NEW k \in CommandIDs, call[a].cmd = k,
           CreateClaims(a) \/ CreateClaimsButFails(a)
    PROVE  Once!Claim(k)
<1>1. /\ call[a].req \in Requests
      /\ UNCHANGED <<ran, effect>>
      /\ ledger[k] = NoRecord /\ ran[k] = 0
      /\ ledger' = [ledger EXCEPT ![k] = Running(call[a].req)]
      /\ ledger \in [CommandIDs -> LedgerRecords \cup {NoRecord}]
  BY DEF LedgerInv, LedgerTypeOK, IdentifiedPastCreate, UnclaimedIsUntouched, CreateClaims, CreateClaimsButFails
<1>2. /\ Phase(k) = "unclaimed" /\ Phase(k)' = "claimed"
      /\ ledger'[k].outcome = ledger[k].outcome
  BY <1>1, Placeholders DEF Phase, Running, NoRecord
<1>3. \A c \in CommandIDs \ {k} : Phase(c)' = Phase(c) /\ ledger'[c] = ledger[c]
  BY <1>1 DEF Phase, Terminal
<1> QED
  BY <1>1, <1>2, <1>3 DEF Once!Claim

\* The handler's run is the abstract Execute.
LEMMA EffectMapping ==
    ASSUME LedgerInv, NEW a \in Callers, NEW k \in CommandIDs, call[a].cmd = k,
           NEW o \in Outcomes, RunEffect(a, o)
    PROVE  Once!Execute(k, o)
<1>1. /\ call[a].req \in Requests /\ UNCHANGED ledger
      /\ ran[k] = 0 /\ ledger[k] = Running(call[a].req)
      /\ ran \in [CommandIDs -> Nat]
      /\ effect \in [CommandIDs -> [request : Requests \cup {"none"},
                                    outcome : Outcomes \cup {NoOutcome}]]
  BY CommandIDsAssumption DEF LedgerInv, LedgerTypeOK, EffectBeforeFinish, OwnerHoldsRunning, Owns, RunEffect
<1>2. /\ ran' = [ran EXCEPT ![k] = @ + 1]
      /\ effect' = [effect EXCEPT ![k] = [request |-> call[a].req, outcome |-> o]]
  BY CommandIDsAssumption DEF RunEffect
<1>3. ran'[k] = 1 /\ effect'[k].outcome = o
  BY <1>1, <1>2
<1>4. \A c \in CommandIDs \ {k} : ran'[c] = ran[c] /\ effect'[c] = effect[c]
  BY <1>1, <1>2
<1>5. Phase(k) = "claimed" /\ Phase(k)' = "executed"
  BY <1>1, <1>3, Placeholders DEF Phase, Terminal
<1>6. \A c \in CommandIDs \ {k} : Phase(c)' = Phase(c)
  BY <1>1, <1>4 DEF Phase, Terminal
<1> QED
  BY <1>1, <1>3, <1>4, <1>5, <1>6 DEF Once!Execute

\* A Finish that reaches the file is the abstract Record.
LEMMA FinishMapping ==
    ASSUME LedgerInv, NEW a \in Callers, NEW k \in CommandIDs, call[a].cmd = k,
           FinishRecords(a)
    PROVE  Once!Record(k)
<1> DEFINE new == Finished(Running(call[a].req), outcome[a])
<1>0. pc[a] = "finish" /\ UNCHANGED <<ran, effect>> /\ ledger' = [ledger EXCEPT ![k] = new]
  BY DEF FinishRecords
<1>a. /\ outcome[a] \in Outcomes /\ ran[k] = 1
      /\ effect[k] = [request |-> call[a].req, outcome |-> outcome[a]]
  BY <1>0 DEF LedgerInv, EffectBeforeFinish
<1>b. ledger[k] = Running(call[a].req)
  BY <1>0 DEF LedgerInv, OwnerHoldsRunning, Owns
<1>c. call[a].req \in Requests /\ ledger \in [CommandIDs -> LedgerRecords \cup {NoRecord}]
  BY DEF LedgerInv, LedgerTypeOK
<1>2. ledger'[k] = new /\ \A c \in CommandIDs \ {k} : ledger'[c] = ledger[c]
  BY <1>0, <1>c
<1>3. Phase(k) = "executed" /\ Phase(k)' = "recorded" /\ ledger'[k].outcome = outcome[a]
  BY <1>0, <1>a, <1>b, <1>c, <1>2, Placeholders DEF Phase, Terminal
<1>4. \A c \in CommandIDs \ {k} : Phase(c)' = Phase(c)
  BY <1>0, <1>2 DEF Phase, Terminal
<1>5. effect[k].outcome = outcome[a]
  BY <1>a
<1>6. \A c \in CommandIDs :
         ledger'[c].outcome = IF c = k THEN effect[k].outcome ELSE ledger[c].outcome
  BY <1>2, <1>3, <1>5
<1>7. /\ [c \in CommandIDs |-> Phase(c)]' = [[c \in CommandIDs |-> Phase(c)] EXCEPT ![k] = "recorded"]
      /\ [c \in CommandIDs |-> ledger[c].outcome]' =
            [[c \in CommandIDs |-> ledger[c].outcome] EXCEPT ![k] = effect[k].outcome]
  BY <1>3, <1>4, <1>6
<1> QED
  BY <1>0, <1>3, <1>7 DEF Once!Record

\* The Command Ledger implements OnceOnly for any number of callers.
THEOREM LedgerImplementsOnceOnly == LedgerSpec => ImplementsOnceOnly
<1>1. LedgerInit => Once!Init
  <2> SUFFICES ASSUME LedgerInit PROVE Once!Init
    OBVIOUS
  <2>1. \A c \in CommandIDs : Phase(c) = "unclaimed"
    BY DEF LedgerInit, Phase
  <2> QED
    BY <2>1 DEF LedgerInit, Once!Init, NoRecord
<1>2. LedgerInv /\ [LedgerNext]_ledgerVars => [Once!Next]_(Once!vars)
  <2> SUFFICES ASSUME LedgerInv, [LedgerNext]_ledgerVars PROVE Once!Next \/ UNCHANGED Once!vars
    OBVIOUS
  <2>1. CASE UNCHANGED ledgerVars
    BY <2>1, QuietMapping DEF ledgerVars
  <2>2. ASSUME NEW a \in Callers, CreateClaims(a) \/ CreateClaimsButFails(a)
        PROVE  Once!Next
    <3>1. call[a].cmd \in CommandIDs
      BY <2>2 DEF LedgerInv, IdentifiedPastCreate, CreateClaims, CreateClaimsButFails
    <3> QED
      BY <2>2, <3>1, ClaimMapping DEF Once!Next
  <2>3. ASSUME NEW a \in Callers, NEW o \in Outcomes, RunEffect(a, o)
        PROVE  Once!Next \/ UNCHANGED Once!vars
    <3>1. CASE call[a].cmd = BlankID
      <4>1. UNCHANGED <<ledger, ran, effect>>
        BY <2>3, <3>1 DEF RunEffect
      <4> QED
        BY <4>1, QuietMapping
    <3>2. CASE call[a].cmd # BlankID
      <4>1. call[a].cmd \in CommandIDs
        BY <3>2 DEF LedgerInv, LedgerTypeOK
      <4> QED
        BY <2>3, <4>1, EffectMapping DEF Once!Next
    <3> QED
      BY <3>1, <3>2
  <2>4. ASSUME NEW a \in Callers, FinishRecords(a)
        PROVE  Once!Next
    <3>1. call[a].cmd \in CommandIDs
      BY <2>4, ZenonT(60) DEF LedgerInv, LedgerTypeOK, EffectBeforeFinish, FinishRecords
    <3> QED
      BY <2>4, <3>1, FinishMapping DEF Once!Next
  <2>5. ASSUME NEW a \in Callers,
               \/ CreateFails(a) \/ CreateFindsExisting(a) \/ GetExisting(a)
               \/ GetFails(a) \/ FinishFails(a) \/ Crash(a)
               \/ \E k \in CommandIDs \cup {BlankID}, r \in Requests : SubmitCommand(a, k, r)
        PROVE  UNCHANGED Once!vars
    <3>1. UNCHANGED <<ledger, ran, effect>>
      BY <2>5 DEF CreateFails, CreateFindsExisting, GetExisting, GetFails, FinishFails, Crash, SubmitCommand
    <3> QED
      BY <3>1, QuietMapping
  <2> QED
    BY <2>1, <2>2, <2>3, <2>4, <2>5 DEF LedgerNext, CallerStep
<1> QED
  BY <1>1, <1>2, LedgerInvariance, PTL DEF LedgerSpec, ImplementsOnceOnly, Once!Spec
-----------------------------------------------------------------------------
(* The Session.                                                            *)
(*                                                                         *)
(* What keeps a Turn of one Command from being lost to another is that     *)
(* whatever a Command has read is valid and a prefix of what is stored     *)
(* (HeldIsPast): a record that still has the version it was read at is the *)
(* stored one.  What the Turn tells is done before it is appended          *)
(* (TurnsAreDone), and stays so: Tasks are added to a Project only by a    *)
(* Command that has not yet recorded its Plan (AppliesLater), numbered     *)
(* without a gap (TasksNumbered).  A bounded Session is used up by its own *)
(* history: who calls the Provider owns the one reservation in it, and who *)
(* runs a Workflow the one applied Plan (BoundedPart).                     *)
(*                                                                         *)
(* Replay and AnsweredCount are folds over the history.  The library's     *)
(* FoldLeft is a function over sets of indices: it is shown to be the      *)
(* chain that takes one entry after the other, by the finite minimum       *)
(* principle in place of an induction.                                     *)

Minimal(A, F) == A \in F /\ \A B \in F : B \subseteq A => B = A

LEMMA MinimalSubset ==
    ASSUME NEW S, IsFiniteSet(S), NEW F, F \subseteq SUBSET S, F # {}
    PROVE  \E A : Minimal(A, F)
<1>1. IsWellFoundedOn(StrictSubsetOrdering(S), SUBSET S)
  <2>1. IsWellFoundedOn(StrictSubsetOrdering(S), FiniteSubsetsOf(S))
    BY FS_StrictSubsetOrderingWellFounded
  <2>2. FiniteSubsetsOf(S) = SUBSET S
    BY FS_FiniteSubsetsOfFinite
  <2>3. QED
    BY <2>1, <2>2
<1>2. PICK A \in F : \A B \in F : ~ (<<B, A>> \in StrictSubsetOrdering(S))
  <2> DEFINE R == StrictSubsetOrdering(S)  P == SUBSET S
  <2>1. IsWellFoundedOn(R, P) /\ F \subseteq P
    BY <1>1
  <2> HIDE DEF R, P
  <2>2. \E A \in F : \A B \in F : ~ (<<B, A>> \in R)
    BY <2>1, WFMin
  <2>3. QED
    BY <2>2 DEF R
<1>3. ASSUME NEW B \in F, B \subseteq A PROVE B = A
  BY <1>2, <1>3 DEF StrictSubsetOrdering
<1>4. QED
  BY <1>3 DEF Minimal

LEMMA LeastNumber ==
    ASSUME NEW S \in SUBSET Nat, IsFiniteSet(S), NEW T \in SUBSET S, T # {}
    PROVE  \E x \in T : \A y \in T : x <= y
<1> DEFINE Upto(t) == {k \in S : k <= t}
           F == {Upto(t) : t \in T}
<1>1. F \subseteq SUBSET S /\ F # {}
  OBVIOUS
<1>2. PICK A : Minimal(A, F)
  <2> HIDE DEF F
  <2>1. QED
    BY <1>1, MinimalSubset
<1>3. PICK x \in T : A = Upto(x)
  BY <1>2 DEF Minimal
<1>4. ASSUME NEW y \in T PROVE x <= y
  <2>1. SUFFICES ASSUME y < x PROVE FALSE
    BY <1>3
  <2>2. Upto(y) \subseteq A /\ Upto(y) \in F
    <3>1. Upto(y) \in F
      OBVIOUS
    <3>2. \A k \in S : k <= y => k <= x
      BY <2>1
    <3>3. QED
      BY <1>3, <3>1, <3>2
  <2>3. Upto(y) = A
    <3> HIDE DEF F, Upto
    <3> QED BY <1>2, <2>2 DEF Minimal
  <2>4. x \in Upto(y)
    BY <1>3, <2>3
  <2>5. QED
    BY <2>1, <2>4
<1>5. QED
  BY <1>4


\* The least of some indices.
LEMMA LeastIndex ==
    ASSUME NEW n \in Nat, NEW T \in SUBSET (0 .. n), T # {}
    PROVE  \E x \in T : \A y \in T : x <= y
<1>1. IsFiniteSet(0 .. n) /\ 0 .. n \in SUBSET Nat
  BY FS_Interval
<1>2. QED
  BY <1>1, LeastNumber

\* The greatest of some indices.
LEMMA GreatestIndex ==
    ASSUME NEW n \in Nat, NEW T \in SUBSET (1 .. n), T # {}
    PROVE  Max(T) \in T /\ \A y \in T : y <= Max(T)
<1> DEFINE Back == {n - x : x \in T}
<1>1. Back \in SUBSET (0 .. n) /\ Back # {}
  <2>1. ASSUME NEW x \in T PROVE x \in 1 .. n /\ n - x \in 0 .. n
    <3>1. x \in 1 .. n
      OBVIOUS
    <3>2. QED
      BY <3>1
  <2>2. QED
    BY <2>1
<1>2. PICK z \in Back : \A y \in Back : z <= y
  BY <1>1, LeastIndex
<1>3. PICK x \in T : z = n - x
  OBVIOUS
<1>4. ASSUME NEW y \in T PROVE x >= y
  <2>1. n - y \in Back /\ n - x \in Back
    OBVIOUS
  <2>2. n - x <= n - y
    BY <1>2, <1>3, <2>1
  <2>3. x \in 1 .. n /\ y \in 1 .. n
    OBVIOUS
  <2>4. QED
    BY <2>2, <2>3
<1>5. Max(T) \in T /\ \A y \in T : Max(T) >= y
  BY <1>4 DEF Max
<1>6. QED
  BY <1>5

LEMMA LowerPart ==
    ASSUME NEW k \in Nat, NEW A \in SUBSET (1 .. k), A # {}
    PROVE  A \ {Max(A)} \in SUBSET (1 .. (k - 1))
<1>1. Max(A) \in A /\ \A y \in A : y <= Max(A)
  BY GreatestIndex
<1>2. ASSUME NEW y \in A \ {Max(A)} PROVE y \in 1 .. (k - 1)
  <2>1. y \in 1 .. k /\ Max(A) \in 1 .. k /\ y <= Max(A) /\ y # Max(A)
    BY <1>1
  <2> DEFINE m == Max(A)
  <2>2. m \in 1 .. k /\ y <= m /\ y # m
    BY <2>1
  <2> HIDE DEF m
  <2>3. QED
    BY <2>1, <2>2
<1>3. QED
  BY <1>2

LEMMA InitialPart ==
    ASSUME NEW k \in Nat, k >= 1
    PROVE  Max(1 .. k) = k /\ (1 .. k) \ {k} = 1 .. (k - 1)
<1> DEFINE A == 1 .. k
           m == Max(A)
<1>1. A \in SUBSET (1 .. k) /\ A # {} /\ k \in A
  OBVIOUS
<1>2. m \in A /\ \A y \in A : y <= m
  BY <1>1, GreatestIndex
<1> HIDE DEF m
<1>3. m = k
  BY <1>1, <1>2
<1>4. QED
  BY <1>3 DEF m


\* The Turns of this Session's Commands.
Fields == [kind : Kinds, by : Commands, plan : [tasks : Nat, questions : Nat], answers : Nat,
           project : Seq(Nat), preauth : BOOLEAN,
           status : WorkflowStatuses \cup ActionStatuses \cup {"none"}]
Turned == {t \in Fields : t.kind # "clarification_answered" => t.answers = 0}

\* The answers counted.
Plus(n, t) == n + t.answers

\* The chain of what Replay makes of the first k entries of a sequence.
ReplayChain(b, S, g) ==
    /\ g[0] = b
    /\ \A k \in 1 .. Len(S) : g[k] = Replay(g[k - 1], S[k])

\* The function that FoldLeft defines over the sets of indices.
ReplayIter(b, S, f) ==
    f = [A \in SUBSET (DOMAIN S) |->
            IF A = {} THEN b ELSE LET x == Max(A) IN Replay(f[A \ {x}], S[x])]

LEMMA ReplayIterates ==
    ASSUME NEW b, NEW S \in Seq(Turned)
    PROVE  \E f : ReplayIter(b, S, f)
<1> DEFINE Solves(k, f) == f = [A \in SUBSET (1 .. k) |->
                                  IF A = {} THEN b ELSE LET x == Max(A) IN Replay(f[A \ {x}], S[x])]
           Wrong == {k \in 0 .. Len(S) : ~ \E f : Solves(k, f)}
<1>1. Len(S) \in Nat /\ DOMAIN S = 1 .. Len(S)
  OBVIOUS
<1>2. SUFFICES ASSUME Wrong # {} PROVE FALSE
  <2>1. Wrong = {} => \E f : Solves(Len(S), f)
    <3> HIDE DEF Solves
    <3>1. QED
      BY <1>1
  <2>2. QED
    BY <1>1, <1>2, <2>1 DEF ReplayIter
<1>3. PICK k \in Wrong : \A y \in Wrong : k <= y
  <2> HIDE DEF Wrong
  <2>1. Wrong \subseteq 0 .. Len(S)
    BY DEF Wrong
  <2>2. QED
    BY <1>1, <1>2, <2>1, LeastIndex
<1>4. CASE k = 0
  <2>1. SUBSET (1 .. 0) = {{}}
    OBVIOUS
  <2>2. Solves(0, [A \in SUBSET (1 .. 0) |-> b])
    BY <2>1
  <2>3. QED
    BY <1>3, <1>4, <2>2
<1>5. CASE k # 0
  <2>1. k \in 1 .. Len(S) /\ k - 1 \in 0 .. Len(S) /\ ~ (k <= k - 1)
    BY <1>1, <1>5
  <2>2. k - 1 \notin Wrong
    BY <1>3, <2>1
  <2>3. PICK f : Solves(k - 1, f)
    BY <2>1, <2>2
  <2> DEFINE g == [A \in SUBSET (1 .. k) |-> IF A = {} THEN b ELSE LET x == Max(A) IN Replay(f[A \ {x}], S[x])]
  <2>4. ASSUME NEW A \in SUBSET (1 .. k), A # {}
        PROVE  g[A \ {Max(A)}] = f[A \ {Max(A)}]
    <3>1. A \ {Max(A)} \in SUBSET (1 .. (k - 1))
      BY <2>1, <2>4, LowerPart, SMTT(40)
    <3>2. ASSUME NEW B \in SUBSET (1 .. (k - 1)) PROVE g[B] = f[B]
      <4>1. B \in SUBSET (1 .. k)
        BY <2>1
      <4>2. g[B] = IF B = {} THEN b ELSE LET x == Max(B) IN Replay(f[B \ {x}], S[x])
        BY <4>1
      <4>3. f[B] = IF B = {} THEN b ELSE LET x == Max(B) IN Replay(f[B \ {x}], S[x])
        BY <2>3
      <4>4. QED
        BY <4>2, <4>3
    <3>3. QED
      BY <3>1, <3>2
  <2>5. ASSUME NEW A \in SUBSET (1 .. k)
        PROVE  g[A] = IF A = {} THEN b ELSE LET x == Max(A) IN Replay(g[A \ {x}], S[x])
    <3>1. g[A] = IF A = {} THEN b ELSE LET x == Max(A) IN Replay(f[A \ {x}], S[x])
      OBVIOUS
    <3> HIDE DEF g
    <3>2. QED
      BY <2>4, <3>1
  <2>6. Solves(k, g)
    <3>1. g = [A \in SUBSET (1 .. k) |-> g[A]]
      OBVIOUS
    <3> HIDE DEF g
    <3>2. [A \in SUBSET (1 .. k) |-> g[A]] =
            [A \in SUBSET (1 .. k) |-> IF A = {} THEN b ELSE LET x == Max(A) IN Replay(g[A \ {x}], S[x])]
      BY <2>5
    <3>3. QED
      BY <3>1, <3>2
  <2>7. QED
    <3> HIDE DEF g, Solves
    <3>1. QED
      BY <1>3, <2>6
<1>6. QED
  BY <1>4, <1>5

LEMMA ReplayFolds ==
    ASSUME NEW b, NEW S \in Seq(Turned)
    PROVE  \E F : /\ ReplayIter(b, S, F)
                  /\ FoldLeft(Replay, b, S) = F[1 .. Len(S)]
<1> DEFINE F == CHOOSE f : ReplayIter(b, S, f)
<1>1. ReplayIter(b, S, F)
  BY ReplayIterates
<1>2. FoldLeft(Replay, b, S) = F[1 .. Len(S)]
  <2>1. DOMAIN S = 1 .. Len(S)
    OBVIOUS
  <2>2. FoldLeft(Replay, b, S) = F[DOMAIN S]
    BY DEF FoldLeft, MapThenFoldSet, ReplayIter
  <2>3. QED
    BY <2>1, <2>2
<1>3. QED
  BY <1>1, <1>2

\* The fold is the end of the chain, and there is one.
LEMMA ReplayChained ==
    ASSUME NEW b, NEW S \in Seq(Turned)
    PROVE  /\ \E g : ReplayChain(b, S, g)
           /\ \A g : ReplayChain(b, S, g) => FoldLeft(Replay, b, S) = g[Len(S)]
<1> DEFINE n == Len(S)
<1>1. n \in Nat /\ DOMAIN S = 1 .. n
  OBVIOUS
<1>2. PICK F : ReplayIter(b, S, F) /\ FoldLeft(Replay, b, S) = F[1 .. n]
  BY ReplayFolds
<1>3. /\ F[1 .. 0] = b
      /\ \A k \in 1 .. n : F[1 .. k] = Replay(F[1 .. (k - 1)], S[k])
  <2>1. ASSUME NEW A \in SUBSET (1 .. n)
        PROVE  F[A] = IF A = {} THEN b ELSE Replay(F[A \ {Max(A)}], S[Max(A)])
    BY <1>1, <1>2 DEF ReplayIter
  <2>2. F[1 .. 0] = b
    <3>1. 1 .. 0 = {}
      OBVIOUS
    <3>2. QED
      BY <2>1, <3>1
  <2>3. ASSUME NEW k \in 1 .. n
        PROVE  F[1 .. k] = Replay(F[1 .. (k - 1)], S[k])
    <3>1. 1 .. k # {} /\ 1 .. k \in SUBSET (1 .. n)
      BY <1>1, SMTT(40)
    <3>2. Max(1 .. k) = k /\ (1 .. k) \ {k} = 1 .. (k - 1)
      BY <1>1, InitialPart
    <3>3. QED
      BY <2>1, <3>1, <3>2
  <2>4. QED
    BY <2>2, <2>3
<1>4. \E g : ReplayChain(b, S, g)
  <2> DEFINE G == [k \in 0 .. n |-> F[1 .. k]]
  <2>1. G[0] = b
    BY <1>1, <1>3
  <2>2. ASSUME NEW k \in 1 .. n PROVE G[k] = Replay(G[k - 1], S[k])
    <3>1. k \in 0 .. n /\ k - 1 \in 0 .. n
      BY <1>1
    <3>2. G[k] = F[1 .. k] /\ G[k - 1] = F[1 .. (k - 1)]
      BY <3>1
    <3> HIDE DEF G
    <3>3. QED
      BY <1>3, <3>2
  <2>3. ReplayChain(b, S, G)
    <3> HIDE DEF G
    <3> QED BY <2>1, <2>2 DEF ReplayChain
  <2>4. QED
    <3> HIDE DEF G
    <3> QED BY <2>3
<1>5. ASSUME NEW g, ReplayChain(b, S, g) PROVE F[1 .. n] = g[n]
  <2> DEFINE Wrong == {k \in 0 .. n : F[1 .. k] # g[k]}
  <2>1. SUFFICES ASSUME Wrong # {} PROVE FALSE
    BY <1>1
  <2>2. PICK k \in Wrong : \A y \in Wrong : k <= y
    <3>1. Wrong \subseteq 0 .. n
      OBVIOUS
    <3> HIDE DEF Wrong
    <3>2. QED
      BY <1>1, <2>1, <3>1, LeastIndex
  <2>3. k # 0
    BY <1>3, <1>5, <2>2 DEF ReplayChain
  <2>4. k \in 1 .. n /\ k - 1 \in 0 .. n /\ ~ (k <= k - 1)
    BY <1>1, <2>3
  <2>5. F[1 .. (k - 1)] = g[k - 1]
    BY <2>2, <2>4
  <2>6. QED
    BY <1>3, <1>5, <2>2, <2>4, <2>5 DEF ReplayChain
<1>6. QED
  BY <1>2, <1>4, <1>5

\* Folding nothing, and folding one entry more.
LEMMA ReplayFold ==
    /\ \A b : FoldLeft(Replay, b, <<>>) = b
    /\ \A b : \A s \in Seq(Turned) : \A e \in Turned :
          FoldLeft(Replay, b, Append(s, e)) = Replay(FoldLeft(Replay, b, s), e)
<1>1. ASSUME NEW b PROVE FoldLeft(Replay, b, <<>>) = b
  <2>1. <<>> \in Seq(Turned) /\ Len(<<>>) = 0
    OBVIOUS
  <2>2. PICK g : ReplayChain(b, <<>>, g)
    BY <2>1, ReplayChained
  <2>3. FoldLeft(Replay, b, <<>>) = g[0]
    BY <2>1, <2>2, ReplayChained
  <2>4. QED
    BY <2>2, <2>3 DEF ReplayChain
<1>2. ASSUME NEW b, NEW s \in Seq(Turned), NEW e \in Turned
      PROVE  FoldLeft(Replay, b, Append(s, e)) = Replay(FoldLeft(Replay, b, s), e)
  <2> DEFINE t == Append(s, e)
  <2>1. /\ t \in Seq(Turned) /\ Len(s) \in Nat /\ Len(t) = Len(s) + 1 /\ t[Len(t)] = e
        /\ \A k \in 1 .. Len(s) : t[k] = s[k]
    OBVIOUS
  <2> HIDE DEF t
  <2>2. PICK g : ReplayChain(b, t, g)
    BY <2>1, ReplayChained
  <2>3. ReplayChain(b, s, g)
    <3>1. g[0] = b
      BY <2>2 DEF ReplayChain
    <3>2. ASSUME NEW k \in 1 .. Len(s) PROVE g[k] = Replay(g[k - 1], s[k])
      <4>1. k \in 1 .. Len(t) /\ t[k] = s[k]
        BY <2>1
      <4>2. QED
        BY <2>2, <4>1 DEF ReplayChain
    <3>3. QED
      BY <3>1, <3>2 DEF ReplayChain
  <2>4. FoldLeft(Replay, b, t) = g[Len(t)] /\ FoldLeft(Replay, b, s) = g[Len(s)]
    BY <2>1, <2>2, <2>3, ReplayChained
  <2>5. g[Len(t)] = Replay(g[Len(t) - 1], t[Len(t)]) /\ Len(t) - 1 = Len(s)
    BY <2>1, <2>2 DEF ReplayChain
  <2>6. QED
    BY <2>1, <2>4, <2>5 DEF t
<1>3. QED
  BY <1>1, <1>2

\* The chain of what Plus makes of the first k entries of a sequence.
PlusChain(b, S, g) ==
    /\ g[0] = b
    /\ \A k \in 1 .. Len(S) : g[k] = Plus(g[k - 1], S[k])

\* The function that FoldLeft defines over the sets of indices.
PlusIter(b, S, f) ==
    f = [A \in SUBSET (DOMAIN S) |->
            IF A = {} THEN b ELSE LET x == Max(A) IN Plus(f[A \ {x}], S[x])]

LEMMA PlusIterates ==
    ASSUME NEW b, NEW S \in Seq(Turned)
    PROVE  \E f : PlusIter(b, S, f)
<1> DEFINE Solves(k, f) == f = [A \in SUBSET (1 .. k) |->
                                  IF A = {} THEN b ELSE LET x == Max(A) IN Plus(f[A \ {x}], S[x])]
           Wrong == {k \in 0 .. Len(S) : ~ \E f : Solves(k, f)}
<1>1. Len(S) \in Nat /\ DOMAIN S = 1 .. Len(S)
  OBVIOUS
<1>2. SUFFICES ASSUME Wrong # {} PROVE FALSE
  <2>1. Wrong = {} => \E f : Solves(Len(S), f)
    <3> HIDE DEF Solves
    <3>1. QED
      BY <1>1
  <2>2. QED
    BY <1>1, <1>2, <2>1 DEF PlusIter
<1>3. PICK k \in Wrong : \A y \in Wrong : k <= y
  <2> HIDE DEF Wrong
  <2>1. Wrong \subseteq 0 .. Len(S)
    BY DEF Wrong
  <2>2. QED
    BY <1>1, <1>2, <2>1, LeastIndex
<1>4. CASE k = 0
  <2>1. SUBSET (1 .. 0) = {{}}
    OBVIOUS
  <2>2. Solves(0, [A \in SUBSET (1 .. 0) |-> b])
    BY <2>1
  <2>3. QED
    BY <1>3, <1>4, <2>2
<1>5. CASE k # 0
  <2>1. k \in 1 .. Len(S) /\ k - 1 \in 0 .. Len(S) /\ ~ (k <= k - 1)
    BY <1>1, <1>5
  <2>2. k - 1 \notin Wrong
    BY <1>3, <2>1
  <2>3. PICK f : Solves(k - 1, f)
    BY <2>1, <2>2
  <2> DEFINE g == [A \in SUBSET (1 .. k) |-> IF A = {} THEN b ELSE LET x == Max(A) IN Plus(f[A \ {x}], S[x])]
  <2>4. ASSUME NEW A \in SUBSET (1 .. k), A # {}
        PROVE  g[A \ {Max(A)}] = f[A \ {Max(A)}]
    <3>1. A \ {Max(A)} \in SUBSET (1 .. (k - 1))
      BY <2>1, <2>4, LowerPart, SMTT(40)
    <3>2. ASSUME NEW B \in SUBSET (1 .. (k - 1)) PROVE g[B] = f[B]
      <4>1. B \in SUBSET (1 .. k)
        BY <2>1
      <4>2. g[B] = IF B = {} THEN b ELSE LET x == Max(B) IN Plus(f[B \ {x}], S[x])
        BY <4>1
      <4>3. f[B] = IF B = {} THEN b ELSE LET x == Max(B) IN Plus(f[B \ {x}], S[x])
        BY <2>3
      <4>4. QED
        BY <4>2, <4>3
    <3>3. QED
      BY <3>1, <3>2
  <2>5. ASSUME NEW A \in SUBSET (1 .. k)
        PROVE  g[A] = IF A = {} THEN b ELSE LET x == Max(A) IN Plus(g[A \ {x}], S[x])
    <3>1. g[A] = IF A = {} THEN b ELSE LET x == Max(A) IN Plus(f[A \ {x}], S[x])
      OBVIOUS
    <3> HIDE DEF g
    <3>2. QED
      BY <2>4, <3>1
  <2>6. Solves(k, g)
    <3>1. g = [A \in SUBSET (1 .. k) |-> g[A]]
      OBVIOUS
    <3> HIDE DEF g
    <3>2. [A \in SUBSET (1 .. k) |-> g[A]] =
            [A \in SUBSET (1 .. k) |-> IF A = {} THEN b ELSE LET x == Max(A) IN Plus(g[A \ {x}], S[x])]
      BY <2>5
    <3>3. QED
      BY <3>1, <3>2
  <2>7. QED
    <3> HIDE DEF g, Solves
    <3>1. QED
      BY <1>3, <2>6
<1>6. QED
  BY <1>4, <1>5

LEMMA PlusFolds ==
    ASSUME NEW b, NEW S \in Seq(Turned)
    PROVE  \E F : /\ PlusIter(b, S, F)
                  /\ FoldLeft(Plus, b, S) = F[1 .. Len(S)]
<1> DEFINE F == CHOOSE f : PlusIter(b, S, f)
<1>1. PlusIter(b, S, F)
  BY PlusIterates
<1>2. FoldLeft(Plus, b, S) = F[1 .. Len(S)]
  <2>1. DOMAIN S = 1 .. Len(S)
    OBVIOUS
  <2>2. FoldLeft(Plus, b, S) = F[DOMAIN S]
    BY DEF FoldLeft, MapThenFoldSet, PlusIter
  <2>3. QED
    BY <2>1, <2>2
<1>3. QED
  BY <1>1, <1>2

\* The fold is the end of the chain, and there is one.
LEMMA PlusChained ==
    ASSUME NEW b, NEW S \in Seq(Turned)
    PROVE  /\ \E g : PlusChain(b, S, g)
           /\ \A g : PlusChain(b, S, g) => FoldLeft(Plus, b, S) = g[Len(S)]
<1> DEFINE n == Len(S)
<1>1. n \in Nat /\ DOMAIN S = 1 .. n
  OBVIOUS
<1>2. PICK F : PlusIter(b, S, F) /\ FoldLeft(Plus, b, S) = F[1 .. n]
  BY PlusFolds
<1>3. /\ F[1 .. 0] = b
      /\ \A k \in 1 .. n : F[1 .. k] = Plus(F[1 .. (k - 1)], S[k])
  <2>1. ASSUME NEW A \in SUBSET (1 .. n)
        PROVE  F[A] = IF A = {} THEN b ELSE Plus(F[A \ {Max(A)}], S[Max(A)])
    BY <1>1, <1>2 DEF PlusIter
  <2>2. F[1 .. 0] = b
    <3>1. 1 .. 0 = {}
      OBVIOUS
    <3>2. QED
      BY <2>1, <3>1
  <2>3. ASSUME NEW k \in 1 .. n
        PROVE  F[1 .. k] = Plus(F[1 .. (k - 1)], S[k])
    <3>1. 1 .. k # {} /\ 1 .. k \in SUBSET (1 .. n)
      BY <1>1
    <3>2. Max(1 .. k) = k /\ (1 .. k) \ {k} = 1 .. (k - 1)
      BY <1>1, InitialPart
    <3>3. QED
      BY <2>1, <3>1, <3>2
  <2>4. QED
    BY <2>2, <2>3
<1>4. \E g : PlusChain(b, S, g)
  <2> DEFINE G == [k \in 0 .. n |-> F[1 .. k]]
  <2>1. G[0] = b
    BY <1>1, <1>3
  <2>2. ASSUME NEW k \in 1 .. n PROVE G[k] = Plus(G[k - 1], S[k])
    <3>1. k \in 0 .. n /\ k - 1 \in 0 .. n
      BY <1>1
    <3>2. G[k] = F[1 .. k] /\ G[k - 1] = F[1 .. (k - 1)]
      BY <3>1
    <3> HIDE DEF G
    <3>3. QED
      BY <1>3, <3>2
  <2>3. PlusChain(b, S, G)
    <3> HIDE DEF G
    <3> QED BY <2>1, <2>2 DEF PlusChain
  <2>4. QED
    <3> HIDE DEF G
    <3> QED BY <2>3
<1>5. ASSUME NEW g, PlusChain(b, S, g) PROVE F[1 .. n] = g[n]
  <2> DEFINE Wrong == {k \in 0 .. n : F[1 .. k] # g[k]}
  <2>1. SUFFICES ASSUME Wrong # {} PROVE FALSE
    BY <1>1
  <2>2. PICK k \in Wrong : \A y \in Wrong : k <= y
    <3>1. Wrong \subseteq 0 .. n
      OBVIOUS
    <3> HIDE DEF Wrong
    <3>2. QED
      BY <1>1, <2>1, <3>1, LeastIndex
  <2>3. k # 0
    BY <1>3, <1>5, <2>2 DEF PlusChain
  <2>4. k \in 1 .. n /\ k - 1 \in 0 .. n /\ ~ (k <= k - 1)
    BY <1>1, <2>3
  <2>5. F[1 .. (k - 1)] = g[k - 1]
    BY <2>2, <2>4
  <2>6. QED
    BY <1>3, <1>5, <2>2, <2>4, <2>5 DEF PlusChain
<1>6. QED
  BY <1>2, <1>4, <1>5

\* Folding nothing, and folding one entry more.
LEMMA PlusFold ==
    /\ \A b : FoldLeft(Plus, b, <<>>) = b
    /\ \A b : \A s \in Seq(Turned) : \A e \in Turned :
          FoldLeft(Plus, b, Append(s, e)) = Plus(FoldLeft(Plus, b, s), e)
<1>1. ASSUME NEW b PROVE FoldLeft(Plus, b, <<>>) = b
  <2>1. <<>> \in Seq(Turned) /\ Len(<<>>) = 0
    OBVIOUS
  <2>2. PICK g : PlusChain(b, <<>>, g)
    BY <2>1, PlusChained
  <2>3. FoldLeft(Plus, b, <<>>) = g[0]
    BY <2>1, <2>2, PlusChained
  <2>4. QED
    BY <2>2, <2>3 DEF PlusChain
<1>2. ASSUME NEW b, NEW s \in Seq(Turned), NEW e \in Turned
      PROVE  FoldLeft(Plus, b, Append(s, e)) = Plus(FoldLeft(Plus, b, s), e)
  <2> DEFINE t == Append(s, e)
  <2>1. /\ t \in Seq(Turned) /\ Len(s) \in Nat /\ Len(t) = Len(s) + 1 /\ t[Len(t)] = e
        /\ \A k \in 1 .. Len(s) : t[k] = s[k]
    OBVIOUS
  <2> HIDE DEF t
  <2>2. PICK g : PlusChain(b, t, g)
    BY <2>1, PlusChained
  <2>3. PlusChain(b, s, g)
    <3>1. g[0] = b
      BY <2>2 DEF PlusChain
    <3>2. ASSUME NEW k \in 1 .. Len(s) PROVE g[k] = Plus(g[k - 1], s[k])
      <4>1. k \in 1 .. Len(t) /\ t[k] = s[k]
        BY <2>1
      <4>2. QED
        BY <2>2, <4>1 DEF PlusChain
    <3>3. QED
      BY <3>1, <3>2 DEF PlusChain
  <2>4. FoldLeft(Plus, b, t) = g[Len(t)] /\ FoldLeft(Plus, b, s) = g[Len(s)]
    BY <2>1, <2>2, <2>3, PlusChained
  <2>5. g[Len(t)] = Plus(g[Len(t) - 1], t[Len(t)]) /\ Len(t) - 1 = Len(s)
    BY <2>1, <2>2 DEF PlusChain
  <2>6. QED
    BY <2>1, <2>4, <2>5 DEF t
<1>3. QED
  BY <1>1, <1>2

-----------------------------------------------------------------------------
(* Records, and what their histories say.                                  *)

Records ==
    [profile : Profiles, turns : Seq(Turned), state : States]

\* A record, or a part of one, with a history.
LEMMA LastIndexFacts ==
    ASSUME NEW r, r.turns \in Seq(Turned), NEW ks
    PROVE  /\ LastIndex(r, ks) \in 0 .. Len(r.turns)
           /\ LastIndex(r, ks) > 0 => r.turns[LastIndex(r, ks)].kind \in ks
           /\ LastIndex(r, ks) > 0 <=> \E i \in DOMAIN r.turns : r.turns[i].kind \in ks
           /\ \A i \in DOMAIN r.turns : r.turns[i].kind \in ks => i <= LastIndex(r, ks)
<1> DEFINE I == {i \in 1 .. Len(r.turns) : r.turns[i].kind \in ks}
<1>1. LastIndex(r, ks) = IF I # {} THEN Max(I) ELSE 0
  BY DEF LastIndex, SelectLastInSeq
<1>2. Len(r.turns) \in Nat /\ DOMAIN r.turns = 1 .. Len(r.turns)
  OBVIOUS
<1>3. CASE I = {}
  BY <1>1, <1>2, <1>3
<1>4. CASE I # {}
  <2>1. I \in SUBSET (1 .. Len(r.turns))
    OBVIOUS
  <2>2. Max(I) \in I /\ \A y \in I : y <= Max(I)
    <3> HIDE DEF I
    <3> QED BY <1>2, <1>4, <2>1, GreatestIndex
  <2>3. LastIndex(r, ks) \in I /\ \A y \in I : y <= LastIndex(r, ks)
    BY <1>1, <1>4, <2>2
  <2>4. QED
    BY <1>2, <2>3
<1>5. QED
  BY <1>3, <1>4

\* One Turn more.
LEMMA LastIndexAppend ==
    ASSUME NEW r, r.turns \in Seq(Turned), NEW e \in Turned,
           NEW q, q.turns = Append(r.turns, e), NEW ks
    PROVE  LastIndex(q, ks) = IF e.kind \in ks THEN Len(r.turns) + 1 ELSE LastIndex(r, ks)
<1> DEFINE n == Len(r.turns)
           l == LastIndex(q, ks)
           k == LastIndex(r, ks)
<1>1. /\ q.turns \in Seq(Turned) /\ n \in Nat /\ Len(q.turns) = n + 1 /\ q.turns[n + 1] = e
      /\ DOMAIN r.turns = 1 .. n /\ DOMAIN q.turns = 1 .. n + 1
      /\ \A i \in 1 .. n : q.turns[i] = r.turns[i]
  OBVIOUS
<1>2. /\ l \in 0 .. n + 1
      /\ l > 0 => q.turns[l].kind \in ks
      /\ \A i \in 1 .. n + 1 : q.turns[i].kind \in ks => i <= l
  BY <1>1, LastIndexFacts
<1>3. /\ k \in 0 .. n
      /\ k > 0 => r.turns[k].kind \in ks
      /\ \A i \in 1 .. n : r.turns[i].kind \in ks => i <= k
  BY <1>1, LastIndexFacts
<1> HIDE DEF l, k, n
<1>4. CASE e.kind \in ks
  BY <1>1, <1>2, <1>4 DEF l, n
<1>5. CASE e.kind \notin ks
  <2>1. l # n + 1
    BY <1>1, <1>2, <1>5
  <2>2. l > 0 => l <= k
    BY <1>1, <1>2, <1>3, <2>1
  <2>3. k > 0 => k <= l
    BY <1>1, <1>2, <1>3
  <2>4. l = k
    BY <1>2, <1>3, <2>2, <2>3
  <2>5. QED
    BY <1>5, <2>4 DEF l, k
<1>6. QED
  BY <1>4, <1>5

\* Somebody's Turn of a kind, and nobody else's.
Some(r, kind) == \E i \in DOMAIN r.turns : r.turns[i].kind = kind
OnlyOf(r, kind, c) == \A i \in DOMAIN r.turns : r.turns[i].kind = kind => r.turns[i].by = c
NoneOf(r, kind, c) == \A i \in DOMAIN r.turns : r.turns[i].kind = kind => r.turns[i].by # c

LEMMA HasSome ==
    ASSUME NEW r \in Records, NEW kind
    PROVE  Has(r, kind) <=> Some(r, kind)
<1>1. r.turns \in Seq(Turned)
  BY DEF Records
<1>2. LastIndex(r, {kind}) > 0 <=> \E i \in DOMAIN r.turns : r.turns[i].kind \in {kind}
  BY <1>1, LastIndexFacts
<1>3. QED
  BY <1>2 DEF Has, Some

LEMMA PrefixFacts ==
    ASSUME NEW s \in Seq(Turned), NEW t \in Seq(Turned)
    PROVE  IsPrefix(s, t) <=> Len(s) <= Len(t) /\ \A i \in 1 .. Len(s) : s[i] = t[i]
<1>1. CASE Len(s) <= Len(t)
  <2>1. /\ SubSeq(s, 1, Len(s)) = [i \in 1 .. Len(s) |-> s[i]]
        /\ SubSeq(t, 1, Len(s)) = [i \in 1 .. Len(s) |-> t[i]]
    BY <1>1
  <2>2. IsPrefix(s, t) <=> [i \in 1 .. Len(s) |-> s[i]] = [i \in 1 .. Len(s) |-> t[i]]
    BY <1>1, <2>1 DEF IsPrefix
  <2>3. QED
    BY <1>1, <2>2
<1>2. CASE ~ (Len(s) <= Len(t))
  BY <1>2 DEF IsPrefix
<1>3. QED
  BY <1>1, <1>2

LEMMA PrefixTransitive ==
    ASSUME NEW s \in Seq(Turned), NEW t \in Seq(Turned), NEW u \in Seq(Turned),
           IsPrefix(s, t), IsPrefix(t, u)
    PROVE  IsPrefix(s, u)
<1>1. /\ Len(s) \in Nat /\ Len(t) \in Nat /\ Len(u) \in Nat
      /\ Len(s) <= Len(t) /\ \A i \in 1 .. Len(s) : s[i] = t[i]
      /\ Len(t) <= Len(u) /\ \A i \in 1 .. Len(t) : t[i] = u[i]
  BY PrefixFacts
<1>2. Len(s) <= Len(u) /\ \A i \in 1 .. Len(s) : s[i] = u[i]
  BY <1>1
<1>3. QED
  BY <1>2, PrefixFacts

LEMMA PrefixAppend ==
    ASSUME NEW s \in Seq(Turned), NEW e \in Turned
    PROVE  IsPrefix(s, s) /\ IsPrefix(s, Append(s, e))
<1>1. /\ Append(s, e) \in Seq(Turned) /\ Len(s) <= Len(Append(s, e))
      /\ \A i \in 1 .. Len(s) : s[i] = Append(s, e)[i]
  OBVIOUS
<1>2. IsPrefix(s, Append(s, e))
  BY <1>1, PrefixFacts
<1>3. IsPrefix(s, s)
  BY PrefixFacts
<1>4. QED
  BY <1>2, <1>3

\* A part of the history as long as the whole is the whole.
LEMMA PrefixEqual ==
    ASSUME NEW s \in Seq(Turned), NEW t \in Seq(Turned), IsPrefix(s, t), Len(s) = Len(t)
    PROVE  s = t
<1>1. \A i \in 1 .. Len(s) : s[i] = t[i]
  BY PrefixFacts
<1>2. s = [i \in 1 .. Len(s) |-> s[i]] /\ t = [i \in 1 .. Len(s) |-> t[i]]
  OBVIOUS
<1>3. QED
  BY <1>1, <1>2

-----------------------------------------------------------------------------
(* Turns and the records that take them.                                   *)

LEMMA TurnsTyped ==
    ASSUME NEW c \in Commands
    PROVE  /\ \A kind \in Kinds : Turn(kind, c) \in Turned
           /\ Reserve(c) \in Turned
           /\ \A p \in Plans : Generated(c, p) \in Turned
           /\ \A n \in Nat : Answered(c, n) \in Turned
           /\ \A name \in Seq(Nat), b \in BOOLEAN : Applied(c, name, b) \in Turned
           /\ \A name \in Seq(Nat), s \in WorkflowStatuses : Worked(c, name, s) \in Turned
           /\ \A name \in Seq(Nat), s \in ActionStatuses : Acted(c, name, s) \in Turned
<1>1. <<>> \in Seq(Nat) /\ NoPlan \in [tasks : Nat, questions : Nat]
  BY DEF NoPlan
<1>2. \A kind \in Kinds : Turn(kind, c) \in Turned
  BY <1>1 DEF Turn, Turned, Fields, NoProject
<1>3. /\ Turn("plan_generation_reserved", c) \in Turned
      /\ Turn("plan_generated", c) \in Turned
      /\ Turn("clarification_answered", c) \in Turned
      /\ Turn("plan_applied", c) \in Turned
      /\ Turn("workflow_recorded", c) \in Turned
      /\ Turn("action_recorded", c) \in Turned
  BY <1>2 DEF Kinds
<1>4. Reserve(c) \in Turned
  BY <1>3 DEF Reserve
<1>5. ASSUME NEW p \in Plans PROVE Generated(c, p) \in Turned
  <2>1. p \in [tasks : Nat, questions : Nat]
    BY PlansAssumption
  <2>2. QED
    BY <1>3, <2>1 DEF Generated, Turned, Fields, Turn
<1>6. ASSUME NEW n \in Nat PROVE Answered(c, n) \in Turned
  BY <1>3 DEF Answered, Turned, Fields, Turn
<1>7. ASSUME NEW name \in Seq(Nat), NEW b \in BOOLEAN PROVE Applied(c, name, b) \in Turned
  BY <1>3 DEF Applied, Turned, Fields, Turn
<1>8. ASSUME NEW name \in Seq(Nat), NEW s \in WorkflowStatuses PROVE Worked(c, name, s) \in Turned
  BY <1>3 DEF Worked, Turned, Fields, Turn
<1>9. ASSUME NEW name \in Seq(Nat), NEW s \in ActionStatuses PROVE Acted(c, name, s) \in Turned
  BY <1>3 DEF Acted, Turned, Fields, Turn
<1>10. QED
  BY <1>2, <1>4, <1>5, <1>6, <1>7, <1>8, <1>9

LEMMA StampedTyped ==
    ASSUME NEW r \in Records, NEW t \in Turned
    PROVE  /\ Stamped(r, t) \in Turned
           /\ Stamped(r, t) = [t EXCEPT !.by = Stamped(r, t).by]
           /\ Stamped(r, t).kind = t.kind /\ Stamped(r, t).status = t.status
           /\ Stamped(r, t).project = t.project
           /\ t.kind # "plan_generated" => Stamped(r, t) = t
           /\ t.kind = "plan_generated" /\ Some(r, "plan_generation_reserved") =>
                 \E i \in DOMAIN r.turns : /\ r.turns[i].kind = "plan_generation_reserved"
                                           /\ Stamped(r, t).by = r.turns[i].by
           /\ t.kind = "plan_generated" /\ ~Some(r, "plan_generation_reserved") => Stamped(r, t) = t
<1> DEFINE k == LastIndex(r, {"plan_generation_reserved"})
<1>1. r.turns \in Seq(Turned) /\ DOMAIN r.turns = 1 .. Len(r.turns)
  BY DEF Records
<1>2. Reserved(r) <=> Some(r, "plan_generation_reserved")
  BY HasSome DEF Reserved
<1>3. CASE t.kind = "plan_generated" /\ Reserved(r)
  <2>1. k > 0 /\ k \in 0 .. Len(r.turns) /\ r.turns[k].kind \in {"plan_generation_reserved"}
    BY <1>1, <1>3, LastIndexFacts DEF Reserved, Has
  <2>2. k \in DOMAIN r.turns /\ r.turns[k] \in Turned
    BY <1>1, <2>1
  <2>3. Stamped(r, t) = [t EXCEPT !.by = r.turns[k].by]
    BY <1>3 DEF Stamped
  <2> HIDE DEF k
  <2>4. Stamped(r, t) \in Turned
    BY <2>2, <2>3 DEF Turned, Fields
  <2>5. QED
    BY <1>2, <1>3, <2>1, <2>2, <2>3, <2>4 DEF Turned, Fields
<1>4. CASE ~ (t.kind = "plan_generated" /\ Reserved(r))
  <2>1. Stamped(r, t) = t
    BY <1>4 DEF Stamped
  <2>2. t = [t EXCEPT !.by = t.by]
    BY DEF Turned, Fields
  <2>3. QED
    BY <1>2, <1>4, <2>1, <2>2
<1>5. QED
  BY <1>3, <1>4

LEMMA AppendedTyped ==
    ASSUME NEW r \in Records, NEW t \in Turned, May(r, t)
    PROVE  /\ Appended(r, t) \in Records
           /\ Appended(r, t).profile = r.profile
           /\ Appended(r, t).turns = Append(r.turns, Stamped(r, t))
           /\ Appended(r, t).state = StateAfter(r, t)
<1>1. Append(r.turns, Stamped(r, t)) \in Seq(Turned)
  BY StampedTyped DEF Records
<1>2. StateAfter(r, t) \in States
  BY DEF StateAfter, States, Records, Turned, Fields, Kinds, AfterWorkflow, AfterAction
<1>3. QED
  BY <1>1, <1>2 DEF Appended, Records

-----------------------------------------------------------------------------
(* What every Command has behind it where it is.                           *)

Pcs == {"idle", "begin", "refused", "generate", "planner", "write", "claim", "resolve", "bootstrap",
        "tasks", "dependencies", "plan_workflow", "run", "intent", "publish", "outcome", "succeeded"}

\* Where a Command has read the record.
Reading == Pcs \ {"idle", "begin", "refused"}

NoTurn == Idle.turn

Places ==
    [pc : Pcs, op : Ops \cup {"none"}, at : Nat, record : Records \cup {NoSession},
     turn : Turned \cup {NoTurn}, name : Seq(Nat)]

Folders ==
    [owner : Commands, tasks : SUBSET (Commands \X (Nat \ {0})), dependencies : Commands \cup {NoCommand}]

WorldTyped ==
    /\ projects \in [DOMAIN projects -> Folders]
    /\ DOMAIN projects \subseteq Seq(Nat)
    /\ IsFiniteSet(DOMAIN projects) /\ IsFiniteSet(claims)
    /\ calls \subseteq Commands /\ runs \subseteq Commands /\ intents \subseteq Commands
    /\ posts \subseteq Commands /\ outcomes \subseteq Commands

Typed ==
    /\ session \in Records \cup {NoSession}
    /\ proc \in [Commands -> Places]
    /\ WorldTyped

At(c, pcs) == proc[c].pc \in pcs

\* The Command is about to append a Turn of a kind.
Writing(c, kind) == At(c, {"write"}) /\ proc[c].turn.kind = kind

\* Before the record exists nothing has happened.
NothingBefore ==
    ~Exists =>
        /\ \A c \in Commands : At(c, {"idle", "begin", "refused"})
        /\ claims = {} /\ calls = {} /\ runs = {} /\ DOMAIN projects = {}

\* What a Command has read is valid and of this Session's past.
HeldIsPast ==
    /\ Exists => Valid(session)
    /\ \A c \in Commands :
          IF proc[c].record = NoSession THEN ~At(c, Reading)
          ELSE /\ Exists /\ Valid(proc[c].record) /\ proc[c].record.profile = session.profile
               /\ IsPrefix(proc[c].record.turns, session.turns)

\* A Turn that is about to be appended is the Command's, the record it was
\* decided on takes it, and what it tells was done.
Told(c, r, t) ==
    /\ t \in Turned /\ t.by = c /\ May(r, t)
    /\ t.kind = "plan_generated" => c \in calls
    /\ t.kind = "plan_applied" =>
          /\ t.project \in DOMAIN projects
          /\ Cardinality(TasksOf(c, t.project)) = CurrentPlan(r).tasks
          /\ projects[t.project].dependencies = c
    /\ t.kind = "workflow_recorded" => c \in runs /\ t.status \in WorkflowStatuses
    /\ t.status = "published" => t.kind = "action_recorded" /\ c \in intents \cap posts \cap outcomes
    /\ Bounded(r) => t.kind \notin {"clarification_answered", "revision_recovery_started"}

TurnsAreDone == \A c \in Commands : At(c, {"write"}) => Told(c, proc[c].record, proc[c].turn)

Published ==
    \A c \in Commands : /\ At(c, {"publish"}) => c \in intents
                        /\ At(c, {"outcome"}) => c \in intents \cap posts

\* A Command that has not applied its Plan yet has recorded none.
Applying == {"idle", "begin", "claim", "resolve", "bootstrap", "tasks", "dependencies"}
AppliesLater ==
    \A c \in Commands :
        At(c, Applying) \/ Writing(c, "plan_applied") =>
            NoneOf(session, "plan_applied", c)

\* The Tasks a Command has created so far are numbered without a gap.
FirstTasks(c, m) == {<<c, k>> : k \in 1 .. m}
Numbered(S, c) == \E m \in Nat : S = FirstTasks(c, m)
TasksNumbered ==
    \A c \in Commands :
        /\ At(c, {"idle", "begin", "claim", "resolve", "bootstrap"}) =>
              \A name \in DOMAIN projects : TasksOf(c, name) = {}
        /\ At(c, {"tasks", "dependencies"}) => proc[c].name \in DOMAIN projects
        /\ At(c, {"tasks"}) => Numbered(TasksOf(c, proc[c].name), c)
        /\ At(c, {"dependencies"}) =>
              Cardinality(TasksOf(c, proc[c].name)) = CurrentPlan(proc[c].record).tasks

\* In a bounded Session only the Command that reserved it calls the Provider,
\* only the one that applied the Plan runs a Workflow, and every Project, made
\* or about to be made, has its approval.
Calling == calls \cup {c \in Commands : At(c, {"planner"}) \/ Writing(c, "plan_generated")}
Runners == runs \cup {c \in Commands : At(c, {"plan_workflow", "run"}) \/ Writing(c, "workflow_recorded")}
Approved == {c \in Commands : At(c, {"resolve", "bootstrap"})}

BoundedPart ==
    Exists /\ Bounded(session) =>
        /\ \A c \in Calling : /\ Some(session, "plan_generation_reserved")
                              /\ OnlyOf(session, "plan_generation_reserved", c)
        /\ \A c \in Runners : /\ Some(session, "plan_applied")
                              /\ OnlyOf(session, "plan_applied", c)
        /\ session.state \in {"plan_generation_approval_required", "clarification_required",
                              "plan_approval_required"} => ~Some(session, "plan_applied")
        /\ IsFiniteSet(Approved)
        /\ Cardinality(DOMAIN projects) + Cardinality(Approved) <= Cardinality(claims)

\* Nobody reserves a planning attempt in a standard Session.
OnlyBoundedReserve ==
    Exists /\ Some(session, "plan_generation_reserved") => Bounded(session)

\* RecordedIsDone, Turn by Turn, of Projects that are there.
TurnStands(r, i) ==
    LET t == r.turns[i] IN
    /\ t.kind = "plan_generated" => t.by \in calls
    /\ t.kind = "plan_applied" =>
          /\ t.project \in DOMAIN projects
          /\ Cardinality(TasksOf(t.by, t.project)) =
                CurrentPlan([r EXCEPT !.turns = SubSeq(@, 1, i)]).tasks
          /\ projects[t.project].dependencies = t.by
    /\ t.kind = "workflow_recorded" => t.by \in runs
    /\ t.status = "published" => t.kind = "action_recorded" /\ t.by \in intents \cap posts \cap outcomes

HistoryStands == \A i \in DOMAIN session.turns : TurnStands(session, i)

IInv ==
    /\ Typed
    /\ NothingBefore
    /\ HeldIsPast
    /\ TurnsAreDone
    /\ Published
    /\ AppliesLater
    /\ TasksNumbered
    /\ BoundedPart
    /\ OnlyBoundedReserve
    /\ HistoryStands

\* What the replay has found is what the methods look up.
Agrees(r) ==
    LET a == Replayed(r) IN
    /\ a.ok /\ a.state = r.state /\ a.bounded = (r.profile = "bounded_acceptance")
    /\ a.plan = CurrentPlan(r) /\ a.answered = AnsweredCount(r)
    /\ a.reservedBy = IF Reserved(r)
                      THEN r.turns[LastIndex(r, {"plan_generation_reserved"})].by ELSE NoCommand
    /\ a.project = AppliedProject(r) /\ a.worked = (LatestWorkflow(r) # "none")
    /\ a.archived = IsArchived(r)

ReplayAgrees == Exists => Agrees(session)

-----------------------------------------------------------------------------
(* Steps that leave the record alone.                                      *)

LEMMA HistoryIsRecorded ==
    ASSUME Typed, HistoryStands
    PROVE  RecordedIsDone
<1>1. SUFFICES ASSUME NEW i \in DOMAIN session.turns
               PROVE  LET t == session.turns[i]
                          c == t.by
                          before == [session EXCEPT !.turns = SubSeq(@, 1, i)] IN
                      CASE t.kind = "plan_generated" -> c \in calls
                        [] t.kind = "plan_applied" ->
                             /\ Cardinality(TasksOf(c, t.project)) = CurrentPlan(before).tasks
                             /\ projects[t.project].dependencies = c
                        [] t.kind = "workflow_recorded" -> c \in runs
                        [] t.status = "published" -> c \in intents \cap posts \cap outcomes
                        [] OTHER -> TRUE
  BY DEF RecordedIsDone
<1>2. TurnStands(session, i)
  BY DEF HistoryStands
<1> DEFINE t == session.turns[i]
<1>3. CASE t.kind = "plan_generated"
  BY <1>2, <1>3 DEF TurnStands
<1>4. CASE t.kind = "plan_applied"
  BY <1>2, <1>4 DEF TurnStands
<1>5. CASE t.kind = "workflow_recorded"
  BY <1>2, <1>5 DEF TurnStands
<1>6. CASE t.kind \notin {"plan_generated", "plan_applied", "workflow_recorded"}
  BY <1>2, <1>6 DEF TurnStands
<1>7. QED
  BY <1>3, <1>4, <1>5, <1>6

\* What a step of c adds to the world, and what it leaves there of others.
Adds(c) ==
    /\ calls \subseteq calls' /\ runs \subseteq runs' /\ intents \subseteq intents'
    /\ posts \subseteq posts' /\ outcomes \subseteq outcomes'
    /\ \A name \in DOMAIN projects :
          /\ name \in DOMAIN projects'
          /\ projects[name].dependencies # NoCommand =>
                projects'[name].dependencies = projects[name].dependencies
          /\ \A d \in Commands : d # c \/ ~At(c, {"tasks"}) => TasksOf(d, name)' = TasksOf(d, name)
    /\ \A name \in DOMAIN projects' : name \notin DOMAIN projects =>
          \A d \in Commands : TasksOf(d, name)' = {}

\* The world stays as it is.
LEMMA AddsNothing ==
    ASSUME UNCHANGED projects, UNCHANGED <<calls, runs, intents, posts, outcomes>>, NEW c
    PROVE  Adds(c)
BY DEF Adds, TasksOf

\* What a Command holds of the record.
Past(p) ==
    IF p.record = NoSession THEN p.pc \notin Reading
    ELSE /\ p.record \in Records /\ Valid(p.record) /\ p.record.profile = session.profile
         /\ IsPrefix(p.record.turns, session.turns)

LEMMA RecordedStands ==
    ASSUME IInv, NEW c \in Commands, Exists, session' = session, Adds(c)
    PROVE  HistoryStands'
<1>1. SUFFICES ASSUME NEW i \in DOMAIN session.turns PROVE TurnStands(session, i)'
  BY DEF HistoryStands
<1> DEFINE t == session.turns[i]
<1>2. TurnStands(session, i)
  BY DEF IInv, HistoryStands
<1>3. t \in Turned /\ t.by \in Commands /\ t.by # NoCommand
  <2>1. session.turns \in Seq(Turned)
    BY DEF IInv, Typed, Exists, Records
  <2>2. t \in Turned
    BY <2>1
  <2> HIDE DEF t
  <2>3. QED
    BY <2>2, PlansAssumption DEF Turned, Fields
<1>4. t.kind = "plan_applied" =>
         /\ t.project \in DOMAIN projects'
         /\ TasksOf(t.by, t.project)' = TasksOf(t.by, t.project)
         /\ projects'[t.project].dependencies = t.by
  <2>1. SUFFICES ASSUME t.kind = "plan_applied"
                 PROVE  /\ t.project \in DOMAIN projects'
                        /\ TasksOf(t.by, t.project)' = TasksOf(t.by, t.project)
                        /\ projects'[t.project].dependencies = t.by
    OBVIOUS
  <2>2. t.project \in DOMAIN projects /\ projects[t.project].dependencies = t.by
    BY <1>2, <2>1 DEF TurnStands
  <2>3. t.by = c => ~At(c, {"tasks"})
    BY <2>1 DEF IInv, AppliesLater, NoneOf, At, Applying
  <2>4. QED
    BY <1>3, <2>2, <2>3 DEF Adds
<1>5. TurnStands(session, i)'
  BY <1>2, <1>4 DEF TurnStands, Adds
<1>6. QED
  BY <1>5

\* A step of c that keeps the record, by what it leaves c with.
LEMMA WithinKeeps ==
    ASSUME IInv, NEW c \in Commands, Exists, session' = session, Adds(c), WorldTyped',
           NEW p \in Places, proc' = [proc EXCEPT ![c] = p], Past(p),
           p.pc = "write" => Told(c, p.record, p.turn)',
           p.pc = "publish" => c \in intents',
           p.pc = "outcome" => c \in intents' \cap posts',
           p.pc \in Applying \/ (p.pc = "write" /\ p.turn.kind = "plan_applied") => At(c, Applying),
           p.pc \in {"idle", "begin", "claim", "resolve", "bootstrap"} =>
              At(c, {"idle", "begin", "claim", "resolve", "bootstrap"}),
           p.pc \in {"tasks", "dependencies"} => p.name \in DOMAIN projects',
           p.pc = "tasks" => Numbered(TasksOf(c, p.name)', c),
           p.pc = "dependencies" => Cardinality(TasksOf(c, p.name)') = CurrentPlan(p.record).tasks,
           BoundedPart'
    PROVE  IInv'
<1>1. \A d \in Commands : d # c => proc'[d] = proc[d]
  BY DEF IInv, Typed
<1>2. proc'[c] = p
  BY DEF IInv, Typed
<1>11. Typed'
  <2>1. proc' \in [Commands -> Places]
    BY DEF IInv, Typed
  <2>2. QED
    BY <2>1 DEF IInv, Typed
<1>3. NothingBefore'
  BY DEF NothingBefore, Exists
<1>4. HeldIsPast'
  BY <1>1, <1>2 DEF IInv, HeldIsPast, Past, At, Exists
<1>5. TurnsAreDone'
  <2>1. SUFFICES ASSUME NEW d \in Commands, At(d, {"write"})'
                 PROVE  Told(d, proc[d].record, proc[d].turn)'
    BY DEF TurnsAreDone
  <2>2. CASE d = c
    BY <1>2, <2>1, <2>2 DEF At
  <2>3. CASE d # c
    <3>1. proc'[d] = proc[d] /\ Told(d, proc[d].record, proc[d].turn)
      BY <1>1, <2>1, <2>3 DEF IInv, TurnsAreDone, At
    <3> DEFINE t == proc[d].turn
    <3>2. t.kind = "plan_applied" =>
             /\ t.project \in DOMAIN projects'
             /\ TasksOf(d, t.project)' = TasksOf(d, t.project)
             /\ projects'[t.project].dependencies = d
      BY <2>3, <3>1, PlansAssumption DEF Told, Adds
    <3>3. QED
      BY <3>1, <3>2 DEF Told, Adds, Bounded
  <2>4. QED
    BY <2>2, <2>3
<1>6. Published'
  BY <1>1, <1>2 DEF IInv, Published, Adds, At
<1>7. AppliesLater'
  BY <1>1, <1>2 DEF IInv, AppliesLater, NoneOf, At, Writing
<1>8. TasksNumbered'
  <2>1. SUFFICES ASSUME NEW d \in Commands
                 PROVE  (/\ At(d, {"idle", "begin", "claim", "resolve", "bootstrap"}) =>
                              \A name \in DOMAIN projects : TasksOf(d, name) = {}
                         /\ At(d, {"tasks", "dependencies"}) => proc[d].name \in DOMAIN projects
                         /\ At(d, {"tasks"}) => Numbered(TasksOf(d, proc[d].name), d)
                         /\ At(d, {"dependencies"}) =>
                              Cardinality(TasksOf(d, proc[d].name)) = CurrentPlan(proc[d].record).tasks)'
    BY DEF TasksNumbered
  <2>2. CASE d = c
    <3>1. At(c, {"idle", "begin", "claim", "resolve", "bootstrap"})' =>
             \A name \in DOMAIN projects' : TasksOf(c, name)' = {}
      BY <1>2 DEF IInv, TasksNumbered, Adds, At
    <3>2. QED
      BY <1>2, <2>2, <3>1 DEF At, TasksOf
  <2>3. CASE d # c
    <3>1. proc'[d] = proc[d]
      BY <1>1, <2>3
    <3>2. At(d, {"idle", "begin", "claim", "resolve", "bootstrap"})' =>
             \A name \in DOMAIN projects' : TasksOf(d, name)' = {}
      BY <2>3, <3>1 DEF IInv, TasksNumbered, Adds, At
    <3>3. ASSUME At(d, {"tasks", "dependencies"})
          PROVE  /\ proc[d].name \in DOMAIN projects'
                 /\ TasksOf(d, proc[d].name)' = TasksOf(d, proc[d].name)
      <4>1. proc[d].name \in DOMAIN projects
        BY <3>3 DEF IInv, TasksNumbered
      <4>2. QED
        BY <2>3, <3>1, <4>1 DEF Adds, TasksOf
    <3>4. QED
      BY <3>1, <3>2, <3>3 DEF IInv, TasksNumbered, At
  <2>4. QED
    BY <2>2, <2>3
<1>9. HistoryStands'
  BY RecordedStands
<1>12. OnlyBoundedReserve'
  BY DEF IInv, OnlyBoundedReserve, Exists, Some, Bounded
<1>10. QED
  BY <1>12, <1>11, <1>3, <1>4, <1>5, <1>6, <1>7, <1>8, <1>9 DEF IInv

LEMMA BoundedWithin ==
    ASSUME IInv, NEW c \in Commands, Exists, session' = session,
           NEW p \in Places, proc' = [proc EXCEPT ![c] = p],
           Bounded(session) =>
              /\ calls' \subseteq Calling /\ runs' \subseteq Runners
              /\ p.pc = "planner" \/ (p.pc = "write" /\ p.turn.kind = "plan_generated") => c \in Calling
              /\ p.pc \in {"plan_workflow", "run"} \/ (p.pc = "write" /\ p.turn.kind = "workflow_recorded")
                    => c \in Runners
              /\ IsFiniteSet(Approved')
              /\ Cardinality(DOMAIN projects') + Cardinality(Approved') <= Cardinality(claims')
    PROVE  BoundedPart'
<1>1. /\ \A d \in Commands : d # c => proc'[d] = proc[d]
      /\ proc'[c] = p
  BY DEF IInv, Typed
<1>2. SUFFICES ASSUME Bounded(session)
               PROVE  /\ \A d \in Calling' : /\ Some(session, "plan_generation_reserved")
                                             /\ OnlyOf(session, "plan_generation_reserved", d)
                      /\ \A d \in Runners' : /\ Some(session, "plan_applied")
                                             /\ OnlyOf(session, "plan_applied", d)
                      /\ session.state \in {"plan_generation_approval_required", "clarification_required",
                                            "plan_approval_required"} => ~Some(session, "plan_applied")
                      /\ IsFiniteSet(Approved')
                      /\ Cardinality(DOMAIN projects') + Cardinality(Approved') <= Cardinality(claims')
  BY DEF BoundedPart, Bounded, Some, OnlyOf
<1>3. Calling' \subseteq Calling
  BY <1>1, <1>2 DEF Calling, At, Writing
<1>4. Runners' \subseteq Runners
  BY <1>1, <1>2 DEF Runners, At, Writing
<1>5. QED
  BY <1>2, <1>3, <1>4 DEF IInv, BoundedPart

\* Nobody new holds an approval.
LEMMA SameApprovals ==
    ASSUME IInv, NEW c \in Commands, Exists, Bounded(session),
           NEW p \in Places, proc' = [proc EXCEPT ![c] = p],
           p.pc \in {"resolve", "bootstrap"} => c \in Approved,
           claims' = claims, DOMAIN projects' = DOMAIN projects
    PROVE  /\ IsFiniteSet(Approved')
           /\ Cardinality(DOMAIN projects') + Cardinality(Approved') <= Cardinality(claims')
<1>1. Approved' \subseteq Approved
  BY DEF IInv, Typed, Approved, At
<1>2. /\ IsFiniteSet(Approved)
      /\ Cardinality(DOMAIN projects) + Cardinality(Approved) <= Cardinality(claims)
  BY DEF IInv, BoundedPart
<1>3. IsFiniteSet(Approved') /\ Cardinality(Approved') <= Cardinality(Approved)
  BY <1>1, <1>2, FS_Subset
<1>4. Cardinality(DOMAIN projects) \in Nat /\ Cardinality(Approved) \in Nat
      /\ Cardinality(Approved') \in Nat /\ Cardinality(claims) \in Nat
  BY <1>2, <1>3, FS_CardinalityType DEF IInv, Typed, WorldTyped
<1>5. QED
  BY <1>2, <1>3, <1>4

\* A step to a place that needs nothing new from the world.
LEMMA MoveKeeps ==
    ASSUME IInv, NEW c \in Commands, Exists, session' = session, Adds(c), WorldTyped',
           NEW p \in Places, proc' = [proc EXCEPT ![c] = p], Past(p),
           p.pc \notin {"write", "tasks", "dependencies"},
           p.pc = "publish" => c \in intents',
           p.pc = "outcome" => c \in intents' \cap posts',
           p.pc \in Applying => At(c, {"idle", "begin", "claim", "resolve", "bootstrap"}),
           Bounded(session) =>
              /\ calls' \subseteq Calling /\ runs' \subseteq Runners
              /\ p.pc = "planner" => c \in Calling
              /\ p.pc \in {"plan_workflow", "run"} => c \in Runners
              /\ p.pc \in {"resolve", "bootstrap"} => c \in Approved
              /\ claims' = claims /\ DOMAIN projects' = DOMAIN projects
    PROVE  IInv'
<1>1. BoundedPart'
  <2>1. Bounded(session) => /\ IsFiniteSet(Approved')
                            /\ Cardinality(DOMAIN projects') + Cardinality(Approved') <= Cardinality(claims')
    BY SameApprovals
  <2>2. QED
    BY <2>1, BoundedWithin
<1>2. p.pc \in Applying => At(c, Applying)
  BY DEF At, Applying
<1>3. p.pc \in {"idle", "begin", "claim", "resolve", "bootstrap"} =>
         At(c, {"idle", "begin", "claim", "resolve", "bootstrap"})
  BY DEF Applying
<1>4. QED
  BY <1>1, <1>2, <1>3, WithinKeeps

LEMMA IdleIsPlace ==
    /\ Idle \in Places /\ [Idle EXCEPT !.pc = "refused"] \in Places
    /\ Idle.record = NoSession /\ Idle.pc = "idle"
    /\ NoTurn \notin Turned /\ NoSession \notin Records
<1>1. <<>> \in Seq(Nat)
  OBVIOUS
<1>2. NoTurn.by = NoCommand
  BY DEF NoTurn, Idle, Turn
<1>3. NoTurn \notin Turned
  BY <1>2, PlansAssumption DEF Turned, Fields
<1>4. NoSession \notin Records
  BY DEF NoSession, Records, Profiles
<1>5. Idle \in Places /\ [Idle EXCEPT !.pc = "refused"] \in Places
  BY <1>1 DEF Idle, Places, Pcs, NoTurn, NoProject
<1>6. QED
  BY <1>3, <1>4, <1>5 DEF Idle

LEMMA DecisionMoves ==
    ASSUME proc \in [Commands -> Places], NEW c \in Commands, NEW r \in Records, NEW turn \in Turned,
           Decides(c, r, turn)
    PROVE  \E p \in Places :
              /\ proc' = [proc EXCEPT ![c] = p]
              /\ \/ p.pc = "refused" /\ p.record = NoSession
                 \/ /\ p.pc = "write" /\ p.record = r /\ p.turn = turn /\ May(r, turn)
<1>1. CASE May(r, turn)
  <2> DEFINE h == [proc[c] EXCEPT !.record = r, !.turn = turn]
             p == [h EXCEPT !.pc = "write"]
  <2>1. proc' = [proc EXCEPT ![c] = p]
    BY <1>1 DEF Decides, Holds
  <2>2. p \in Places /\ p.pc = "write" /\ p.record = r /\ p.turn = turn
    BY DEF Places, Pcs
  <2> HIDE DEF p
  <2>3. QED
    BY <1>1, <2>1, <2>2
<1>2. CASE ~May(r, turn)
  <2> DEFINE p == [Idle EXCEPT !.pc = "refused"]
  <2>1. proc' = [proc EXCEPT ![c] = p]
    BY <1>2 DEF Decides, Holds
  <2>2. p \in Places /\ p.pc = "refused" /\ p.record = NoSession
    BY IdleIsPlace DEF Idle
  <2> HIDE DEF p
  <2>3. QED
    BY <2>1, <2>2
<1>3. QED
  BY <1>1, <1>2

\* A Command decides on a Turn, and what the Turn tells is done by then.
LEMMA DecisionKeeps ==
    ASSUME IInv, NEW c \in Commands, Exists, session' = session, Adds(c), WorldTyped',
           NEW r \in Records, Valid(r), r.profile = session.profile, IsPrefix(r.turns, session.turns),
           NEW turn \in Turned, Decides(c, r, turn),
           May(r, turn) => Told(c, r, turn)',
           turn.kind = "plan_applied" => At(c, Applying),
           claims' = claims, DOMAIN projects' = DOMAIN projects,
           Bounded(session) =>
              /\ calls' \subseteq Calling /\ runs' \subseteq Runners
              /\ turn.kind = "plan_generated" => c \in Calling
              /\ turn.kind = "workflow_recorded" => c \in Runners
    PROVE  IInv'
<1>1. PICK p \in Places :
         /\ proc' = [proc EXCEPT ![c] = p]
         /\ \/ p.pc = "refused" /\ p.record = NoSession
            \/ /\ p.pc = "write" /\ p.record = r /\ p.turn = turn /\ May(r, turn)
  BY DecisionMoves DEF IInv, Typed
<1>2. Past(p)
  BY <1>1, IdleIsPlace DEF Past, Reading
<1>3. CASE p.pc = "refused" /\ p.record = NoSession
  BY <1>1, <1>2, <1>3, MoveKeeps DEF Applying
<1>4. CASE p.pc = "write" /\ p.record = r /\ p.turn = turn /\ May(r, turn)
  <2>1. BoundedPart'
    <3>1. Bounded(session) => /\ IsFiniteSet(Approved')
                              /\ Cardinality(DOMAIN projects') + Cardinality(Approved') <= Cardinality(claims')
      BY <1>1, <1>4, SameApprovals
    <3>2. QED
      BY <1>1, <1>4, <3>1, BoundedWithin
  <2>2. Told(c, p.record, p.turn)'
    BY <1>4
  <2>3. QED
    BY <1>1, <1>2, <1>4, <2>1, <2>2, WithinKeeps DEF Applying
<1>5. QED
  BY <1>1, <1>3, <1>4

\* What a Command reads now is of the past tomorrow.
LEMMA SessionIsPast ==
    ASSUME IInv, Exists
    PROVE  /\ session \in Records /\ Valid(session) /\ IsPrefix(session.turns, session.turns)
           /\ session # NoSession
<1>1. session \in Records /\ Valid(session) /\ session # NoSession
  BY DEF IInv, Typed, HeldIsPast, Exists
<1>2. session.turns \in Seq(Turned)
  BY <1>1 DEF Records
<1>3. IsPrefix(session.turns, session.turns)
  BY <1>2, PrefixFacts
<1>4. QED
  BY <1>1, <1>3

\* What a Command holds that has read the record.
LEMMA HeldFacts ==
    ASSUME IInv, NEW c \in Commands, At(c, Reading)
    PROVE  /\ Exists /\ proc[c].record # NoSession /\ Past(proc[c])
           /\ proc[c].record \in Records /\ Valid(proc[c].record)
           /\ proc[c].record.profile = session.profile /\ IsPrefix(proc[c].record.turns, session.turns)
<1>1. proc[c] \in Places
  BY DEF IInv, Typed
<1>2. QED
  BY <1>1 DEF IInv, HeldIsPast, Past, Places

\* The world stays as it is: effects of this step, if any, are in memory.
LEMMA WorldStays ==
    ASSUME IInv, UNCHANGED effects, NEW c \in Commands
    PROVE  /\ WorldTyped' /\ Adds(c) /\ claims' = claims /\ DOMAIN projects' = DOMAIN projects
           /\ Exists /\ Bounded(session) => calls' \subseteq Calling /\ runs' \subseteq Runners
<1>1. UNCHANGED <<claims, projects, calls, runs, intents, posts, outcomes>>
  BY DEF effects
<1>2. WorldTyped'
  BY <1>1 DEF IInv, Typed, WorldTyped
<1>3. QED
  BY <1>1, <1>2, AddsNothing DEF Calling, Runners

-----------------------------------------------------------------------------
(* The actions, one by one.                                                *)

LEMMA SubmitKeeps ==
    ASSUME IInv, NEW c \in Commands, NEW op \in Ops, Submit(c, op)
    PROVE  IInv'
<1> DEFINE h == [Idle EXCEPT !.op = op, !.at = IF Exists THEN Version(session) ELSE 0]
           p == [h EXCEPT !.pc = "begin"]
<1>1. /\ proc[c].pc = "idle" /\ proc' = [proc EXCEPT ![c] = p] /\ session' = session
      /\ UNCHANGED effects
  BY DEF Submit, Holds
<1>2. p \in Places /\ p.pc = "begin" /\ p.record = NoSession
  <2>1. Version(session) \in Nat
    <3>1. session.turns = <<>> \/ session.turns \in Seq(Turned)
      BY DEF IInv, Typed, NoSession, Records
    <3>2. QED
      BY <3>1 DEF Version
  <2>2. h \in Places /\ h.record = NoSession
    BY <2>1, IdleIsPlace DEF Places, Idle
  <2> HIDE DEF h
  <2>3. QED
    BY <2>2 DEF Places, Pcs
<1>3. Past(p)
  BY <1>2 DEF Past, Reading
<1> HIDE DEF p
<1>4. /\ WorldTyped' /\ Adds(c) /\ claims' = claims /\ DOMAIN projects' = DOMAIN projects
      /\ Exists /\ Bounded(session) => calls' \subseteq Calling /\ runs' \subseteq Runners
  BY <1>1, WorldStays
<1>5. CASE Exists
  BY <1>1, <1>2, <1>3, <1>4, <1>5, MoveKeeps DEF At
<1>6. CASE ~Exists
  <2>1. \A d \in Commands : proc'[d] = IF d = c THEN p ELSE proc[d]
    BY <1>1 DEF IInv, Typed
  <2>2. UNCHANGED <<claims, projects, calls, runs, intents, posts, outcomes>>
    BY <1>1 DEF effects
  <2>3. /\ \A d \in Commands : At(d, {"idle", "begin", "refused"})
        /\ claims = {} /\ calls = {} /\ runs = {} /\ DOMAIN projects = {}
    BY <1>6 DEF IInv, NothingBefore
  <2>4. \A d \in Commands : At(d, {"idle", "begin", "refused"})'
    BY <1>2, <2>1, <2>3 DEF At
  <2>5. DOMAIN session.turns = {} /\ ~Exists'
    BY <1>1, <1>6 DEF Exists, NoSession
  <2>6. Typed'
    BY <1>1, <1>2, <1>4 DEF IInv, Typed
  <2>7. NothingBefore' /\ BoundedPart' /\ HistoryStands' /\ OnlyBoundedReserve'
    BY <1>1, <2>2, <2>3, <2>4, <2>5 DEF NothingBefore, BoundedPart, HistoryStands, OnlyBoundedReserve
  <2>8. HeldIsPast'
    <3>1. \A d \in Commands : proc'[d].record = NoSession
      BY <1>2, <1>6, <2>1 DEF IInv, HeldIsPast
    <3>2. QED
      BY <2>4, <2>5, <3>1 DEF HeldIsPast, At, Reading
  <2>9. TurnsAreDone' /\ Published'
    BY <2>4 DEF TurnsAreDone, Published, At
  <2>10. AppliesLater'
    BY <1>1, <2>5 DEF AppliesLater, NoneOf
  <2>11. TasksNumbered'
    BY <2>2, <2>3, <2>4 DEF TasksNumbered, At
  <2>12. QED
    BY <2>6, <2>7, <2>8, <2>9, <2>10, <2>11 DEF IInv
<1>7. QED
  BY <1>5, <1>6

\* A Turn that tells of nothing done in the world.
LEMMA PlainTold ==
    ASSUME NEW c, NEW r, NEW t \in Turned, t.by = c, May(r, t), t.status # "published",
           t.kind \notin {"plan_generated", "plan_applied", "workflow_recorded"},
           Bounded(r) => t.kind \notin {"clarification_answered", "revision_recovery_started"}
    PROVE  Told(c, r, t)'
BY DEF Told

LEMMA GenerateKeeps ==
    ASSUME IInv, NEW c \in Commands, Generate(c)
    PROVE  IInv'
<1>1. /\ proc[c].pc \in {"begin", "generate"} /\ Exists /\ session' = session /\ UNCHANGED effects
  BY DEF Generate, Begins, Reads
<1>2. /\ WorldTyped' /\ Adds(c) /\ claims' = claims /\ DOMAIN projects' = DOMAIN projects
      /\ Bounded(session) => calls' \subseteq Calling /\ runs' \subseteq Runners
  BY <1>1, WorldStays
<1>3. session \in Records /\ Valid(session) /\ IsPrefix(session.turns, session.turns) /\ session # NoSession
  BY <1>1, SessionIsPast
<1>4. CASE Bounded(session)
  <2>1. Decides(c, session, Reserve(c))
    BY <1>4 DEF Generate
  <2>2. PICK r \in Records : r = session
    BY <1>3
  <2>3. /\ Reserve(c) \in Turned /\ Reserve(c).by = c /\ Reserve(c).status = "none"
        /\ Reserve(c).kind = "plan_generation_reserved"
    BY TurnsTyped DEF Reserve, Turn
  <2>4. May(r, Reserve(c)) => Told(c, r, Reserve(c))'
    BY <2>3, PlainTold
  <2>5. QED
    BY <1>1, <1>2, <1>3, <2>1, <2>2, <2>3, <2>4, DecisionKeeps
<1>5. CASE ~Bounded(session)
  <2> DEFINE p == [[proc[c] EXCEPT !.record = session] EXCEPT !.pc = "planner"]
  <2>1. proc' = [proc EXCEPT ![c] = p]
    BY <1>5 DEF Generate, Holds
  <2>2. p \in Places /\ p.pc = "planner" /\ p.record = session
    BY <1>3 DEF IInv, Typed, Places, Pcs
  <2> HIDE DEF p
  <2>3. Past(p)
    BY <1>3, <2>2 DEF Past
  <2>4. QED
    BY <1>1, <1>2, <1>5, <2>1, <2>2, <2>3, MoveKeeps DEF Applying
<1>6. QED
  BY <1>4, <1>5

LEMMA CallPlannerKeeps ==
    ASSUME IInv, NEW c \in Commands, NEW plan \in Plans, CallPlanner(c, plan)
    PROVE  IInv'
<1>1. /\ proc[c].pc = "planner" /\ calls' = calls \cup {c} /\ session' = session
      /\ UNCHANGED <<claims, projects, runs, intents, posts, outcomes>>
      /\ Decides(c, proc[c].record, Generated(c, plan))
  BY DEF CallPlanner
<1>2. PICK r \in Records : /\ r = proc[c].record /\ Valid(r) /\ r.profile = session.profile
                           /\ IsPrefix(r.turns, session.turns) /\ Exists
  BY <1>1, HeldFacts DEF At, Reading, Pcs
<1>3. WorldTyped' /\ Adds(c)
  BY <1>1 DEF IInv, Typed, WorldTyped, Adds, TasksOf
<1>4. /\ Generated(c, plan) \in Turned /\ Generated(c, plan).by = c
      /\ Generated(c, plan).kind = "plan_generated" /\ Generated(c, plan).status = "none"
  BY TurnsTyped DEF Generated, Turn
<1>5. May(r, Generated(c, plan)) => Told(c, r, Generated(c, plan))'
  BY <1>1, <1>4 DEF Told
<1>6. c \in Calling /\ calls' \subseteq Calling /\ runs' \subseteq Runners
  BY <1>1 DEF Calling, Runners, At
<1>7. QED
  BY <1>1, <1>2, <1>3, <1>4, <1>5, <1>6, DecisionKeeps

LEMMA AnswerKeeps ==
    ASSUME IInv, NEW c \in Commands, NEW n \in Nat, Answer(c, n)
    PROVE  IInv'
<1>1. /\ Exists /\ ~Bounded(session) /\ session' = session /\ UNCHANGED effects
      /\ Decides(c, session, Answered(c, n))
  BY DEF Answer, Reads
<1>2. /\ WorldTyped' /\ Adds(c) /\ claims' = claims /\ DOMAIN projects' = DOMAIN projects
  BY <1>1, WorldStays
<1>3. PICK r \in Records : /\ r = session /\ Valid(r) /\ IsPrefix(r.turns, session.turns)
  BY <1>1, SessionIsPast
<1>4. /\ Answered(c, n) \in Turned /\ Answered(c, n).by = c /\ Answered(c, n).status = "none"
      /\ Answered(c, n).kind = "clarification_answered"
  BY TurnsTyped DEF Answered, Turn
<1>5. May(r, Answered(c, n)) => Told(c, r, Answered(c, n))'
  BY <1>1, <1>3, <1>4, PlainTold
<1>6. QED
  BY <1>1, <1>2, <1>3, <1>4, <1>5, DecisionKeeps

\* A Command opens the record as it is, for a place further on.
LEMMA OpenKeeps ==
    ASSUME IInv, NEW c \in Commands, Exists, session' = session, UNCHANGED effects,
           NEW to \in {"claim", "resolve", "run", "intent"},
           Holds(c, to, [proc[c] EXCEPT !.record = session]),
           At(c, {"begin", "plan_workflow"}),
           to \in {"claim", "resolve"} => At(c, {"begin"}),
           Bounded(session) => to # "resolve" /\ (to = "run" => c \in Runners)
    PROVE  IInv'
<1> DEFINE p == [[proc[c] EXCEPT !.record = session] EXCEPT !.pc = to]
<1>1. proc' = [proc EXCEPT ![c] = p]
  BY DEF Holds
<1>2. session \in Records /\ Valid(session) /\ IsPrefix(session.turns, session.turns) /\ session # NoSession
  BY SessionIsPast
<1>3. p \in Places /\ p.pc = to /\ p.record = session
  BY <1>2 DEF IInv, Typed, Places, Pcs
<1> HIDE DEF p
<1>4. Past(p)
  BY <1>2, <1>3 DEF Past
<1>5. /\ WorldTyped' /\ Adds(c) /\ claims' = claims /\ DOMAIN projects' = DOMAIN projects
      /\ Bounded(session) => calls' \subseteq Calling /\ runs' \subseteq Runners
  BY WorldStays
<1>6. p.pc \in Applying => At(c, {"idle", "begin", "claim", "resolve", "bootstrap"})
  BY <1>3 DEF Applying, At
<1>7. QED
  BY <1>1, <1>3, <1>4, <1>5, <1>6, MoveKeeps

LEMMA OpenPlanKeeps ==
    ASSUME IInv, NEW c \in Commands, OpenPlan(c)
    PROVE  IInv'
<1>1. /\ At(c, {"begin"}) /\ Exists /\ session' = session /\ UNCHANGED effects
      /\ \/ Holds(c, "claim", [proc[c] EXCEPT !.record = session])
         \/ ~Bounded(session) /\ Holds(c, "resolve", [proc[c] EXCEPT !.record = session])
  BY DEF OpenPlan, Begins, Reads, At
<1>2. QED
  BY <1>1, OpenKeeps DEF At

LEMMA PlanWorkflowKeeps ==
    ASSUME IInv, NEW c \in Commands, PlanWorkflow(c)
    PROVE  IInv'
<1>1. /\ At(c, {"begin", "plan_workflow"}) /\ Exists /\ session' = session /\ UNCHANGED effects
      /\ Bounded(session) => At(c, {"plan_workflow"})
      /\ Holds(c, "run", [proc[c] EXCEPT !.record = session])
  BY DEF PlanWorkflow, Begins, Reads, At
<1>2. Bounded(session) => c \in Runners
  BY <1>1 DEF Runners, At
<1>3. QED
  BY <1>1, <1>2, OpenKeeps

LEMMA PlanActionKeeps ==
    ASSUME IInv, NEW c \in Commands, PlanAction(c)
    PROVE  IInv'
<1>1. /\ At(c, {"begin", "plan_workflow"}) /\ Exists /\ session' = session /\ UNCHANGED effects
      /\ Holds(c, "intent", [proc[c] EXCEPT !.record = session])
  BY DEF PlanAction, Begins, Reads, At
<1>2. QED
  BY <1>1, OpenKeeps

LEMMA RecoverKeeps ==
    ASSUME IInv, NEW c \in Commands, Recover(c)
    PROVE  IInv'
<1> DEFINE turn == Turn("revision_recovery_started", c)
<1>1. /\ Exists /\ ~Bounded(session) /\ session' = session /\ UNCHANGED effects
      /\ Decides(c, session, turn)
  BY DEF Recover, Reads
<1>2. /\ WorldTyped' /\ Adds(c) /\ claims' = claims /\ DOMAIN projects' = DOMAIN projects
  BY <1>1, WorldStays
<1>3. PICK r \in Records : /\ r = session /\ Valid(r) /\ IsPrefix(r.turns, session.turns)
  BY <1>1, SessionIsPast
<1>4. turn \in Turned /\ turn.by = c /\ turn.status = "none" /\ turn.kind = "revision_recovery_started"
  BY TurnsTyped DEF Turn, Kinds
<1>5. PICK t \in Turned : t = turn
  BY <1>4
<1> HIDE DEF turn
<1>6. May(r, t) => Told(c, r, t)'
  BY <1>1, <1>3, <1>4, <1>5, PlainTold
<1>7. QED
  BY <1>1, <1>2, <1>3, <1>4, <1>5, <1>6, DecisionKeeps

LEMMA ToggleKeeps ==
    ASSUME IInv, NEW c \in Commands, Toggle(c)
    PROVE  IInv'
<1> DEFINE turn == Turn(IF proc[c].op = "archive" THEN "archived" ELSE "unarchived", c)
<1>1. /\ Exists /\ session' = session /\ UNCHANGED effects
      /\ Decides(c, session, turn)
  BY DEF Toggle
<1>2. /\ WorldTyped' /\ Adds(c) /\ claims' = claims /\ DOMAIN projects' = DOMAIN projects
      /\ Bounded(session) => calls' \subseteq Calling /\ runs' \subseteq Runners
  BY <1>1, WorldStays
<1>3. PICK r \in Records : /\ r = session /\ Valid(r) /\ IsPrefix(r.turns, session.turns)
  BY <1>1, SessionIsPast
<1>4. turn \in Turned /\ turn.by = c /\ turn.status = "none" /\ turn.kind \in {"archived", "unarchived"}
  BY TurnsTyped DEF Turn, Kinds
<1>5. PICK t \in Turned : t = turn
  BY <1>4
<1> HIDE DEF turn
<1>6. May(r, t) => Told(c, r, t)'
  BY <1>4, <1>5, PlainTold
<1>7. QED
  BY <1>1, <1>2, <1>3, <1>4, <1>5, <1>6, DecisionKeeps

-----------------------------------------------------------------------------
(* Projects.                                                               *)

\* A name is resolved to a free one, and left for another only if it is taken.
LEMMA ResolvedFree ==
    ASSUME NEW name \in Seq(Nat), NEW x \in Resolved(name)
    PROVE  x \in Seq(Nat) /\ x \notin DOMAIN projects /\ (x # name => name \in DOMAIN projects)
<1>1. CASE Free(name)
  BY <1>1 DEF Resolved, Free
<1>2. CASE ~Free(name)
  <2>1. x \in Suffixed(name) /\ Free(x)
    BY <1>2 DEF Resolved
  <2>2. PICK n \in 2 .. MaxSuffix : x = Append(name, n)
    BY <2>1 DEF Suffixed
  <2>3. n \in Nat
    BY OpsAssumption
  <2>4. x \in Seq(Nat)
    BY <2>2, <2>3
  <2>5. QED
    BY <1>2, <2>1, <2>4 DEF Free
<1>3. QED
  BY <1>1, <1>2

LEMMA ResolveKeeps ==
    ASSUME IInv, NEW c \in Commands, Resolve(c)
    PROVE  IInv'
<1>1. /\ proc[c].pc = "resolve" /\ session' = session /\ UNCHANGED effects
      /\ \E name \in Resolved(<<1>>) : Holds(c, "bootstrap", [proc[c] EXCEPT !.name = name])
  BY DEF Resolve
<1>2. PICK name \in Resolved(<<1>>) : Holds(c, "bootstrap", [proc[c] EXCEPT !.name = name])
  BY <1>1
<1>3. name \in Seq(Nat)
  <2>1. <<1>> \in Seq(Nat)
    OBVIOUS
  <2>2. QED
    BY <2>1, ResolvedFree
<1> DEFINE p == [[proc[c] EXCEPT !.name = name] EXCEPT !.pc = "bootstrap"]
<1>4. proc' = [proc EXCEPT ![c] = p]
  BY <1>2 DEF Holds
<1>5. p \in Places /\ p.pc = "bootstrap" /\ p.record = proc[c].record
  BY <1>3, ZenonT(60) DEF IInv, Typed, Places, Pcs
<1> HIDE DEF p
<1>6. Exists /\ Past(proc[c])
  BY <1>1, HeldFacts DEF At, Reading, Pcs
<1>7. Past(p)
  BY <1>1, <1>5, <1>6 DEF Past, Reading, Pcs
<1>8. /\ WorldTyped' /\ Adds(c) /\ claims' = claims /\ DOMAIN projects' = DOMAIN projects
      /\ Bounded(session) => calls' \subseteq Calling /\ runs' \subseteq Runners
  BY <1>1, <1>6, WorldStays
<1>9. c \in Approved /\ At(c, {"idle", "begin", "claim", "resolve", "bootstrap"})
  BY <1>1 DEF Approved, At
<1>10. QED
  BY <1>1, <1>4, <1>5, <1>6, <1>7, <1>8, <1>9, MoveKeeps

LEMMA ToMoves ==
    ASSUME proc \in [Commands -> Places], NEW c \in Commands, NEW to \in Pcs, To(c, to)
    PROVE  \E p \in Places : /\ proc' = [proc EXCEPT ![c] = p] /\ p.pc = to
                             /\ p.record = proc[c].record /\ p.name = proc[c].name
<1> DEFINE p == [proc[c] EXCEPT !.pc = to]
<1>1. proc' = [proc EXCEPT ![c] = p]
  BY DEF To
<1>2. p \in Places /\ p.pc = to /\ p.record = proc[c].record /\ p.name = proc[c].name
  BY DEF Places
<1> HIDE DEF p
<1>3. QED
  BY <1>1, <1>2

LEMMA CardinalNumbers ==
    ASSUME IInv
    PROVE  /\ Cardinality(DOMAIN projects) \in Nat /\ Cardinality(claims) \in Nat
           /\ IsFiniteSet(Approved) => Cardinality(Approved) \in Nat
BY FS_CardinalityType DEF IInv, Typed, WorldTyped

LEMMA ClaimKeeps ==
    ASSUME IInv, NEW c \in Commands, Claim(c)
    PROVE  IInv'
<1>1. /\ proc[c].pc = "claim" /\ Target(c) \notin claims /\ claims' = claims \cup {Target(c)}
      /\ To(c, "resolve") /\ UNCHANGED <<session, projects, calls, runs, intents, posts, outcomes>>
  BY DEF Claim
<1>2. PICK p \in Places : /\ proc' = [proc EXCEPT ![c] = p] /\ p.pc = "resolve"
                          /\ p.record = proc[c].record
  BY <1>1, ToMoves DEF IInv, Typed, Pcs
<1>3. Exists /\ Past(proc[c])
  BY <1>1, HeldFacts DEF At, Reading, Pcs
<1>4. Past(p)
  BY <1>1, <1>2, <1>3 DEF Past, Reading, Pcs
<1>5. /\ IsFiniteSet(claims') /\ Cardinality(claims') = Cardinality(claims) + 1
  BY <1>1, FS_AddElement DEF IInv, Typed, WorldTyped
<1>6. WorldTyped' /\ Adds(c)
  BY <1>1, <1>5, AddsNothing DEF IInv, Typed, WorldTyped
<1>7. BoundedPart'
  <2>1. ASSUME Bounded(session)
        PROVE  /\ IsFiniteSet(Approved')
               /\ Cardinality(DOMAIN projects') + Cardinality(Approved') <= Cardinality(claims')
    <3>1. Approved' = Approved \cup {c} /\ c \notin Approved
      BY <1>1, <1>2 DEF IInv, Typed, Approved, At
    <3>2. /\ IsFiniteSet(Approved)
          /\ Cardinality(DOMAIN projects) + Cardinality(Approved) <= Cardinality(claims)
      BY <1>3, <2>1 DEF IInv, BoundedPart
    <3>3. IsFiniteSet(Approved') /\ Cardinality(Approved') = Cardinality(Approved) + 1
      BY <3>1, <3>2, FS_AddElement
    <3>4. Cardinality(DOMAIN projects') = Cardinality(DOMAIN projects)
      BY <1>1
    <3>5. QED
      BY <1>5, <3>2, <3>3, <3>4, CardinalNumbers
  <2>2. calls' \subseteq Calling /\ runs' \subseteq Runners
    BY <1>1 DEF Calling, Runners
  <2>3. QED
    BY <1>1, <1>2, <1>3, <2>1, <2>2, BoundedWithin
<1>8. At(c, Applying) /\ At(c, {"idle", "begin", "claim", "resolve", "bootstrap"})
  BY <1>1 DEF At, Applying
<1>9. QED
  BY <1>1, <1>2, <1>3, <1>4, <1>6, <1>7, <1>8, WithinKeeps

LEMMA BootstrapKeeps ==
    ASSUME IInv, NEW c \in Commands, Bootstrap(c)
    PROVE  IInv'
<1>1. /\ proc[c].pc = "bootstrap" /\ To(c, "tasks")
      /\ UNCHANGED <<session, claims, calls, runs, intents, posts, outcomes>>
  BY DEF Bootstrap
<1>2. PICK name \in Resolved(proc[c].name) :
         projects' = [q \in DOMAIN projects \cup {name} |->
                         IF q = name THEN [owner |-> c, tasks |-> {}, dependencies |-> NoCommand]
                         ELSE projects[q]]
  BY DEF Bootstrap
<1>3. proc[c].name \in Seq(Nat)
  BY DEF IInv, Typed, Places
<1>4. name \in Seq(Nat) /\ name \notin DOMAIN projects /\ (name # proc[c].name => proc[c].name \in DOMAIN projects)
  BY <1>3, ResolvedFree
<1>5. /\ DOMAIN projects' = DOMAIN projects \cup {name}
      /\ \A q \in DOMAIN projects : projects'[q] = projects[q]
      /\ projects'[name] = [owner |-> c, tasks |-> {}, dependencies |-> NoCommand]
  BY <1>2, <1>4
<1>6. PICK p \in Places : /\ proc' = [proc EXCEPT ![c] = p] /\ p.pc = "tasks"
                          /\ p.record = proc[c].record /\ p.name = proc[c].name
  BY <1>1, ToMoves DEF IInv, Typed, Pcs
<1>7. Exists /\ Past(proc[c])
  BY <1>1, HeldFacts DEF At, Reading, Pcs
<1>8. Past(p)
  BY <1>1, <1>6, <1>7 DEF Past, Reading, Pcs
<1>9. /\ IsFiniteSet(DOMAIN projects') /\ Cardinality(DOMAIN projects') = Cardinality(DOMAIN projects) + 1
  <2>1. PICK T : T = DOMAIN projects
    OBVIOUS
  <2>2. IsFiniteSet(T) /\ name \notin T
    BY <1>4, <2>1 DEF IInv, Typed, WorldTyped
  <2>3. IsFiniteSet(T \cup {name}) /\ Cardinality(T \cup {name}) = Cardinality(T) + 1
    BY <2>2, FS_AddElement
  <2>4. QED
    BY <1>5, <2>1, <2>3
<1>10. WorldTyped'
  <2>1. projects' \in [DOMAIN projects' -> Folders]
    <3>1. [owner |-> c, tasks |-> {}, dependencies |-> NoCommand] \in Folders
      BY DEF Folders
    <3>2. \A q \in DOMAIN projects' : projects'[q] \in Folders
      BY <1>5, <3>1 DEF IInv, Typed, WorldTyped
    <3>3. projects' = [q \in DOMAIN projects' |-> projects'[q]]
      BY <1>2
    <3>4. QED
      BY <3>2, <3>3
  <2>2. QED
    BY <1>1, <1>4, <1>5, <1>9, <2>1 DEF IInv, Typed, WorldTyped
<1>11. \A d \in Commands : /\ \A q \in DOMAIN projects : TasksOf(d, q)' = TasksOf(d, q)
                           /\ TasksOf(d, name)' = {}
  BY <1>5 DEF TasksOf
<1>12. Adds(c)
  BY <1>1, <1>5, <1>11 DEF Adds
<1>13. p.name \in DOMAIN projects' /\ Numbered(TasksOf(c, p.name)', c)
  <2>1. p.name \in DOMAIN projects'
    BY <1>4, <1>5, <1>6
  <2>2. TasksOf(c, p.name)' = {}
    BY <1>1, <1>4, <1>6, <1>11 DEF IInv, TasksNumbered, At
  <2>3. {<<c, k>> : k \in 1 .. 0} = {}
    OBVIOUS
  <2>4. QED
    BY <2>1, <2>2, <2>3 DEF Numbered, FirstTasks
<1>14. BoundedPart'
  <2>1. ASSUME Bounded(session)
        PROVE  /\ IsFiniteSet(Approved')
               /\ Cardinality(DOMAIN projects') + Cardinality(Approved') <= Cardinality(claims')
    <3>1. Approved' = Approved \ {c} /\ c \in Approved
      BY <1>1, <1>6 DEF IInv, Typed, Approved, At
    <3>2. /\ IsFiniteSet(Approved)
          /\ Cardinality(DOMAIN projects) + Cardinality(Approved) <= Cardinality(claims)
      BY <1>7, <2>1 DEF IInv, BoundedPart
    <3>3. IsFiniteSet(Approved') /\ Cardinality(Approved') = Cardinality(Approved) - 1
      BY <3>1, <3>2, FS_RemoveElement
    <3>4. QED
      BY <1>1, <1>9, <3>2, <3>3, CardinalNumbers
  <2>2. calls' \subseteq Calling /\ runs' \subseteq Runners
    BY <1>1 DEF Calling, Runners
  <2>3. QED
    BY <1>1, <1>6, <1>7, <2>1, <2>2, BoundedWithin
<1>15. At(c, Applying)
  BY <1>1 DEF At, Applying
<1>16. QED
  BY <1>1, <1>6, <1>7, <1>8, <1>10, <1>12, <1>13, <1>14, <1>15, WithinKeeps

LEMMA NumberedTasks ==
    ASSUME NEW c, NEW m \in Nat, NEW S, S = FirstTasks(c, m)
    PROVE  IsFiniteSet(S) /\ Cardinality(S) = m
<1> USE DEF FirstTasks
<1> DEFINE f == [k \in 1 .. m |-> <<c, k>>]
<1>1. IsFiniteSet(1 .. m) /\ Cardinality(1 .. m) = m
  <2>1. 1 \in Int /\ m \in Int /\ (1 > m => m = 0) /\ m - 1 + 1 = m
    OBVIOUS
  <2>2. QED
    BY <2>1, FS_Interval
<1>2. f \in [1 .. m -> S]
  OBVIOUS
<1>3. \A a, b \in 1 .. m : f[a] = f[b] => a = b
  OBVIOUS
<1>4. \A y \in S : \E k \in 1 .. m : f[k] = y
  OBVIOUS
<1> HIDE DEF f
<1>5. f \in Bijection(1 .. m, S)
  BY <1>2, <1>3, <1>4 DEF Bijection, Injection, Surjection, IsInjective
<1>6. ExistsBijection(1 .. m, S)
  BY <1>5 DEF ExistsBijection
<1>7. QED
  BY <1>1, <1>6, FS_Bijection

LEMMA CreateTaskKeeps ==
    ASSUME IInv, NEW c \in Commands, CreateTask(c)
    PROVE  IInv'
<1> DEFINE name == proc[c].name
           done == Cardinality(TasksOf(c, name)) + 1
<1>1. /\ proc[c].pc = "tasks"
      /\ projects' = [projects EXCEPT ![name].tasks = @ \cup {<<c, done>>}]
      /\ IF done = CurrentPlan(proc[c].record).tasks THEN To(c, "dependencies") ELSE UNCHANGED proc
      /\ UNCHANGED <<session, claims, calls, runs, intents, posts, outcomes>>
  BY DEF CreateTask
<1>2. name \in DOMAIN projects /\ Numbered(TasksOf(c, name), c)
  BY <1>1 DEF IInv, TasksNumbered, At
<1>3. PICK m \in Nat : TasksOf(c, name) = FirstTasks(c, m)
  BY <1>2 DEF Numbered
<1>4. done = m + 1 /\ done \in Nat \ {0}
  <2>1. PICK S : S = TasksOf(c, name)
    OBVIOUS
  <2>2. Cardinality(S) = m
    BY <1>3, <2>1, NumberedTasks
  <2>3. QED
    BY <2>1, <2>2
<1>5. PICK x : x = name
  OBVIOUS
<1>6. /\ x \in DOMAIN projects /\ DOMAIN projects' = DOMAIN projects
      /\ \A q \in DOMAIN projects : q # x => projects'[q] = projects[q]
      /\ projects'[x] = [projects[x] EXCEPT !.tasks = @ \cup {<<c, m + 1>>}]
  BY <1>1, <1>2, <1>4, <1>5
<1> HIDE DEF done
<1>7. \A q \in DOMAIN projects : projects[q] \in Folders
  BY DEF IInv, Typed, WorldTyped
<1>8. projects'[x].tasks = projects[x].tasks \cup {<<c, m + 1>>} /\ projects'[x] \in Folders
      /\ projects'[x].dependencies = projects[x].dependencies
  <2>1. <<c, m + 1>> \in Commands \X (Nat \ {0})
    OBVIOUS
  <2>2. projects[x] \in Folders
    BY <1>6, <1>7
  <2>3. QED
    BY <1>6, <2>1, <2>2 DEF Folders
<1>9. WorldTyped'
  <2>1. projects' = [q \in DOMAIN projects' |-> projects'[q]]
    <3>1. projects = [q \in DOMAIN projects |-> projects[q]]
      BY DEF IInv, Typed, WorldTyped
    <3>2. QED
      BY <1>1, <3>1
  <2>2. \A q \in DOMAIN projects' : projects'[q] \in Folders
    BY <1>6, <1>7, <1>8
  <2>3. projects' \in [DOMAIN projects' -> Folders]
    BY <2>1, <2>2
  <2>4. QED
    BY <1>1, <1>6, <2>3 DEF IInv, Typed, WorldTyped
<1>10. \A d \in Commands : d # c => \A q \in DOMAIN projects : TasksOf(d, q)' = TasksOf(d, q)
  <2>1. SUFFICES ASSUME NEW d \in Commands, d # c, NEW q \in DOMAIN projects
                 PROVE  TasksOf(d, q)' = TasksOf(d, q)
    OBVIOUS
  <2>2. CASE q = x
    BY <1>8, <2>1, <2>2 DEF TasksOf
  <2>3. CASE q # x
    BY <1>6, <2>3 DEF TasksOf
  <2>4. QED
    BY <2>2, <2>3
<1>11. TasksOf(c, x)' = FirstTasks(c, m + 1)
  <2>1. TasksOf(c, x)' = TasksOf(c, x) \cup {<<c, m + 1>>}
    BY <1>8 DEF TasksOf
  <2>2. {<<c, k>> : k \in 1 .. m + 1} = {<<c, k>> : k \in 1 .. m} \cup {<<c, m + 1>>}
    <3>1. 1 .. m + 1 = (1 .. m) \cup {m + 1}
      OBVIOUS
    <3>2. QED
      BY <3>1
  <2>3. QED
    BY <1>3, <1>5, <2>1, <2>2 DEF FirstTasks
<1>12. Adds(c)
  <2>1. \A q \in DOMAIN projects : projects'[q].dependencies = projects[q].dependencies
    BY <1>6, <1>8
  <2>2. ~ ~At(c, {"tasks"})
    BY <1>1 DEF At
  <2>3. QED
    BY <1>1, <1>6, <1>10, <2>1, <2>2 DEF Adds
<1>13. PICK p \in Places : /\ proc' = [proc EXCEPT ![c] = p]
                           /\ p.record = proc[c].record /\ p.name = x
                           /\ \/ p.pc = "tasks"
                              \/ p.pc = "dependencies" /\ m + 1 = CurrentPlan(proc[c].record).tasks
  <2>1. CASE done = CurrentPlan(proc[c].record).tasks
    BY <1>1, <1>4, <1>5, <2>1, ToMoves DEF IInv, Typed, Pcs
  <2>2. CASE done # CurrentPlan(proc[c].record).tasks
    <3>1. proc' = [proc EXCEPT ![c] = proc[c]] /\ proc[c] \in Places
      BY <1>1, <2>2 DEF IInv, Typed
    <3>2. QED
      BY <1>1, <1>5, <3>1
  <2>3. QED
    BY <2>1, <2>2
<1>14. Exists /\ Past(proc[c])
  BY <1>1, HeldFacts DEF At, Reading, Pcs
<1>15. Past(p)
  BY <1>1, <1>13, <1>14 DEF Past, Reading, Pcs
<1>16. p.pc = "tasks" => Numbered(TasksOf(c, p.name)', c)
  BY <1>11, <1>13 DEF Numbered
<1>17. p.pc = "dependencies" => Cardinality(TasksOf(c, p.name)') = CurrentPlan(p.record).tasks
  <2>1. PICK S : S = TasksOf(c, x)'
    OBVIOUS
  <2>2. m + 1 \in Nat /\ S = FirstTasks(c, m + 1)
    BY <1>11, <2>1
  <2>3. Cardinality(S) = m + 1
    BY <2>2, NumberedTasks
  <2>4. QED
    BY <1>13, <2>1, <2>3
<1>18. BoundedPart'
  <2>1. Bounded(session) => /\ IsFiniteSet(Approved')
                            /\ Cardinality(DOMAIN projects') + Cardinality(Approved') <= Cardinality(claims')
    BY <1>1, <1>6, <1>13, <1>14, SameApprovals
  <2>2. calls' \subseteq Calling /\ runs' \subseteq Runners
    BY <1>1 DEF Calling, Runners
  <2>3. QED
    BY <1>1, <1>13, <1>14, <2>1, <2>2, BoundedWithin
<1>19. At(c, Applying)
  BY <1>1 DEF At, Applying
<1>20. p.pc \in {"tasks", "dependencies"} /\ p.name \in DOMAIN projects'
  BY <1>6, <1>13
<1>21. QED
  BY <1>1, <1>9, <1>12, <1>13, <1>14, <1>15, <1>16, <1>17, <1>18, <1>19, <1>20, WithinKeeps

LEMMA CreateDependenciesKeeps ==
    ASSUME IInv, NEW c \in Commands, CreateDependencies(c)
    PROVE  IInv'
<1>1. PICK x, r : x = proc[c].name /\ r = proc[c].record
  OBVIOUS
<1>2. PICK b \in BOOLEAN : b = (proc[c].op = "approve")
  OBVIOUS
<1>3. /\ proc[c].pc = "dependencies" /\ projects[x].dependencies = NoCommand
      /\ projects' = [projects EXCEPT ![x].dependencies = c]
      /\ Decides(c, r, Applied(c, x, b))
      /\ UNCHANGED <<session, claims, calls, runs, intents, posts, outcomes>>
  BY <1>1, <1>2 DEF CreateDependencies
<1>4. x \in DOMAIN projects /\ Cardinality(TasksOf(c, x)) = CurrentPlan(r).tasks
  BY <1>1, <1>3 DEF IInv, TasksNumbered, At
<1>5. /\ DOMAIN projects' = DOMAIN projects
      /\ \A q \in DOMAIN projects : q # x => projects'[q] = projects[q]
      /\ projects'[x] = [projects[x] EXCEPT !.dependencies = c]
  BY <1>3, <1>4
<1>6. \A q \in DOMAIN projects : projects[q] \in Folders
  BY DEF IInv, Typed, WorldTyped
<1>7. projects'[x].tasks = projects[x].tasks /\ projects'[x].dependencies = c /\ projects'[x] \in Folders
  <2>1. projects[x] \in Folders
    BY <1>4, <1>6
  <2>2. QED
    BY <1>5, <2>1 DEF Folders
<1>8. WorldTyped'
  <2>1. projects' = [q \in DOMAIN projects' |-> projects'[q]]
    <3>1. projects = [q \in DOMAIN projects |-> projects[q]]
      BY DEF IInv, Typed, WorldTyped
    <3>2. QED
      BY <1>3, <3>1
  <2>2. \A q \in DOMAIN projects' : projects'[q] \in Folders
    BY <1>5, <1>6, <1>7
  <2>3. projects' \in [DOMAIN projects' -> Folders]
    BY <2>1, <2>2
  <2>4. QED
    BY <1>3, <1>5, <2>3 DEF IInv, Typed, WorldTyped
<1>9. \A d : \A q \in DOMAIN projects : TasksOf(d, q)' = TasksOf(d, q)
  <2>1. SUFFICES ASSUME NEW d, NEW q \in DOMAIN projects
                 PROVE  TasksOf(d, q)' = TasksOf(d, q)
    OBVIOUS
  <2>2. projects'[q].tasks = projects[q].tasks
    BY <1>5, <1>7
  <2>3. QED
    BY <2>2 DEF TasksOf
<1>10. Adds(c)
  BY <1>3, <1>5, <1>7, <1>9 DEF Adds
<1>11. /\ Exists /\ r \in Records /\ Valid(r) /\ r.profile = session.profile
       /\ IsPrefix(r.turns, session.turns) /\ x \in Seq(Nat)
  BY <1>1, <1>3, HeldFacts DEF At, Reading, Pcs, IInv, Typed, Places
<1>12. PICK t \in Turned : t = Applied(c, x, b)
  BY <1>11, TurnsTyped
<1>13. t.by = c /\ t.kind = "plan_applied" /\ t.status = "none" /\ t.project = x
  BY <1>12 DEF Applied, Turn
<1>14. May(r, t) => Told(c, r, t)'
  <2>1. /\ TasksOf(c, x)' = TasksOf(c, x) /\ x \in DOMAIN projects' /\ projects'[x].dependencies = c
    BY <1>4, <1>5, <1>7, <1>9
  <2>2. QED
    BY <1>4, <1>13, <2>1 DEF Told
<1>15. /\ calls' \subseteq Calling /\ runs' \subseteq Runners
       /\ At(c, Applying)
  BY <1>3 DEF Calling, Runners, At, Applying
<1>16. QED
  BY <1>3, <1>5, <1>8, <1>10, <1>11, <1>12, <1>13, <1>14, <1>15, DecisionKeeps

-----------------------------------------------------------------------------
(* The Reviewed Workflow and the publication of its result.                *)

LEMMA AppliedTyped ==
    ASSUME NEW r \in Records
    PROVE  AppliedProject(r) \in Seq(Nat)
<1>1. r.turns \in Seq(Turned)
  BY DEF Records
<1> DEFINE k == LastIndex(r, {"plan_applied"})
<1>2. k \in 0 .. Len(r.turns)
  BY <1>1, LastIndexFacts
<1>3. CASE k > 0
  <2>1. r.turns[k] \in Turned
    BY <1>1, <1>2, <1>3
  <2>2. AppliedProject(r) = r.turns[k].project
    BY <1>3 DEF AppliedProject, Has
  <2> HIDE DEF k
  <2>3. QED
    BY <2>1, <2>2 DEF Turned, Fields
<1>4. CASE ~ (k > 0)
  BY <1>4 DEF AppliedProject, Has, NoProject
<1>5. QED
  BY <1>3, <1>4

LEMMA RunWorkflowKeeps ==
    ASSUME IInv, NEW c \in Commands, NEW status \in WorkflowStatuses, RunWorkflow(c, status)
    PROVE  IInv'
<1>1. PICK r : r = proc[c].record
  OBVIOUS
<1>2. /\ proc[c].pc = "run" /\ runs' = runs \cup {c} /\ session' = session
      /\ UNCHANGED <<claims, projects, calls, intents, posts, outcomes>>
      /\ Decides(c, r, Worked(c, AppliedProject(r), status))
  BY <1>1 DEF RunWorkflow
<1>3. /\ r \in Records /\ Valid(r) /\ r.profile = session.profile
      /\ IsPrefix(r.turns, session.turns) /\ Exists
  BY <1>1, <1>2, HeldFacts DEF At, Reading, Pcs
<1>4. WorldTyped' /\ Adds(c)
  BY <1>2 DEF IInv, Typed, WorldTyped, Adds, TasksOf
<1>5. PICK t \in Turned : t = Worked(c, AppliedProject(r), status)
  BY <1>3, AppliedTyped, TurnsTyped
<1>6. t.by = c /\ t.kind = "workflow_recorded" /\ t.status \in WorkflowStatuses /\ t.status # "published"
  BY <1>5 DEF Worked, Turn, WorkflowStatuses, Failures
<1>7. May(r, t) => Told(c, r, t)'
  BY <1>2, <1>6 DEF Told
<1>8. c \in Runners /\ calls' \subseteq Calling /\ runs' \subseteq Runners
  BY <1>2 DEF Calling, Runners, At
<1>9. QED
  BY <1>2, <1>3, <1>4, <1>5, <1>6, <1>7, <1>8, DecisionKeeps

LEMMA SaveIntentKeeps ==
    ASSUME IInv, NEW c \in Commands, SaveIntent(c)
    PROVE  IInv'
<1>1. /\ proc[c].pc = "intent" /\ intents' = intents \cup {c} /\ To(c, "publish")
      /\ UNCHANGED <<session, claims, projects, calls, runs, posts, outcomes>>
  BY DEF SaveIntent
<1>2. PICK p \in Places : /\ proc' = [proc EXCEPT ![c] = p] /\ p.pc = "publish"
                          /\ p.record = proc[c].record
  BY <1>1, ToMoves DEF IInv, Typed, Pcs
<1>3. Exists /\ Past(proc[c])
  BY <1>1, HeldFacts DEF At, Reading, Pcs
<1>4. Past(p)
  BY <1>1, <1>2, <1>3 DEF Past, Reading, Pcs
<1>5. WorldTyped' /\ Adds(c)
  BY <1>1 DEF IInv, Typed, WorldTyped, Adds, TasksOf
<1>6. calls' \subseteq Calling /\ runs' \subseteq Runners
  BY <1>1 DEF Calling, Runners
<1>7. QED
  BY <1>1, <1>2, <1>3, <1>4, <1>5, <1>6, MoveKeeps DEF Applying

LEMMA PublishKeeps ==
    ASSUME IInv, NEW c \in Commands, Publish(c)
    PROVE  IInv'
<1>1. /\ proc[c].pc = "publish" /\ posts' = posts \cup {c} /\ To(c, "outcome")
      /\ UNCHANGED <<session, claims, projects, calls, runs, intents, outcomes>>
  BY DEF Publish
<1>2. PICK p \in Places : /\ proc' = [proc EXCEPT ![c] = p] /\ p.pc = "outcome"
                          /\ p.record = proc[c].record
  BY <1>1, ToMoves DEF IInv, Typed, Pcs
<1>3. Exists /\ Past(proc[c])
  BY <1>1, HeldFacts DEF At, Reading, Pcs
<1>4. Past(p)
  BY <1>1, <1>2, <1>3 DEF Past, Reading, Pcs
<1>5. WorldTyped' /\ Adds(c)
  BY <1>1 DEF IInv, Typed, WorldTyped, Adds, TasksOf
<1>6. calls' \subseteq Calling /\ runs' \subseteq Runners
  BY <1>1 DEF Calling, Runners
<1>7. c \in intents' \cap posts'
  BY <1>1 DEF IInv, Published, At
<1>8. QED
  BY <1>1, <1>2, <1>3, <1>4, <1>5, <1>6, <1>7, MoveKeeps DEF Applying

LEMMA SaveOutcomeKeeps ==
    ASSUME IInv, NEW c \in Commands, SaveOutcome(c)
    PROVE  IInv'
<1>1. PICK r : r = proc[c].record
  OBVIOUS
<1>2. /\ proc[c].pc = "outcome" /\ outcomes' = outcomes \cup {c} /\ session' = session
      /\ UNCHANGED <<claims, projects, calls, runs, intents, posts>>
      /\ Decides(c, r, Acted(c, AppliedProject(r), "published"))
  BY <1>1 DEF SaveOutcome
<1>3. /\ r \in Records /\ Valid(r) /\ r.profile = session.profile
      /\ IsPrefix(r.turns, session.turns) /\ Exists
  BY <1>1, <1>2, HeldFacts DEF At, Reading, Pcs
<1>4. WorldTyped' /\ Adds(c)
  BY <1>2 DEF IInv, Typed, WorldTyped, Adds, TasksOf
<1>5. PICK t \in Turned : t = Acted(c, AppliedProject(r), "published")
  BY <1>3, AppliedTyped, TurnsTyped DEF ActionStatuses
<1>6. t.by = c /\ t.kind = "action_recorded"
  BY <1>5 DEF Acted, Turn
<1>7. c \in intents' \cap posts' \cap outcomes'
  BY <1>2 DEF IInv, Published, At
<1>8. May(r, t) => Told(c, r, t)'
  BY <1>6, <1>7 DEF Told
<1>9. calls' \subseteq Calling /\ runs' \subseteq Runners
  BY <1>2 DEF Calling, Runners
<1>10. QED
  BY <1>2, <1>3, <1>4, <1>5, <1>6, <1>8, <1>9, DecisionKeeps

LEMMA ActionFailsKeeps ==
    ASSUME IInv, NEW c \in Commands, ActionFails(c)
    PROVE  IInv'
<1>1. PICK r : r = proc[c].record
  OBVIOUS
<1>2. /\ proc[c].pc \in {"intent", "publish", "outcome"} /\ session' = session
      /\ UNCHANGED <<claims, projects, calls, runs>>
      /\ Decides(c, r, Acted(c, AppliedProject(r), "action_failed"))
      /\ intents' \in {intents, intents \cup {c}} /\ posts' \in {posts, posts \cup {c}}
      /\ outcomes' \in {outcomes, outcomes \cup {c}}
  BY <1>1 DEF ActionFails
<1>3. /\ r \in Records /\ Valid(r) /\ r.profile = session.profile
      /\ IsPrefix(r.turns, session.turns) /\ Exists
  BY <1>1, <1>2, HeldFacts DEF At, Reading, Pcs
<1>4. WorldTyped' /\ Adds(c)
  BY <1>2 DEF IInv, Typed, WorldTyped, Adds, TasksOf
<1>5. PICK t \in Turned : t = Acted(c, AppliedProject(r), "action_failed")
  BY <1>3, AppliedTyped, TurnsTyped DEF ActionStatuses
<1>6. t.by = c /\ t.kind = "action_recorded" /\ t.status # "published"
  BY <1>5 DEF Acted, Turn
<1>7. May(r, t) => Told(c, r, t)'
  BY <1>6, PlainTold
<1>8. calls' \subseteq Calling /\ runs' \subseteq Runners
  BY <1>2 DEF Calling, Runners
<1>9. QED
  BY <1>2, <1>3, <1>4, <1>5, <1>6, <1>7, <1>8, DecisionKeeps

-----------------------------------------------------------------------------
(* The record: created, and appended to.                                   *)

LEMMA NewStands ==
    ASSUME NEW profile \in Profiles
    PROVE  /\ New(profile) \in Records /\ New(profile) # NoSession /\ New(profile).profile = profile
           /\ New(profile).turns = <<>> /\ New(profile).state = "plan_generation_approval_required"
           /\ Replayed(New(profile)) = Fresh(profile) /\ Valid(New(profile))
<1>1. <<>> \in Seq(Turned)
  OBVIOUS
<1>2. /\ New(profile) \in Records /\ New(profile).profile = profile
      /\ New(profile).turns = <<>> /\ New(profile).state = "plan_generation_approval_required"
  BY <1>1 DEF New, Records, States
<1>3. New(profile) # NoSession
  BY <1>2, IdleIsPlace
<1>4. Replayed(New(profile)) = Fresh(profile)
  BY <1>2, ReplayFold DEF Replayed
<1>5. Valid(New(profile))
  BY <1>2, <1>4 DEF Valid, Fresh
<1>6. QED
  BY <1>2, <1>3, <1>4, <1>5

LEMMA CreateKeeps ==
    ASSUME IInv, NEW c \in Commands, NEW profile \in Profiles, Create(c, profile)
    PROVE  IInv'
<1>1. PICK new \in Records : /\ new = New(profile) /\ new # NoSession /\ Valid(new)
                             /\ new.turns = <<>>
  BY NewStands
<1>2. /\ ~Exists /\ session' = new /\ UNCHANGED effects
      /\ Holds(c, "generate", [proc[c] EXCEPT !.record = new, !.at = 1])
  BY <1>1 DEF Create
<1> DEFINE p == [[proc[c] EXCEPT !.record = new, !.at = 1] EXCEPT !.pc = "generate"]
<1>3. proc' = [proc EXCEPT ![c] = p]
  BY <1>2 DEF Holds
<1>4. p \in Places /\ p.pc = "generate" /\ p.record = new
  BY ZenonT(60) DEF IInv, Typed, Places, Pcs
<1> HIDE DEF p
<1>5. \A d \in Commands : proc'[d] = IF d = c THEN p ELSE proc[d]
  BY <1>3 DEF IInv, Typed
<1>6. UNCHANGED <<claims, projects, calls, runs, intents, posts, outcomes>>
  BY <1>2 DEF effects
<1>7. /\ \A d \in Commands : At(d, {"idle", "begin", "refused"}) /\ proc[d].record = NoSession
      /\ claims = {} /\ calls = {} /\ runs = {} /\ DOMAIN projects = {}
  BY <1>2 DEF IInv, NothingBefore, HeldIsPast
<1>8. /\ \A d \in Commands : d # c => At(d, {"idle", "begin", "refused"})'
      /\ At(c, {"generate"})'
  BY <1>4, <1>5, <1>7 DEF At
<1>9. Exists' /\ DOMAIN session'.turns = {}
  BY <1>1, <1>2 DEF Exists
<1>10. Typed'
  BY <1>2, <1>3, <1>4, <1>6 DEF IInv, Typed, WorldTyped
<1>11. NothingBefore'
  BY <1>9 DEF NothingBefore
<1>12. HeldIsPast'
  <2>1. \A d \in Commands : d # c => proc'[d].record = NoSession
    BY <1>5, <1>7
  <2>2. proc'[c].record = new /\ IsPrefix(new.turns, new.turns)
    <3>1. new.turns \in Seq(Turned)
      BY DEF Records
    <3>2. IsPrefix(new.turns, new.turns)
      BY <3>1, PrefixFacts
    <3>3. QED
      BY <1>4, <1>5, <3>2
  <2>3. QED
    BY <1>1, <1>2, <1>8, <1>9, <2>1, <2>2 DEF HeldIsPast, At, Reading
<1>13. TurnsAreDone' /\ Published'
  BY <1>8 DEF TurnsAreDone, Published, At
<1>14. AppliesLater' /\ HistoryStands'
  BY <1>9 DEF AppliesLater, NoneOf, HistoryStands
<1>18. OnlyBoundedReserve'
  BY <1>9 DEF OnlyBoundedReserve, Some
<1>15. TasksNumbered'
  BY <1>6, <1>7, <1>8 DEF TasksNumbered, At
<1>16. BoundedPart'
  <2>1. Calling' = {} /\ Runners' = {} /\ Approved' = {}
    BY <1>6, <1>7, <1>8 DEF Calling, Runners, Approved, At, Writing
  <2>2. ~Some(session, "plan_applied")'
    BY <1>9 DEF Some
  <2>3. /\ IsFiniteSet({}) /\ Cardinality({}) = 0
    BY FS_EmptySet
  <2>4. DOMAIN projects' = {} /\ claims' = {}
    BY <1>6, <1>7
  <2>5. IsFiniteSet(Approved') /\ Cardinality(DOMAIN projects') + Cardinality(Approved') <= Cardinality(claims')
    BY <2>1, <2>3, <2>4
  <2>6. QED
    BY <2>1, <2>2, <2>5 DEF BoundedPart
<1>17. QED
  BY <1>10, <1>11, <1>12, <1>13, <1>14, <1>15, <1>16, <1>18 DEF IInv

\* The stored record is the one that the Turn was decided on.
LEMMA StillTheRecord ==
    ASSUME NEW r \in Records, NEW s \in Records, Valid(r), Valid(s), r.profile = s.profile,
           IsPrefix(r.turns, s.turns), Version(r) = Version(s)
    PROVE  r = s
<1>1. r.turns \in Seq(Turned) /\ s.turns \in Seq(Turned)
  BY DEF Records
<1>2. Len(r.turns) = Len(s.turns)
  <2>1. Len(r.turns) \in Nat /\ Len(s.turns) \in Nat
    BY <1>1
  <2>2. QED
    BY <2>1 DEF Version
<1>3. r.turns = s.turns
  BY <1>1, <1>2, PrefixEqual
<1>4. r.state = s.state
  BY <1>3 DEF Valid, Replayed
<1>5. QED
  BY <1>3, <1>4 DEF Records

\* Where a Command goes on once its Turn is stored.
LEMMA Continued ==
    ASSUME NEW op, NEW q \in Records, NEW s \in Seq(Turned), NEW e \in Turned, q.turns = Append(s, e)
    PROVE  /\ Continues(op, q) \in {"planner", "generate", "plan_workflow", "succeeded"}
           /\ Continues(op, q) = "planner" => e.kind = "plan_generation_reserved"
           /\ Continues(op, q) = "plan_workflow" => e.kind \in {"plan_applied", "revision_recovery_started"}
<1>1. Last(q.turns) = e
  BY DEF Last
<1>2. QED
  BY <1>1 DEF Continues

\* The Command c stores its Turn t, stamped as e, in the record s, which becomes
\* q, and goes on with p.
Stores(c, s, q, t, e, p) ==
    /\ s = session /\ q = session' /\ t = proc[c].turn /\ proc' = [proc EXCEPT ![c] = p]
    /\ At(c, {"write"}) /\ Exists /\ Told(c, s, t) /\ Valid(q) /\ q.profile = s.profile
    /\ e = Stamped(s, t) /\ q.turns = Append(s.turns, e) /\ q.state = StateAfter(s, t)
    /\ p.record = q /\ p.pc \in {"planner", "generate", "plan_workflow", "succeeded"}
    /\ p.pc = "planner" => t.kind = "plan_generation_reserved"
    /\ p.pc = "plan_workflow" => t.kind \in {"plan_applied", "revision_recovery_started"}

LEMMA WriteMoves ==
    ASSUME IInv, NEW c \in Commands, Write(c)
    PROVE  \E s, q \in Records, t, e \in Turned, p \in Places : Stores(c, s, q, t, e, p)
<1>1. PICK r, t, op, q : /\ r = proc[c].record /\ t = proc[c].turn /\ op = proc[c].op /\ q = Appended(r, t)
  OBVIOUS
<1>2. /\ proc[c].pc = "write" /\ session' = q /\ CanTransition(session, q, Version(r))
      /\ Holds(c, Continues(op, q), [proc[c] EXCEPT !.record = q, !.at = Version(q),
                                                    !.turn = NoTurn, !.name = NoProject])
  BY <1>1 DEF Write, NoTurn
<1>3. /\ Exists /\ r \in Records /\ Valid(r) /\ r.profile = session.profile
      /\ IsPrefix(r.turns, session.turns)
  BY <1>1, <1>2, HeldFacts DEF At, Reading, Pcs
<1>4. Told(c, r, t) /\ t \in Turned /\ May(r, t)
  BY <1>1, <1>2 DEF IInv, TurnsAreDone, At, Told
<1>5. r = session
  <2>1. session \in Records /\ Valid(session)
    BY <1>3, SessionIsPast
  <2>2. Version(session) = Version(r)
    BY <1>2 DEF CanTransition
  <2>3. QED
    BY <1>3, <2>1, <2>2, StillTheRecord
<1>6. /\ q \in Records /\ q.profile = r.profile /\ q.state = StateAfter(r, t)
      /\ q.turns = Append(r.turns, Stamped(r, t)) /\ Valid(q)
  BY <1>1, <1>2, <1>3, <1>4, AppendedTyped DEF CanTransition
<1>7. PICK e \in Turned : e = Stamped(r, t) /\ e.kind = t.kind
  BY <1>3, <1>4, StampedTyped
<1>8. r.turns \in Seq(Turned)
  BY <1>3 DEF Records
<1>9. PICK to : /\ to = Continues(op, q) /\ to \in {"planner", "generate", "plan_workflow", "succeeded"}
                /\ to = "planner" => t.kind = "plan_generation_reserved"
                /\ to = "plan_workflow" => t.kind \in {"plan_applied", "revision_recovery_started"}
  BY <1>6, <1>7, <1>8, Continued
<1>10. Version(q) \in Nat
  <2>1. q.turns \in Seq(Turned)
    BY <1>6 DEF Records
  <2>2. QED
    BY <2>1 DEF Version
<1> DEFINE h == [proc[c] EXCEPT !.record = q, !.at = Version(q), !.turn = NoTurn, !.name = NoProject]
           p == [h EXCEPT !.pc = to]
<1>11. proc' = [proc EXCEPT ![c] = p]
  BY <1>2, <1>9 DEF Holds
<1>12. p \in Places /\ p.pc = to /\ p.record = q
  <2>1. proc[c] \in Places
    BY DEF IInv, Typed
  <2>2. NoProject \in Seq(Nat)
    BY DEF NoProject
  <2>3. QED
    BY <1>6, <1>9, <1>10, <2>1, <2>2 DEF Places, Pcs
<1> HIDE DEF p, h
<1>13. At(c, {"write"})
  BY <1>2 DEF At
<1>14. Stores(c, r, q, t, e, p)
  BY <1>1, <1>2, <1>3, <1>4, <1>5, <1>6, <1>7, <1>9, <1>11, <1>12, <1>13 DEF Stores
<1>15. QED
  BY <1>3, <1>4, <1>6, <1>12, <1>14

\* The Plan that a record shows does not hang on its state.
LEMMA PlanByTurns ==
    ASSUME NEW r, NEW q, r.turns = q.turns
    PROVE  CurrentPlan(r) = CurrentPlan(q)
BY DEF CurrentPlan, Has, LastIndex

LEMMA PlanAfterOther ==
    ASSUME NEW r \in Records, NEW q \in Records, NEW e \in Turned, q.turns = Append(r.turns, e),
           e.kind # "plan_generated"
    PROVE  CurrentPlan(q) = CurrentPlan(r)
<1> DEFINE k == LastIndex(r, {"plan_generated"})
<1>1. r.turns \in Seq(Turned)
  BY DEF Records
<1>2. LastIndex(q, {"plan_generated"}) = k /\ k \in 0 .. Len(r.turns)
  BY <1>1, LastIndexAppend, LastIndexFacts
<1>3. CASE k > 0
  <2>1. q.turns[k] = r.turns[k]
    BY <1>1, <1>2, <1>3
  <2> HIDE DEF k
  <2>2. QED
    BY <1>2, <1>3, <2>1 DEF CurrentPlan, Has, k
<1>4. CASE ~ (k > 0)
  BY <1>2, <1>4 DEF CurrentPlan, Has
<1>5. QED
  BY <1>3, <1>4

\* The bounded rules, when a Turn is stored.
LEMMA WriteBounded ==
    ASSUME IInv, NEW c \in Commands, Write(c)
    PROVE  BoundedPart' /\ OnlyBoundedReserve'
<1>1. PICK s \in Records, q \in Records, t \in Turned, e \in Turned, p \in Places : Stores(c, s, q, t, e, p)
  BY WriteMoves
<1> USE <1>1 DEF Stores
<1>2. UNCHANGED <<claims, projects, calls, runs, intents, posts, outcomes>>
  BY DEF Write, effects
<1>3. e.kind = t.kind /\ (t.kind # "plan_generated" => e.by = c) /\ May(s, t)
  BY <1>1, StampedTyped DEF Told
<1>4. /\ s.turns \in Seq(Turned) /\ DOMAIN s.turns = 1 .. Len(s.turns) /\ Len(s.turns) \in Nat
      /\ DOMAIN q.turns = 1 .. Len(s.turns) + 1 /\ q.turns[Len(s.turns) + 1] = e
      /\ \A i \in 1 .. Len(s.turns) : q.turns[i] = s.turns[i]
  BY <1>1 DEF Records
<1>5. ASSUME NEW kind, kind # e.kind
      PROVE  /\ Some(q, kind) <=> Some(s, kind)
             /\ \A d : OnlyOf(q, kind, d) <=> OnlyOf(s, kind, d)
  <2>1. \A i \in DOMAIN q.turns : (i \in DOMAIN s.turns /\ q.turns[i] = s.turns[i]) \/ q.turns[i] = e
    BY <1>4
  <2>2. \A i \in DOMAIN s.turns : i \in DOMAIN q.turns /\ q.turns[i] = s.turns[i]
    BY <1>4
  <2>3. QED
    BY <1>5, <2>1, <2>2 DEF Some, OnlyOf
<1>6. ASSUME NEW kind, kind = e.kind, ~Some(s, kind), kind # "plan_generated"
      PROVE  Some(q, kind) /\ OnlyOf(q, kind, c)
  BY <1>3, <1>4, <1>6 DEF Some, OnlyOf
<1>7. \A d \in Commands : proc'[d] = IF d = c THEN p ELSE proc[d]
  BY <1>1 DEF IInv, Typed
<1>8. Reserved(s) <=> Some(s, "plan_generation_reserved")
  BY HasSome DEF Reserved
<1>9. OnlyBoundedReserve'
  <2>1. CASE t.kind = "plan_generation_reserved"
    BY <1>1, <1>3, <2>1 DEF May, OnlyBoundedReserve, Bounded
  <2>2. CASE t.kind # "plan_generation_reserved"
    BY <1>1, <1>3, <1>5, <2>2 DEF IInv, OnlyBoundedReserve, Bounded
  <2>3. QED
    BY <2>1, <2>2
<1>10. ASSUME Bounded(s)
       PROVE  /\ \A d \in Calling' : /\ Some(q, "plan_generation_reserved")
                                     /\ OnlyOf(q, "plan_generation_reserved", d)
              /\ \A d \in Runners' : /\ Some(q, "plan_applied")
                                     /\ OnlyOf(q, "plan_applied", d)
              /\ q.state \in {"plan_generation_approval_required", "clarification_required",
                              "plan_approval_required"} => ~Some(q, "plan_applied")
              /\ IsFiniteSet(Approved')
              /\ Cardinality(DOMAIN projects') + Cardinality(Approved') <= Cardinality(claims')
  <2>1. /\ \A d \in Calling : /\ Some(s, "plan_generation_reserved")
                              /\ OnlyOf(s, "plan_generation_reserved", d)
        /\ \A d \in Runners : /\ Some(s, "plan_applied")
                              /\ OnlyOf(s, "plan_applied", d)
        /\ s.state \in {"plan_generation_approval_required", "clarification_required",
                        "plan_approval_required"} => ~Some(s, "plan_applied")
    BY <1>1, <1>10 DEF IInv, BoundedPart
  <2>2. ASSUME NEW d \in Calling'
        PROVE  Some(q, "plan_generation_reserved") /\ OnlyOf(q, "plan_generation_reserved", d)
    <3>1. CASE t.kind = "plan_generation_reserved"
      <4>1. ~Some(s, "plan_generation_reserved")
        BY <1>3, <1>8, <3>1 DEF May
      <4>2. d = c
        BY <1>2, <1>7, <2>1, <2>2, <4>1 DEF Calling, At, Writing
      <4>3. QED
        BY <1>3, <1>6, <3>1, <4>1, <4>2
    <3>2. CASE t.kind # "plan_generation_reserved"
      <4>1. d \in Calling
        BY <1>1, <1>2, <1>7, <2>2, <3>2 DEF Calling, At, Writing
      <4>2. QED
        BY <1>3, <1>5, <2>1, <3>2, <4>1
    <3>3. QED
      BY <3>1, <3>2
  <2>3. ASSUME NEW d \in Runners'
        PROVE  Some(q, "plan_applied") /\ OnlyOf(q, "plan_applied", d)
    <3>1. CASE t.kind = "plan_applied"
      <4>1. ~Some(s, "plan_applied")
        BY <1>3, <2>1, <3>1 DEF May
      <4>2. d = c
        BY <1>2, <1>7, <2>1, <2>3, <4>1 DEF Runners, At, Writing
      <4>3. QED
        BY <1>3, <1>6, <3>1, <4>1, <4>2
    <3>2. CASE t.kind # "plan_applied"
      <4>1. t.kind # "revision_recovery_started"
        BY <1>1, <1>10 DEF Told
      <4>2. d \in Runners
        BY <1>1, <1>2, <1>7, <2>3, <3>2, <4>1 DEF Runners, At, Writing
      <4>3. QED
        BY <1>3, <1>5, <2>1, <3>2, <4>2
    <3>3. QED
      BY <3>1, <3>2
  <2>4. ASSUME q.state \in {"plan_generation_approval_required", "clarification_required",
                            "plan_approval_required"}
        PROVE  ~Some(q, "plan_applied")
    <3>1. t.kind \notin {"clarification_answered", "revision_recovery_started"} /\ t.kind \in Kinds
      BY <1>1, <1>10 DEF Told, Turned, Fields
    <3>2. t.kind # "plan_applied"
      BY <1>1, <2>4 DEF StateAfter
    <3>3. s.state \in {"plan_generation_approval_required", "clarification_required",
                       "plan_approval_required"}
      BY <1>1, <1>3, <2>4, <3>1, <3>2 DEF StateAfter, May, Kinds, AfterWorkflow, AfterAction
    <3>4. QED
      BY <1>3, <1>5, <2>1, <3>2, <3>3
  <2>5. /\ IsFiniteSet(Approved')
        /\ Cardinality(DOMAIN projects') + Cardinality(Approved') <= Cardinality(claims')
    BY <1>1, <1>2, <1>10, SameApprovals
  <2>6. QED
    BY <2>2, <2>3, <2>4, <2>5
<1>11. BoundedPart'
  <2>1. Bounded(q) <=> Bounded(s)
    BY <1>1 DEF Bounded
  <2>2. QED
    BY <1>1, <1>10, <2>1 DEF BoundedPart
<1>12. QED
  BY <1>9, <1>11

\* What the history tells, when a Turn is stored.
LEMMA WriteStands ==
    ASSUME IInv, NEW c \in Commands, Write(c)
    PROVE  HistoryStands'
<1>1. PICK s \in Records, q \in Records, t \in Turned, e \in Turned, p \in Places : Stores(c, s, q, t, e, p)
  BY WriteMoves
<1> USE <1>1 DEF Stores
<1>2. UNCHANGED <<claims, projects, calls, runs, intents, posts, outcomes>>
  BY DEF Write, effects
<1>3. /\ e.kind = t.kind /\ e.status = t.status /\ e.project = t.project
      /\ t.kind # "plan_generated" => e = t
      /\ t.kind = "plan_generated" /\ Some(s, "plan_generation_reserved") =>
            \E i \in DOMAIN s.turns : /\ s.turns[i].kind = "plan_generation_reserved"
                                      /\ e.by = s.turns[i].by
      /\ t.kind = "plan_generated" /\ ~Some(s, "plan_generation_reserved") => e = t
      /\ t.by = c
  BY <1>1, StampedTyped DEF Told
<1>4. /\ s.turns \in Seq(Turned) /\ DOMAIN s.turns = 1 .. Len(s.turns) /\ Len(s.turns) \in Nat
      /\ DOMAIN q.turns = 1 .. Len(s.turns) + 1 /\ q.turns[Len(s.turns) + 1] = e
      /\ \A i \in 1 .. Len(s.turns) : q.turns[i] = s.turns[i]
      /\ q.turns \in Seq(Turned)
  BY <1>1 DEF Records
<1>5. SUFFICES ASSUME NEW i \in DOMAIN q.turns PROVE TurnStands(q, i)'
  BY <1>1 DEF HistoryStands
<1>6. CASE i \in DOMAIN s.turns
  <2>1. TurnStands(s, i)
    BY <1>1, <1>6 DEF IInv, HistoryStands
  <2>2. SubSeq(q.turns, 1, i) = SubSeq(s.turns, 1, i)
    BY <1>4, <1>6
  <2>3. CurrentPlan([q EXCEPT !.turns = SubSeq(@, 1, i)]) = CurrentPlan([s EXCEPT !.turns = SubSeq(@, 1, i)])
    <3>1. [q EXCEPT !.turns = SubSeq(@, 1, i)].turns = [s EXCEPT !.turns = SubSeq(@, 1, i)].turns
      BY <2>2 DEF Records
    <3>2. QED
      BY <3>1, PlanByTurns
  <2>4. q.turns[i] = s.turns[i]
    BY <1>4, <1>6
  <2>5. QED
    BY <1>2, <2>1, <2>3, <2>4 DEF TurnStands, TasksOf
<1>7. CASE i = Len(s.turns) + 1
  <2>1. q.turns[i] = e
    BY <1>4, <1>7
  <2>2. e.kind = "plan_generated" => e.by \in calls
    <3>1. SUFFICES ASSUME e.kind = "plan_generated" PROVE e.by \in calls
      OBVIOUS
    <3>2. c \in calls
      BY <1>1, <1>3, <3>1 DEF Told
    <3>3. CASE Some(s, "plan_generation_reserved")
      <4>1. Bounded(session)
        BY <1>1, <3>3 DEF IInv, OnlyBoundedReserve
      <4>2. OnlyOf(s, "plan_generation_reserved", c)
        BY <1>1, <3>2, <4>1 DEF IInv, BoundedPart, Calling
      <4>3. QED
        BY <1>3, <3>1, <3>2, <3>3, <4>2 DEF OnlyOf
    <3>4. CASE ~Some(s, "plan_generation_reserved")
      BY <1>3, <3>1, <3>2, <3>4
    <3>5. QED
      BY <3>3, <3>4
  <2>3. e.kind = "plan_applied" =>
           /\ e.project \in DOMAIN projects
           /\ Cardinality(TasksOf(c, e.project)) = CurrentPlan([q EXCEPT !.turns = SubSeq(@, 1, i)]).tasks
           /\ projects[e.project].dependencies = c
    <3>1. SUFFICES ASSUME e.kind = "plan_applied"
                   PROVE  CurrentPlan([q EXCEPT !.turns = SubSeq(@, 1, i)]) = CurrentPlan(s)
      BY <1>1, <1>3 DEF Told
    <3>2. SubSeq(q.turns, 1, i) = q.turns
      BY <1>4, <1>7
    <3>3. [q EXCEPT !.turns = SubSeq(@, 1, i)].turns = q.turns
      BY <3>2 DEF Records
    <3>4. CurrentPlan([q EXCEPT !.turns = SubSeq(@, 1, i)]) = CurrentPlan(q)
      BY <3>3, PlanByTurns
    <3>5. CurrentPlan(q) = CurrentPlan(s)
      BY <1>1, <3>1, PlanAfterOther
    <3>6. QED
      BY <3>4, <3>5
  <2>4. /\ e.kind # "plan_generated" => e.by = c
        /\ e.kind = "workflow_recorded" => c \in runs
        /\ e.status = "published" => e.kind = "action_recorded" /\ c \in intents \cap posts \cap outcomes
    BY <1>1, <1>3 DEF Told
  <2>5. QED
    BY <1>2, <2>1, <2>2, <2>3, <2>4 DEF TurnStands, TasksOf
<1>8. QED
  BY <1>4, <1>5, <1>6, <1>7

LEMMA WriteKeeps ==
    ASSUME IInv, NEW c \in Commands, Write(c)
    PROVE  IInv'
<1>1. PICK s \in Records, q \in Records, t \in Turned, e \in Turned, p \in Places : Stores(c, s, q, t, e, p)
  BY WriteMoves
<1> USE <1>1 DEF Stores
<1>2. UNCHANGED <<claims, projects, calls, runs, intents, posts, outcomes>>
  BY DEF Write, effects
<1>3. \A d \in Commands : proc'[d] = IF d = c THEN p ELSE proc[d]
  BY <1>1 DEF IInv, Typed
<1>4. Exists' /\ q # NoSession
  BY <1>1, IdleIsPlace DEF Exists
<1>5. Typed'
  BY <1>1, <1>2 DEF IInv, Typed, WorldTyped
<1>6. NothingBefore'
  BY <1>4 DEF NothingBefore
<1>7. /\ s.turns \in Seq(Turned) /\ q.turns \in Seq(Turned)
      /\ IsPrefix(s.turns, q.turns) /\ IsPrefix(q.turns, q.turns)
  <2>1. s.turns \in Seq(Turned) /\ q.turns \in Seq(Turned)
    BY DEF Records
  <2>2. QED
    BY <1>1, <2>1, PrefixAppend
<1>8. HeldIsPast'
  <2>1. ASSUME NEW d \in Commands
        PROVE  IF proc'[d].record = NoSession THEN ~At(d, Reading)'
               ELSE /\ Valid(proc'[d].record) /\ proc'[d].record.profile = q.profile
                    /\ IsPrefix(proc'[d].record.turns, q.turns)
    <3>1. CASE d = c
      BY <1>1, <1>3, <1>4, <1>7, <3>1
    <3>2. CASE d # c /\ proc[d].record = NoSession
      BY <1>3, <3>2 DEF IInv, HeldIsPast, At
    <3>3. CASE d # c /\ proc[d].record # NoSession
      <4>1. PICK r \in Records : /\ r = proc[d].record /\ r # NoSession /\ Valid(r) /\ r.profile = s.profile
                                 /\ IsPrefix(r.turns, s.turns)
        BY <1>1, <3>3 DEF IInv, HeldIsPast, Typed, Places
      <4>2. r.turns \in Seq(Turned)
        BY DEF Records
      <4>3. IsPrefix(r.turns, q.turns)
        BY <1>7, <4>1, <4>2, PrefixTransitive
      <4>4. QED
        BY <1>1, <1>3, <3>3, <4>1, <4>3
    <3>4. QED
      BY <3>1, <3>2, <3>3
  <2>2. QED
    BY <1>1, <1>4, <2>1 DEF HeldIsPast
<1>9. TurnsAreDone'
  <2>1. ASSUME NEW d \in Commands, At(d, {"write"})'
        PROVE  Told(d, proc[d].record, proc[d].turn)'
    <3>1. proc'[d] = proc[d] /\ At(d, {"write"})
      BY <1>3, <2>1 DEF At
    <3>2. Told(d, proc[d].record, proc[d].turn)
      BY <3>1 DEF IInv, TurnsAreDone
    <3>3. QED
      BY <1>2, <3>1, <3>2 DEF Told, TasksOf
  <2>2. QED
    BY <2>1 DEF TurnsAreDone
<1>10. Published'
  BY <1>1, <1>2, <1>3 DEF IInv, Published, At
<1>11. AppliesLater'
  <2>1. ASSUME NEW d \in Commands, At(d, Applying)' \/ Writing(d, "plan_applied")'
        PROVE  NoneOf(q, "plan_applied", d)
    <3>1. d # c /\ proc'[d] = proc[d]
      BY <1>1, <1>3, <2>1 DEF At, Writing, Applying
    <3>2. NoneOf(s, "plan_applied", d)
      BY <1>1, <2>1, <3>1 DEF IInv, AppliesLater, At, Writing
    <3>3. e.kind = "plan_applied" => e.by = c
      BY <1>1, StampedTyped DEF Told
    <3>4. QED
      BY <1>1, <1>7, <3>1, <3>2, <3>3 DEF NoneOf
  <2>2. QED
    BY <1>1, <2>1 DEF AppliesLater
<1>12. TasksNumbered'
  <2>1. SUFFICES ASSUME NEW d \in Commands
                 PROVE  (/\ At(d, {"idle", "begin", "claim", "resolve", "bootstrap"}) =>
                              \A name \in DOMAIN projects : TasksOf(d, name) = {}
                         /\ At(d, {"tasks", "dependencies"}) => proc[d].name \in DOMAIN projects
                         /\ At(d, {"tasks"}) => Numbered(TasksOf(d, proc[d].name), d)
                         /\ At(d, {"dependencies"}) =>
                              Cardinality(TasksOf(d, proc[d].name)) = CurrentPlan(proc[d].record).tasks)'
    BY DEF TasksNumbered
  <2>2. CASE d = c
    BY <1>3, <2>2 DEF At
  <2>3. CASE d # c
    <3>1. proc'[d] = proc[d]
      BY <1>3, <2>3
    <3>2. QED
      BY <1>2, <3>1 DEF IInv, TasksNumbered, At, TasksOf
  <2>4. QED
    BY <2>2, <2>3
<1>13. QED
  BY <1>5, <1>6, <1>8, <1>9, <1>10, <1>11, <1>12, WriteBounded, WriteStands DEF IInv

-----------------------------------------------------------------------------
(* The invariant.                                                          *)

LEMMA NextKeeps ==
    ASSUME IInv, [Next]_vars
    PROVE  IInv'
<1>1. CASE UNCHANGED vars
  <2>1. UNCHANGED <<session, proc, claims, projects, calls, runs, intents, posts, outcomes>>
    BY <1>1 DEF vars
  <2> USE <2>1
  <2>2. Typed' /\ NothingBefore' /\ HeldIsPast' /\ Published' /\ AppliesLater' /\ OnlyBoundedReserve'
    BY DEF IInv, Typed, WorldTyped, NothingBefore, HeldIsPast, Published, AppliesLater,
           OnlyBoundedReserve, NoneOf, Some, Bounded, At, Writing, Exists
  <2>3. TurnsAreDone'
    BY DEF IInv, TurnsAreDone, Told, At, TasksOf
  <2>4. TasksNumbered'
    BY DEF IInv, TasksNumbered, At, TasksOf
  <2>5. BoundedPart'
    BY DEF IInv, BoundedPart, Calling, Runners, Approved, At, Writing, Exists
  <2>6. HistoryStands'
    BY DEF IInv, HistoryStands, TurnStands, TasksOf
  <2>7. QED
    BY <2>2, <2>3, <2>4, <2>5, <2>6 DEF IInv
<1>2. ASSUME NEW c \in Commands, Step(c) PROVE IInv'
  <2>1. ASSUME NEW op \in Ops, Submit(c, op) PROVE IInv'
    BY <2>1, SubmitKeeps
  <2>2. ASSUME NEW profile \in Profiles, Create(c, profile) PROVE IInv'
    BY <2>2, CreateKeeps
  <2>3. ASSUME NEW plan \in Plans, CallPlanner(c, plan) PROVE IInv'
    BY <2>3, CallPlannerKeeps
  <2>4. ASSUME NEW plan \in Plans, NEW n \in 1 .. plan.questions, Answer(c, n) PROVE IInv'
    <3>1. n \in Nat
      BY PlansAssumption
    <3>2. QED
      BY <2>4, <3>1, AnswerKeeps
  <2>5. ASSUME NEW status \in WorkflowStatuses, RunWorkflow(c, status) PROVE IInv'
    BY <2>5, RunWorkflowKeeps
  <2>6. Generate(c) => IInv'
    BY GenerateKeeps
  <2>7. OpenPlan(c) \/ Claim(c) \/ Resolve(c) => IInv'
    BY OpenPlanKeeps, ClaimKeeps, ResolveKeeps
  <2>8. Bootstrap(c) \/ CreateTask(c) \/ CreateDependencies(c) => IInv'
    BY BootstrapKeeps, CreateTaskKeeps, CreateDependenciesKeeps
  <2>9. PlanWorkflow(c) \/ Recover(c) \/ PlanAction(c) \/ Toggle(c) => IInv'
    BY PlanWorkflowKeeps, RecoverKeeps, PlanActionKeeps, ToggleKeeps
  <2>10. SaveIntent(c) \/ Publish(c) \/ SaveOutcome(c) \/ ActionFails(c) => IInv'
    BY SaveIntentKeeps, PublishKeeps, SaveOutcomeKeeps, ActionFailsKeeps
  <2>11. Write(c) => IInv'
    BY WriteKeeps
  <2>12. QED
    BY <1>2, <2>1, <2>2, <2>3, <2>4, <2>5, <2>6, <2>7, <2>8, <2>9, <2>10, <2>11 DEF Step
<1>3. QED
  BY <1>1, <1>2 DEF Next

LEMMA InitHolds == Init => IInv
<1> SUFFICES ASSUME Init PROVE IInv
  OBVIOUS
<1>1. /\ session = NoSession /\ proc = [c \in Commands |-> Idle] /\ ~Exists
      /\ claims = {} /\ projects = <<>> /\ calls = {} /\ runs = {}
      /\ intents = {} /\ posts = {} /\ outcomes = {}
  BY DEF Init, Exists
<1>2. /\ \A c \in Commands : At(c, {"idle"}) /\ proc[c] = Idle /\ proc[c].record = NoSession
      /\ DOMAIN projects = {} /\ DOMAIN session.turns = {}
  BY <1>1 DEF At, Idle, NoSession
<1>3. Typed
  <2>1. WorldTyped
    <3>1. projects \in [DOMAIN projects -> Folders]
      BY <1>1, <1>2
    <3>2. QED
      BY <1>1, <1>2, <3>1, FS_EmptySet DEF WorldTyped
  <2>2. QED
    BY <1>1, <2>1, IdleIsPlace DEF Typed
<1>4. NothingBefore /\ HeldIsPast /\ OnlyBoundedReserve /\ BoundedPart
  BY <1>1, <1>2 DEF NothingBefore, HeldIsPast, OnlyBoundedReserve, BoundedPart, At, Reading
<1>5. TurnsAreDone /\ Published /\ AppliesLater /\ HistoryStands
  BY <1>2 DEF TurnsAreDone, Published, AppliesLater, HistoryStands, NoneOf, At
<1>6. TasksNumbered
  BY <1>2 DEF TasksNumbered, At
<1>7. QED
  BY <1>3, <1>4, <1>5, <1>6 DEF IInv

\* Every reachable state of the Session satisfies the inductive invariant.
THEOREM Invariance == Spec => []IInv
<1>1. QED
  BY InitHolds, NextKeeps, PTL DEF Spec

-----------------------------------------------------------------------------
(* The properties of the runs.                                             *)

LEMMA InvariantTyped ==
    ASSUME IInv
    PROVE  TypeOK
<1>1. Exists => session.profile \in Profiles /\ session.state \in States /\ Valid(session)
  BY SessionIsPast DEF IInv, Records
<1>2. ASSUME NEW c \in Commands
      PROVE  /\ proc[c].op \in Ops \cup {"none"}
             /\ proc[c].record = NoSession \/ Valid(proc[c].record)
  BY DEF IInv, Typed, Places, HeldIsPast
<1>3. ASSUME NEW name \in DOMAIN projects
      PROVE  /\ projects[name].owner \in Commands
             /\ projects[name].dependencies \in Commands \cup {NoCommand}
             /\ projects[name].tasks \subseteq Commands \X (Nat \ {0})
  <2>1. projects[name] \in Folders
    BY DEF IInv, Typed, WorldTyped
  <2>2. QED
    BY <2>1 DEF Folders
<1>4. UNION {calls, runs, intents, posts, outcomes} \subseteq Commands
  BY DEF IInv, Typed, WorldTyped
<1>5. QED
  BY <1>1, <1>2, <1>3, <1>4 DEF TypeOK

LEMMA ToldRecorded ==
    ASSUME IInv
    PROVE  ToldIsRecorded
BY DEF IInv, HeldIsPast, ToldIsRecorded, At, Reading, Pcs

\* At most one Command owns the only Turn of a kind.
LEMMA AtMostOne ==
    ASSUME NEW S, NEW x, S \subseteq {x}
    PROVE  Cardinality(S) <= 1
<1>1. CASE S = {}
  BY <1>1, FS_EmptySet
<1>2. CASE S = {x}
  BY <1>2, FS_Singleton
<1>3. QED
  BY <1>1, <1>2

LEMMA OnceBounded ==
    ASSUME IInv
    PROVE  BoundedOnce
<1>1. SUFFICES ASSUME Exists, Bounded(session)
               PROVE  /\ Cardinality(calls) <= 1 /\ Cardinality(runs) <= 1
                      /\ Cardinality(DOMAIN projects) <= Cardinality(claims)
  BY DEF BoundedOnce
<1>2. BoundedPart
  BY DEF IInv
<1>3. Cardinality(calls) <= 1
  <2>1. PICK S : S = calls
    OBVIOUS
  <2>2. \A c, d \in S : c = d
    BY <1>1, <1>2, <2>1 DEF BoundedPart, Calling, Some, OnlyOf
  <2>3. \E x : S \subseteq {x}
    <3>1. CASE S = {}
      BY <3>1
    <3>2. CASE S # {}
      BY <2>2, <3>2
    <3>3. QED
      BY <3>1, <3>2
  <2>4. QED
    BY <2>1, <2>3, AtMostOne
<1>4. Cardinality(runs) <= 1
  <2>1. PICK S : S = runs
    OBVIOUS
  <2>2. \A c, d \in S : c = d
    BY <1>1, <1>2, <2>1 DEF BoundedPart, Runners, Some, OnlyOf
  <2>3. \E x : S \subseteq {x}
    <3>1. CASE S = {}
      BY <3>1
    <3>2. CASE S # {}
      BY <2>2, <3>2
    <3>3. QED
      BY <3>1, <3>2
  <2>4. QED
    BY <2>1, <2>3, AtMostOne
<1>5. Cardinality(DOMAIN projects) <= Cardinality(claims)
  BY <1>1, <1>2, CardinalNumbers DEF BoundedPart
<1>6. QED
  BY <1>3, <1>4, <1>5

\* Every record that a Command holds, and the stored one, can be read back.
THEOREM TypeCorrect == Spec => []TypeOK
<1>1. QED
  BY Invariance, InvariantTyped, PTL

\* A Command that answered success keeps its Turns in the Session.
THEOREM ToldStays == Spec => []ToldIsRecorded
<1>1. QED
  BY Invariance, ToldRecorded, PTL

\* What the Session tells was done.
THEOREM HistoryIsDone == Spec => []RecordedIsDone
<1>1. IInv => RecordedIsDone
  BY HistoryIsRecorded DEF IInv
<1>2. QED
  BY <1>1, Invariance, PTL

\* A bounded Session uses its one attempt once.
THEOREM BoundedSessionsOnce == Spec => []BoundedOnce
<1>1. QED
  BY Invariance, OnceBounded, PTL

-----------------------------------------------------------------------------
(* The methods and the replay.                                             *)

\* What the replay may have found.
Founds ==
    [ok : BOOLEAN, bounded : BOOLEAN, state : States, plan : [tasks : Nat, questions : Nat], answered : Nat,
     reservedBy : Commands \cup {NoCommand}, project : Seq(Nat), worked : BOOLEAN, archived : BOOLEAN]

\* Where a Turn fits, the replay goes on as the method does.
LEMMA FitsAlike ==
    ASSUME NEW r \in Records, Replayed(r) \in Founds, Agrees(r), NEW t \in Turned
    PROVE  /\ May(r, t) <=> Fits(Replayed(r), Stamped(r, t))
           /\ May(r, t) => /\ Replay(Replayed(r), Stamped(r, t)) \in Founds
                           /\ Replay(Replayed(r), Stamped(r, t)).ok
                           /\ Replay(Replayed(r), Stamped(r, t)).state = StateAfter(r, t)
           /\ ~May(r, t) => ~Replay(Replayed(r), Stamped(r, t)).ok
<1> DEFINE k == LastIndex(r, {"plan_generation_reserved"})
<1>1. PICK a \in Founds, e \in Turned : a = Replayed(r) /\ e = Stamped(r, t)
  BY StampedTyped
<1>2. /\ a.ok /\ a.state = r.state /\ a.bounded = (r.profile = "bounded_acceptance")
      /\ a.plan = CurrentPlan(r) /\ a.answered = AnsweredCount(r)
      /\ a.reservedBy = IF Reserved(r) THEN r.turns[k].by ELSE NoCommand
      /\ a.project = AppliedProject(r) /\ a.worked = (LatestWorkflow(r) # "none")
      /\ a.archived = IsArchived(r)
  BY <1>1 DEF Agrees
<1>3. /\ e = [t EXCEPT !.by = e.by] /\ e.kind = t.kind
      /\ t.kind # "plan_generated" => e = t
      /\ e.by = IF t.kind = "plan_generated" /\ Reserved(r) THEN r.turns[k].by ELSE t.by
  BY <1>1, StampedTyped DEF Stamped, Turned, Fields
<1>4. Reserved(r) => r.turns[k].by \in Commands
  <2>1. SUFFICES ASSUME Reserved(r) PROVE r.turns[k].by \in Commands
    OBVIOUS
  <2>2. r.turns \in Seq(Turned)
    BY DEF Records
  <2>3. k > 0 /\ k \in 0 .. Len(r.turns)
    BY <2>1, <2>2, LastIndexFacts DEF Reserved, Has
  <2>4. r.turns[k] \in Turned
    BY <2>2, <2>3
  <2> HIDE DEF k
  <2>5. QED
    BY <2>4 DEF Turned, Fields
<1> HIDE DEF k
<1>5. /\ e.answers = t.answers /\ e.plan = t.plan /\ e.project = t.project /\ e.status = t.status
      /\ t.by \in Commands /\ t.kind \in Kinds /\ e.answers \in Nat /\ e.plan \in [tasks : Nat, questions : Nat]
      /\ e.project \in Seq(Nat) /\ e.by \in Commands
  BY <1>3 DEF Turned, Fields
<1>6. May(r, t) <=> Fits(a, e)
  <2>1. CASE t.kind = "plan_generation_reserved"
    BY <1>2, <1>3, <1>4, <2>1, PlansAssumption DEF May, Fits
  <2>2. CASE t.kind = "plan_generated"
    BY <1>2, <1>3, <1>4, <1>5, <2>2, PlansAssumption, ZenonT(60) DEF May, Fits
  <2>3. CASE t.kind \in Kinds \ {"plan_generation_reserved", "plan_generated"}
    BY <1>2, <1>3, <1>5, <2>3, ZenonT(60) DEF May, Fits, Kinds
  <2>4. QED
    BY <1>5, <2>1, <2>2, <2>3
<1>7. ASSUME Fits(a, e)
      PROVE  Replay(a, e) \in Founds /\ Replay(a, e).ok /\ Replay(a, e).state = StateAfter(r, t)
  <2>1. CASE t.kind \in {"plan_generation_reserved", "archived", "unarchived"}
    BY <1>2, <1>3, <1>5, <1>7, <2>1, ZenonT(60) DEF Replay, Founds, StateAfter
  <2>2. CASE t.kind = "plan_generated"
    BY <1>2, <1>3, <1>5, <1>7, <2>2 DEF Replay, Founds, StateAfter, States
  <2>3. CASE t.kind = "clarification_answered"
    <3>1. Replay(a, e) = [a EXCEPT !.answered = a.answered + e.answers,
                                   !.state = IF a.answered + e.answers = a.plan.questions
                                             THEN "plan_generation_approval_required" ELSE a.state]
      BY <1>2, <1>3, <1>7, <2>3 DEF Replay, Founds
    <3>2. a.answered \in Nat /\ a.answered + e.answers \in Nat /\ a.state = "clarification_required"
      BY <1>3, <1>5, <1>7, <2>3 DEF Fits, Founds
    <3>3. a.state \in States /\ "plan_generation_approval_required" \in States
      BY DEF Founds, States
    <3>4. StateAfter(r, t) = IF a.answered + e.answers = a.plan.questions
                             THEN "plan_generation_approval_required" ELSE a.state
      BY <1>2, <1>5, <2>3, <3>2 DEF StateAfter
    <3>5. QED
      BY <1>2, <3>1, <3>2, <3>3, <3>4 DEF Founds
  <2>4. CASE t.kind \in {"plan_applied", "revision_recovery_started"}
    BY <1>2, <1>3, <1>5, <1>7, <2>4, Zenon DEF Replay, Founds, StateAfter, States
  <2>5. CASE t.kind \in {"workflow_recorded", "action_recorded"}
    BY <1>2, <1>3, <1>5, <1>7, <2>5, ZenonT(60) DEF Replay, Founds, StateAfter, States, AfterWorkflow, AfterAction
  <2>6. QED
    BY <1>5, <2>1, <2>2, <2>3, <2>4, <2>5 DEF Kinds
<1>8. ~Fits(a, e) => ~Replay(a, e).ok
  BY DEF Replay, Founds
<1>9. QED
  BY <1>1, <1>6, <1>7, <1>8

LEMMA AnswersFold ==
    ASSUME NEW r
    PROVE  AnsweredCount(r) =
              FoldLeft(Plus, 0, SubSeq(r.turns, LastIndex(r, {"plan_generated"}) + 1, Len(r.turns)))
BY Zenon DEF AnsweredCount, Plus

\* The answers since the current Plan, one Turn later.
LEMMA AnswersAppend ==
    ASSUME NEW r \in Records, NEW q \in Records, NEW e \in Turned, q.turns = Append(r.turns, e),
           AnsweredCount(r) \in Nat
    PROVE  AnsweredCount(q) = IF e.kind = "plan_generated" THEN 0 ELSE AnsweredCount(r) + e.answers
<1> DEFINE k == LastIndex(r, {"plan_generated"})
           l == LastIndex(q, {"plan_generated"})
           n == Len(r.turns)
           rest == SubSeq(r.turns, k + 1, n)
<1>1. /\ r.turns \in Seq(Turned) /\ q.turns \in Seq(Turned) /\ n \in Nat /\ Len(q.turns) = n + 1
      /\ q.turns[n + 1] = e /\ \A i \in 1 .. n : q.turns[i] = r.turns[i]
  BY DEF Records
<1>2. k \in 0 .. n /\ l = IF e.kind = "plan_generated" THEN n + 1 ELSE k
  BY <1>1, LastIndexFacts, LastIndexAppend
<1>3. CASE e.kind = "plan_generated"
  <2>1. SubSeq(q.turns, l + 1, Len(q.turns)) = <<>>
    <3> HIDE DEF l, n
    <3>1. l + 1 > Len(q.turns) /\ l + 1 \in Nat
      BY <1>1, <1>2, <1>3
    <3>2. QED
      BY <1>1, <3>1
  <2>2. AnsweredCount(q) = FoldLeft(Plus, 0, <<>>)
    BY <2>1, AnswersFold
  <2>3. QED
    BY <1>3, <2>2, PlusFold
<1>4. CASE e.kind # "plan_generated"
  <2>1. rest \in Seq(Turned) /\ SubSeq(q.turns, l + 1, Len(q.turns)) = Append(rest, e)
    <3> HIDE DEF k, l, n
    <3>1. l = k /\ k \in Nat /\ k <= n
      BY <1>1, <1>2, <1>4
    <3>2. /\ rest \in Seq(Turned) /\ Len(rest) = n - k
          /\ \A i \in 1 .. n - k : rest[i] = r.turns[k + i]
      BY <1>1, <3>1 DEF n
    <3> HIDE DEF rest
    <3> DEFINE u == SubSeq(q.turns, k + 1, n + 1)
               v == Append(rest, e)
    <3>3. /\ u \in Seq(Turned) /\ Len(u) = n + 1 - k
          /\ \A i \in 1 .. n + 1 - k : u[i] = q.turns[k + i]
      BY <1>1, <3>1
    <3>4. /\ v \in Seq(Turned) /\ Len(v) = n + 1 - k
          /\ \A i \in 1 .. n - k : v[i] = rest[i]
          /\ v[n + 1 - k] = e
      BY <1>1, <3>1, <3>2
    <3>5. \A i \in 1 .. n + 1 - k : u[i] = v[i]
      <4>1. SUFFICES ASSUME NEW i \in 1 .. n + 1 - k PROVE u[i] = v[i]
        OBVIOUS
      <4>2. CASE i = n + 1 - k
        <5>1. k + i = n + 1
          BY <1>1, <3>1, <4>2
        <5>2. u[i] = e
          BY <1>1, <3>3, <5>1
        <5>3. QED
          BY <3>4, <4>2, <5>2
      <4>3. CASE i # n + 1 - k
        <5>1. i \in 1 .. n - k /\ k + i \in 1 .. n
          BY <1>1, <3>1, <4>1, <4>3
        <5>2. u[i] = r.turns[k + i]
          BY <1>1, <3>3, <5>1
        <5>3. v[i] = r.turns[k + i]
          BY <3>2, <3>4, <5>1
        <5>4. QED
          BY <5>2, <5>3
      <4>4. QED
        BY <4>2, <4>3
    <3>6. /\ u = [i \in 1 .. Len(u) |-> u[i]] /\ v = [i \in 1 .. Len(v) |-> v[i]]
      <4>1. u \in Seq(Turned) /\ v \in Seq(Turned)
        BY <3>3, <3>4
      <4> HIDE DEF u, v
      <4>2. QED
        BY <4>1
    <3>7. u = v
      BY <3>3, <3>4, <3>5, <3>6
    <3>8. QED
      BY <1>1, <3>1, <3>2, <3>7
  <2>2. AnsweredCount(r) = FoldLeft(Plus, 0, rest) /\ AnsweredCount(q) = FoldLeft(Plus, 0, Append(rest, e))
    BY <2>1, AnswersFold
  <2> HIDE DEF rest
  <2>3. AnsweredCount(q) = Plus(AnsweredCount(r), e)
    <3>1. \A s \in Seq(Turned) : FoldLeft(Plus, 0, Append(s, e)) = Plus(FoldLeft(Plus, 0, s), e)
      BY PlusFold
    <3>2. FoldLeft(Plus, 0, Append(rest, e)) = Plus(FoldLeft(Plus, 0, rest), e)
      BY <2>1, <3>1
    <3>3. QED
      BY <2>2, <3>2
  <2>4. QED
    BY <1>4, <2>3 DEF Plus
<1>5. QED
  BY <1>3, <1>4

\* Agreement, one Turn later.
LEMMA AgreesAppend ==
    ASSUME NEW r \in Records, Replayed(r) \in Founds, Agrees(r), NEW t \in Turned, May(r, t),
           t.kind = "workflow_recorded" => t.status \in WorkflowStatuses,
           NEW q \in Records, q.profile = r.profile, q.state = StateAfter(r, t),
           q.turns = Append(r.turns, Stamped(r, t))
    PROVE  Replayed(q) \in Founds /\ Agrees(q)
<1>1. PICK a \in Founds, e \in Turned : a = Replayed(r) /\ e = Stamped(r, t)
  BY StampedTyped
<1>2. r.turns \in Seq(Turned) /\ q.turns \in Seq(Turned) /\ q.turns = Append(r.turns, e)
  BY <1>1 DEF Records
<1>3. Replayed(q) = Replay(a, e)
  BY <1>1, <1>2, ReplayFold, ZenonT(60) DEF Replayed
<1>4. /\ Fits(a, e) /\ Replay(a, e) \in Founds /\ Replay(a, e).ok /\ Replay(a, e).state = StateAfter(r, t)
  BY <1>1, FitsAlike
<1>5. /\ a.ok /\ a.state = r.state /\ a.bounded = (r.profile = "bounded_acceptance")
      /\ a.plan = CurrentPlan(r) /\ a.answered = AnsweredCount(r)
      /\ a.reservedBy = IF Reserved(r) THEN r.turns[LastIndex(r, {"plan_generation_reserved"})].by ELSE NoCommand
      /\ a.project = AppliedProject(r) /\ a.worked = (LatestWorkflow(r) # "none")
      /\ a.archived = IsArchived(r)
  BY <1>1 DEF Agrees
<1>6. /\ e.kind = t.kind /\ e.status = t.status /\ e.kind \in Kinds
      /\ e.kind # "clarification_answered" => e.answers = 0
      /\ e.kind = "workflow_recorded" => e.status \in WorkflowStatuses
      /\ e.answers \in Nat /\ e.by \in Commands
  <2>1. e.kind = t.kind /\ e.status = t.status
    BY <1>1, StampedTyped
  <2>2. e \in Turned
    OBVIOUS
  <2>3. QED
    BY <2>1, <2>2 DEF Turned, Fields
<1>7. ASSUME NEW ks
      PROVE  /\ LastIndex(q, ks) = IF e.kind \in ks THEN Len(r.turns) + 1 ELSE LastIndex(r, ks)
             /\ LastIndex(q, ks) > 0 => q.turns[LastIndex(q, ks)] =
                                           IF e.kind \in ks THEN e ELSE r.turns[LastIndex(r, ks)]
             /\ e.kind \in ks => LastIndex(q, ks) > 0
  <2>1. LastIndex(q, ks) = IF e.kind \in ks THEN Len(r.turns) + 1 ELSE LastIndex(r, ks)
    BY <1>2, LastIndexAppend
  <2>2. LastIndex(r, ks) \in 0 .. Len(r.turns) /\ Len(r.turns) \in Nat
    BY <1>2, LastIndexFacts
  <2>3. QED
    BY <1>2, <2>1, <2>2
<1> DEFINE b == Replay(a, e)
<1>8. b.bounded = (q.profile = "bounded_acceptance")
  BY <1>4, <1>5, <1>6, ZenonT(60) DEF Replay, Founds, Kinds
<1>9. b.plan = CurrentPlan(q)
  <2>1. b.plan = IF e.kind = "plan_generated" THEN e.plan ELSE a.plan
    BY <1>4, <1>5, <1>6, Zenon DEF Replay, Founds, Kinds
  <2>2. CurrentPlan(q) = IF e.kind = "plan_generated" THEN e.plan ELSE CurrentPlan(r)
    BY <1>7 DEF CurrentPlan, Has
  <2>3. QED
    BY <1>5, <2>1, <2>2
<1>10. b.answered = AnsweredCount(q)
  <2>1. b.answered = IF e.kind = "plan_generated" THEN 0 ELSE a.answered + e.answers
    <3>1. CASE e.kind \in {"plan_generated", "clarification_answered"}
      BY <1>4, <1>5, <3>1, Zenon DEF Replay, Founds
    <3>2. CASE e.kind \notin {"plan_generated", "clarification_answered"}
      <4>1. b.answered = a.answered
        BY <1>4, <1>5, <1>6, <3>2, Zenon DEF Replay, Founds, Kinds
      <4>2. e.answers = 0 /\ a.answered \in Nat
        BY <1>6, <3>2 DEF Founds
      <4> HIDE DEF b
      <4>3. QED
        BY <3>2, <4>1, <4>2
    <3>3. QED
      BY <3>1, <3>2
  <2>2. AnsweredCount(q) = IF e.kind = "plan_generated" THEN 0 ELSE AnsweredCount(r) + e.answers
    BY <1>2, <1>5, AnswersAppend DEF Founds
  <2>3. QED
    BY <1>5, <2>1, <2>2
<1>11. b.reservedBy = IF Reserved(q) THEN q.turns[LastIndex(q, {"plan_generation_reserved"})].by ELSE NoCommand
  <2>1. b.reservedBy = IF e.kind = "plan_generation_reserved" THEN e.by ELSE a.reservedBy
    BY <1>4, <1>5, <1>6, Zenon DEF Replay, Founds, Kinds
  <2>2. QED
    BY <1>5, <1>7, <2>1, ZenonT(60) DEF Reserved, Has
<1>12. b.project = AppliedProject(q)
  <2>1. b.project = IF e.kind = "plan_applied" THEN e.project ELSE a.project
    BY <1>4, <1>5, <1>6, Zenon DEF Replay, Founds, Kinds
  <2>2. QED
    BY <1>5, <1>7, <2>1 DEF AppliedProject, Has
<1>13. b.worked = (LatestWorkflow(q) # "none")
  <2>1. b.worked = IF e.kind = "workflow_recorded" THEN TRUE ELSE a.worked
    BY <1>4, <1>5, <1>6, Zenon DEF Replay, Founds, Kinds
  <2>2. e.kind = "workflow_recorded" => e.status # "none"
    BY <1>6 DEF WorkflowStatuses, Failures
  <2>3. LatestWorkflow(q) = IF e.kind = "workflow_recorded" THEN e.status ELSE LatestWorkflow(r)
    BY <1>7 DEF LatestWorkflow, Has
  <2>4. QED
    BY <1>5, <2>1, <2>2, <2>3
<1>14. b.archived = IsArchived(q)
  <2>1. b.archived = IF e.kind = "archived" THEN TRUE ELSE IF e.kind = "unarchived" THEN FALSE ELSE a.archived
    BY <1>4, <1>5, <1>6, Zenon DEF Replay, Founds, Kinds
  <2>2. IsArchived(q) = IF e.kind = "archived" THEN TRUE ELSE IF e.kind = "unarchived" THEN FALSE ELSE IsArchived(r)
    <3>1. CASE e.kind \in {"archived", "unarchived"}
      BY <1>7, <3>1 DEF IsArchived
    <3>2. CASE e.kind \notin {"archived", "unarchived"}
      BY <1>7, <3>2 DEF IsArchived
    <3>3. QED
      BY <3>1, <3>2
  <2>3. QED
    BY <1>5, <2>1, <2>2
<1> HIDE DEF b
<1>15. Agrees(q)
  BY <1>3, <1>4, <1>8, <1>9, <1>10, <1>11, <1>12, <1>13, <1>14 DEF Agrees, b
<1>16. QED
  BY <1>3, <1>4, <1>15

LEMMA NewAgrees ==
    ASSUME NEW profile \in Profiles
    PROVE  Replayed(New(profile)) \in Founds /\ Agrees(New(profile))
<1>1. PICK r \in Records : /\ r = New(profile) /\ r.profile = profile /\ r.turns = <<>>
                           /\ r.state = "plan_generation_approval_required"
                           /\ Replayed(r) = Fresh(profile)
  BY NewStands
<1>2. <<>> \in Seq(Nat) /\ NoPlan \in [tasks : Nat, questions : Nat]
  BY DEF NoPlan
<1>3. Fresh(profile) \in Founds
  BY <1>2 DEF Fresh, Founds, States, NoProject
<1>4. \A ks : LastIndex(r, ks) = 0
  <2>1. r.turns \in Seq(Turned) /\ Len(r.turns) = 0
    BY <1>1 DEF Records
  <2>2. ASSUME NEW ks PROVE LastIndex(r, ks) = 0
    <3>1. LastIndex(r, ks) \in 0 .. 0
      BY <2>1, LastIndexFacts
    <3>2. QED
      BY <3>1
  <2>3. QED
    BY <2>2
<1>5. AnsweredCount(r) = 0
  <2>1. SubSeq(r.turns, LastIndex(r, {"plan_generated"}) + 1, Len(r.turns)) = <<>>
    BY <1>1, <1>4
  <2>2. AnsweredCount(r) = FoldLeft(Plus, 0, <<>>)
    BY <2>1, AnswersFold
  <2>3. QED
    BY <2>2, PlusFold
<1>6. Agrees(r)
  <2>1. \A kind : ~Has(r, kind)
    BY <1>4 DEF Has
  <2>2. CurrentPlan(r) = NoPlan /\ ~Reserved(r) /\ AppliedProject(r) = NoProject /\ LatestWorkflow(r) = "none"
    BY <2>1 DEF CurrentPlan, Reserved, AppliedProject, LatestWorkflow
  <2>3. IsArchived(r) = FALSE
    BY <1>4 DEF IsArchived
  <2>4. PICK a : a = Replayed(r)
    OBVIOUS
  <2>5. /\ a.ok /\ a.state = r.state /\ a.bounded = (r.profile = "bounded_acceptance")
        /\ a.plan = NoPlan /\ a.answered = 0 /\ a.reservedBy = NoCommand /\ a.project = NoProject
        /\ a.worked = FALSE /\ a.archived = FALSE
    BY <1>1, <2>4 DEF Fresh
  <2>6. a.worked = (LatestWorkflow(r) # "none")
    BY <2>2, <2>5
  <2>7. a.archived = IsArchived(r)
    BY <2>3, <2>5
  <2>8. QED
    BY <1>5, <2>2, <2>4, <2>5, <2>6, <2>7 DEF Agrees
<1>7. QED
  BY <1>1, <1>3, <1>6

\* Only a start and a stored Turn change the record.
LEMMA OnlyTheseWrite ==
    ASSUME NEW c \in Commands, Step(c)
    PROVE  \/ session' = session
           \/ \E profile \in Profiles : Create(c, profile)
           \/ Write(c)
<1>1. ASSUME NEW op \in Ops, Submit(c, op) PROVE session' = session
  BY <1>1 DEF Submit
<1>2. ASSUME NEW plan \in Plans, CallPlanner(c, plan) PROVE session' = session
  BY <1>2 DEF CallPlanner
<1>3. ASSUME NEW plan \in Plans, NEW n \in 1 .. plan.questions, Answer(c, n) PROVE session' = session
  BY <1>3 DEF Answer
<1>4. ASSUME NEW status \in WorkflowStatuses, RunWorkflow(c, status) PROVE session' = session
  BY <1>4 DEF RunWorkflow
<1>5. Generate(c) \/ OpenPlan(c) \/ Claim(c) \/ Resolve(c) => session' = session
  BY DEF Generate, OpenPlan, Claim, Resolve
<1>6. Bootstrap(c) \/ CreateTask(c) \/ CreateDependencies(c) => session' = session
  BY DEF Bootstrap, CreateTask, CreateDependencies
<1>7. PlanWorkflow(c) \/ Recover(c) \/ PlanAction(c) \/ Toggle(c) => session' = session
  BY DEF PlanWorkflow, Recover, PlanAction, Toggle
<1>8. SaveIntent(c) \/ Publish(c) \/ SaveOutcome(c) \/ ActionFails(c) => session' = session
  BY DEF SaveIntent, Publish, SaveOutcome, ActionFails
<1>9. QED
  BY <1>1, <1>2, <1>3, <1>4, <1>5, <1>6, <1>7, <1>8 DEF Step

\* What the replay finds in the stored record, and what the methods look up there.
Found == Exists => Replayed(session) \in Founds /\ Agrees(session)

LEMMA FoundKept ==
    ASSUME IInv, Found, [Next]_vars
    PROVE  Found'
<1>1. CASE session' = session
  BY <1>1 DEF Found, Exists
<1>2. ASSUME NEW c \in Commands, NEW profile \in Profiles, Create(c, profile)
      PROVE  Found'
  <2>1. session' = New(profile)
    BY <1>2 DEF Create
  <2>2. QED
    BY <2>1, NewAgrees DEF Found
<1>3. ASSUME NEW c \in Commands, Write(c)
      PROVE  Found'
  <2>1. PICK s \in Records, q \in Records, t \in Turned, e \in Turned, p \in Places : Stores(c, s, q, t, e, p)
    BY <1>3, WriteMoves
  <2>2. /\ Replayed(s) \in Founds /\ Agrees(s) /\ May(s, t) /\ q.profile = s.profile /\ q.state = StateAfter(s, t)
        /\ q.turns = Append(s.turns, Stamped(s, t))
        /\ t.kind = "workflow_recorded" => t.status \in WorkflowStatuses
    BY <2>1 DEF Found, Stores, Told
  <2>3. Replayed(q) \in Founds /\ Agrees(q)
    BY <2>2, AgreesAppend
  <2>4. QED
    BY <2>1, <2>3 DEF Found, Stores
<1>4. CASE UNCHANGED vars
  BY <1>1, <1>4 DEF vars
<1>5. QED
  BY <1>1, <1>2, <1>3, <1>4, OnlyTheseWrite DEF Next

\* The Turns that the run tries on the record.
LEMMA TriedTyped ==
    ASSUME IInv, NEW t \in Turns
    PROVE  t \in Turned
<1>1. DOMAIN projects \subseteq Seq(Nat)
  BY DEF IInv, Typed, WorldTyped
<1>2. QED
  BY <1>1, TurnsTyped DEF Turns

LEMMA MethodsAgree ==
    ASSUME IInv, Found
    PROVE  MethodsAgreeWithReplay
<1>1. SUFFICES ASSUME Exists, NEW t \in Turns
               PROVE  May(session, t) <=>
                         /\ Replay(Replayed(session), Stamped(session, t)).ok
                         /\ Replay(Replayed(session), Stamped(session, t)).state = StateAfter(session, t)
  BY DEF MethodsAgreeWithReplay
<1>2. t \in Turned
  BY TriedTyped
<1>3. PICK r \in Records : r = session /\ Replayed(r) \in Founds /\ Agrees(r)
  BY <1>1, SessionIsPast DEF Found
<1>4. QED
  BY <1>2, <1>3, FitsAlike

\* What a method appends the next load accepts, and nothing else is accepted.
THEOREM MethodsAndReplay == Spec => []MethodsAgreeWithReplay
<1>1. Init => Found
  BY DEF Init, Found, Exists
<1>2. IInv /\ Found /\ [Next]_vars => Found'
  BY FoundKept
<1>3. IInv /\ Found => MethodsAgreeWithReplay
  BY MethodsAgree
<1>4. QED
  BY Invariance, <1>1, <1>2, <1>3, PTL DEF Spec

-----------------------------------------------------------------------------
(* A Session, the runs that work for it, and what the CEO is shown of it.  *)

\* What the runs write, and the runs.
Evidences == [by : Commands, task : Ids, targeted : BOOLEAN, review : BOOLEAN, verdict : Verdicts,
              revise : BOOLEAN, revision : {0} \cup Ids]
TaskRecords == [status : Statuses, saved : BOOLEAN, verdict : Verdicts, source : {0} \cup Ids]
RunRecords ==
    [by : {NoCommand} \cup Commands, pc : Points, left : Nat, limit : Nat, queue : SUBSET Ids,
     task : {0} \cup Ids, revs : Nat, err : {"none", "budget"} \cup Failures, end : Ends,
     list : Seq(Evidences)]

\* The variables but the record: typed.
WorldOfWork ==
    /\ worked \in [Commands -> Seq(Evidences)]
    /\ tasks \in [Ids -> TaskRecords]
    /\ succeeded \subseteq Commands \X {"execute", "review", "revise"} \X Ids
    /\ run \in RunRecords
    /\ used \in {0} \cup Commands /\ lost \in BOOLEAN

\* The record: typed, and the methods and the replay look up the same there.
Recorded(r) ==
    /\ r \in Records /\ Replayed(r) \in Founds /\ Agrees(r)
    /\ \A i \in DOMAIN r.turns :
          /\ r.turns[i].kind = "plan_generated" => r.turns[i].plan \in Plans
          /\ r.turns[i].kind = "workflow_recorded" => r.turns[i].status \in WorkflowStatuses

Listing == {"working", "review", "revise"}

\* Where the run is, and what the Task it is at looks like.
RunStands ==
    /\ run.pc = "none" <=> run = NoRun
    /\ run.pc # "none" => run.by = used /\ used \in Commands /\ stored.state = "ready_to_execute"
    /\ run.pc \in {"plan", "round"} => run.err = "none"
    /\ run.queue \subseteq Having("unstarted")
    /\ run.pc \in {"execute"} \cup Listing => run.task \in Ids /\ run.task \notin run.queue
    /\ run.pc \in Listing => run.list # <<>> /\ Current.task = run.task
    /\ run.pc = "execute" => Now.status = "unstarted"
    /\ run.pc = "working" => Now.status = "in_progress"
    /\ run.pc \in {"review", "revise"} => Now.status = "completed" /\ Now.saved
    /\ run.pc = "revise" => Current.verdict = "request_changes" /\ ~Current.revise
    /\ run.pc \in {"working", "review"} => ~Current.revise
    /\ run.pc = "record" => /\ run.end # "none"
                            /\ run.err # "none" => run.end \in Failures
                            /\ run.end = "stalled" => run.err = "stalled"
                            /\ run.end = "completed" => Rows = Having("completed")
    /\ run.err = "stalled" => \E j \in 1 .. Len(run.list) : /\ IsStalled(run.list[j])
                                                            /\ run.pc \in Listing => j < Len(run.list)

\* What is told of a Review, in a Turn or a run that failed or did not.
RightlyTold(e, failed) ==
    e.verdict # "none" =>
        /\ tasks[e.task].status = "completed" /\ tasks[e.task].saved
        /\ e.verdict = tasks[e.task].verdict \/ failed
        /\ run.pc = "review" => e.task # run.task

\* A Workflow Turn and the evidence of its Command.
TurnTold(t) ==
    LET c == t.by IN
    /\ c <= used /\ (run # NoRun => c # run.by)
    /\ \A j \in DOMAIN worked[c] : RightlyTold(worked[c][j], t.status \in Failures)
    /\ t.status = "stalled" => \E j \in DOMAIN worked[c] : IsStalled(worked[c][j])

ReviewsTold ==
    /\ \A i \in DOMAIN stored.turns :
          stored.turns[i].kind = "workflow_recorded" => TurnTold(stored.turns[i])
    /\ \A j \in DOMAIN run.list : RightlyTold(run.list[j], run.err # "none")

\* The Tasks that some Turn lists, and that the run lists.
Listed(t) ==
    \E i \in DOMAIN stored.turns :
        /\ stored.turns[i].kind = "workflow_recorded"
        /\ \E j \in DOMAIN worked[stored.turns[i].by] : worked[stored.turns[i].by][j].task = t
InRun(t) == \E j \in DOMAIN run.list : run.list[j].task = t
HasFailed == \E i \in DOMAIN stored.turns : stored.turns[i].status \in Failures

Before == {"plan_generation_approval_required", "clarification_required", "plan_approval_required"}
Ended == {"completed", "action_completed", "action_attention_required"}

TasksStand ==
    /\ \A t \in Ids : tasks[t].verdict # "none" => tasks[t].status = "completed"
    /\ \A t \in Ids : tasks[t].source # 0 => tasks[t].source \in Rows /\ tasks[t].source < t
    /\ stored.state \in Before => /\ \A i \in DOMAIN stored.turns : stored.turns[i].kind # "workflow_recorded"
                                  /\ \A t \in Ids : tasks[t] = Absent
    /\ stored.state \notin Before => 1 .. CurrentPlan(stored).tasks \subseteq Rows
    /\ stored.state \in Ended => Rows = Having("completed")
    /\ ~lost => \A t \in Ids : tasks[t].status \notin {"absent", "unstarted"} => Listed(t) \/ InRun(t)
    /\ (\E t \in Ids \ Rows : tasks[t].source # 0) => lost \/ HasFailed \/ run.err # "none"

WorkInv == WorldOfWork /\ Recorded(stored) /\ RunStands /\ ReviewsTold /\ TasksStand

-----------------------------------------------------------------------------
(* The record. *)

\* One Turn more.
Prolongs(r, q, t) ==
    /\ Recorded(q) /\ q.profile = r.profile /\ q.state = StateAfter(r, t)
    /\ DOMAIN q.turns = 1 .. Len(r.turns) + 1
    /\ DOMAIN r.turns = 1 .. Len(r.turns) /\ Len(r.turns) \in Nat
    /\ \A i \in 1 .. Len(r.turns) : q.turns[i] = r.turns[i]
    /\ q.turns[Len(r.turns) + 1].kind = t.kind
    /\ q.turns[Len(r.turns) + 1].status = t.status
    /\ q.turns[Len(r.turns) + 1].plan = t.plan
    /\ t.kind # "plan_generated" => /\ q.turns[Len(r.turns) + 1] = t
                                    /\ CurrentPlan(q) = CurrentPlan(r)

LEMMA AppendedProlongs ==
    ASSUME NEW r, Recorded(r), NEW t \in Turned, May(r, t),
           t.kind = "workflow_recorded" => t.status \in WorkflowStatuses,
           t.kind = "plan_generated" => t.plan \in Plans
    PROVE  Prolongs(r, Appended(r, t), t)
<1>1. r \in Records /\ Replayed(r) \in Founds /\ Agrees(r) /\ r.turns \in Seq(Turned)
  BY DEF Recorded, Records
<1>2. PICK q \in Records : /\ q = Appended(r, t) /\ q.profile = r.profile /\ q.state = StateAfter(r, t)
                           /\ q.turns = Append(r.turns, Stamped(r, t))
  BY <1>1, AppendedTyped
<1>3. Replayed(q) \in Founds /\ Agrees(q)
  BY <1>1, <1>2, AgreesAppend
<1>4. PICK e \in Turned : /\ e = Stamped(r, t) /\ e = [t EXCEPT !.by = e.by] /\ e.kind = t.kind
                          /\ e.status = t.status /\ (t.kind # "plan_generated" => e = t)
  BY <1>1, StampedTyped
<1>5. e.plan = t.plan
  BY <1>4 DEF Turned, Fields
<1>6. /\ DOMAIN q.turns = 1 .. Len(r.turns) + 1
      /\ DOMAIN r.turns = 1 .. Len(r.turns) /\ Len(r.turns) \in Nat
      /\ \A i \in 1 .. Len(r.turns) : q.turns[i] = r.turns[i]
      /\ q.turns[Len(r.turns) + 1] = e
  BY <1>1, <1>2, <1>4
<1>7. e.kind # "plan_generated" => CurrentPlan(q) = CurrentPlan(r)
  BY <1>1, <1>2, <1>4, PlanAfterOther
<1>8. ASSUME NEW i \in DOMAIN q.turns
      PROVE  /\ q.turns[i].kind = "plan_generated" => q.turns[i].plan \in Plans
             /\ q.turns[i].kind = "workflow_recorded" => q.turns[i].status \in WorkflowStatuses
  <2>1. CASE i = Len(r.turns) + 1
    BY <1>4, <1>5, <1>6, <2>1
  <2>2. CASE i # Len(r.turns) + 1
    <3>1. i \in DOMAIN r.turns /\ q.turns[i] = r.turns[i]
      BY <1>6, <1>8, <2>2
    <3>2. QED
      BY <3>1 DEF Recorded
  <2>3. QED
    BY <2>1, <2>2
<1>9. Recorded(q)
  BY <1>3, <1>8 DEF Recorded
<1>10. QED
  BY <1>2, <1>4, <1>5, <1>6, <1>7, <1>9 DEF Prolongs

LEMMA NewRecorded ==
    ASSUME NEW profile \in Profiles
    PROVE  Recorded(New(profile))
<1>1. DOMAIN New(profile).turns = {}
  BY NewStands
<1>2. QED
  BY <1>1, NewStands, NewAgrees DEF Recorded

\* The current Plan is one that was proposed.
LEMMA CurrentPlanProposed ==
    ASSUME NEW r, Recorded(r)
    PROVE  CurrentPlan(r) \in Plans \cup {NoPlan}
<1> DEFINE k == LastIndex(r, {"plan_generated"})
<1>1. r.turns \in Seq(Turned) /\ DOMAIN r.turns = 1 .. Len(r.turns)
  BY DEF Recorded, Records
<1>2. k \in 0 .. Len(r.turns) /\ (k > 0 => r.turns[k].kind \in {"plan_generated"})
  BY <1>1, LastIndexFacts
<1>3. CASE k > 0
  <2>1. k \in DOMAIN r.turns /\ r.turns[k].kind = "plan_generated"
    BY <1>1, <1>2, <1>3
  <2>2. r.turns[k].plan \in Plans
    BY <2>1 DEF Recorded
  <2>3. QED
    BY <1>3, <2>2 DEF CurrentPlan, Has
<1>4. CASE ~ (k > 0)
  BY <1>4 DEF CurrentPlan, Has
<1>5. QED
  BY <1>3, <1>4

-----------------------------------------------------------------------------
(* The requests. *)

\* What a request does, whichever it is.
Requested ==
    /\ run = NoRun /\ used' = used + 1 /\ used + 1 \in Commands
    /\ worked' = worked /\ lost' = lost
    /\ succeeded' \subseteq Commands \X {"execute", "review", "revise"} \X Ids
    /\ \/ run' = NoRun
       \/ /\ \E limit \in Nat : \E queue \in SUBSET Ids : \E point \in {"plan", "round", "dispatch"} :
                Begin(limit, queue, point) /\ \A t \in queue : tasks'[t].status = "unstarted"
          /\ stored'.state = "ready_to_execute"
    /\ Recorded(stored')
    /\ \A i \in DOMAIN stored.turns : i \in DOMAIN stored'.turns /\ stored'.turns[i] = stored.turns[i]
    /\ \A i \in DOMAIN stored'.turns : i \in DOMAIN stored.turns \/ stored'.turns[i].kind # "workflow_recorded"
    /\ tasks' \in [Ids -> TaskRecords]
    /\ \A t \in Ids : \/ tasks'[t] = tasks[t]
                      \/ /\ t \notin Rows /\ tasks'[t].verdict = "none"
                         /\ tasks'[t].status \in {"absent", "unstarted"}
                         /\ tasks'[t].source # 0 => tasks'[t].source \in Rows /\ tasks'[t].source < t
                         /\ tasks'[t].source # 0 /\ tasks'[t].status = "absent" => HasFailed
    /\ stored'.state \in Before => stored.state \in Before /\ tasks' = tasks
    /\ stored'.state \notin Before =>
          \/ stored.state \notin Before /\ CurrentPlan(stored') = CurrentPlan(stored)
          \/ \A t \in 1 .. CurrentPlan(stored').tasks : t \in Ids /\ tasks'[t].status # "absent"
    /\ stored'.state \in Ended => stored.state \in Ended /\ tasks' = tasks

LEMMA NoRunTyped ==
    /\ NoRun \in RunRecords /\ NoRun.pc = "none" /\ NoRun.err = "none" /\ NoRun.queue = {}
    /\ NoRun.list = <<>> /\ DOMAIN NoRun.list = {} /\ Len(NoRun.list) = 0
<1>1. <<>> \in Seq(Evidences) /\ DOMAIN <<>> = {} /\ Len(<<>>) = 0
  OBVIOUS
<1>2. QED
  BY <1>1 DEF NoRun, RunRecords, Points, Ends

\* A run begins.
LEMMA BegunTyped ==
    ASSUME used + 1 \in Commands, NEW limit \in Nat, NEW queue \in SUBSET Ids,
           NEW point \in {"plan", "round", "dispatch"}, Begin(limit, queue, point)
    PROVE  /\ run' \in RunRecords /\ run'.pc = point /\ run'.err = "none" /\ run'.queue = queue
           /\ run'.by = used + 1 /\ run'.list = <<>> /\ DOMAIN run'.list = {} /\ Len(run'.list) = 0
           /\ run' # NoRun
<1>1. run' = [NoRun EXCEPT !.by = used + 1, !.pc = point, !.left = limit, !.limit = limit, !.queue = queue]
  BY DEF Begin
<1>2. <<>> \in Seq(Evidences) /\ DOMAIN <<>> = {} /\ Len(<<>>) = 0
  OBVIOUS
<1>3. /\ run' \in RunRecords /\ run'.pc = point /\ run'.err = "none" /\ run'.queue = queue
      /\ run'.by = used + 1 /\ run'.list = <<>>
  BY <1>1, <1>2 DEF NoRun, RunRecords, Points, Ends
<1>4. QED
  BY <1>2, <1>3, NoRunTyped

\* What is told of a Review goes on to be right.
LEMMA ToldStaysRight ==
    ASSUME WorldOfWork, NEW e \in Evidences, NEW f, NEW g, f => g, RightlyTold(e, f),
           \A t \in Ids : tasks[t].status = "completed" /\ (t # run.task \/ run.pc # "review") =>
               /\ tasks'[t].status = "completed" /\ tasks'[t].saved = tasks[t].saved
               /\ tasks'[t].verdict = tasks[t].verdict,
           run'.pc = "review" => /\ run.pc = "working" /\ run'.task = run.task
                                 /\ tasks[run.task].status = "in_progress"
    PROVE  RightlyTold(e, g)'
<1>1. SUFFICES ASSUME e.verdict # "none"
               PROVE  /\ tasks'[e.task].status = "completed" /\ tasks'[e.task].saved
                      /\ e.verdict = tasks'[e.task].verdict \/ g
                      /\ run'.pc = "review" => e.task # run'.task
  BY DEF RightlyTold
<1>2. e.task \in Ids
  BY DEF Evidences
<1>3. /\ tasks[e.task].status = "completed" /\ tasks[e.task].saved
      /\ e.verdict = tasks[e.task].verdict \/ f
      /\ run.pc = "review" => e.task # run.task
  BY <1>1 DEF RightlyTold
<1>4. /\ tasks'[e.task].status = "completed" /\ tasks'[e.task].saved = tasks[e.task].saved
      /\ tasks'[e.task].verdict = tasks[e.task].verdict
  BY <1>2, <1>3
<1>5. QED
  BY <1>3, <1>4

LEMMA CommandNumbers ==
    ASSUME WorldOfWork
    PROVE  /\ \A c \in Commands : c \in Nat /\ c > 0
           /\ used \in Nat /\ NoCommand = 0
<1>1. \A c \in Commands : c \in Nat /\ c > 0
  BY SessionWorkAssumption
<1>2. used \in {0} \cup Commands
  BY DEF WorldOfWork
<1>3. QED
  BY <1>1, <1>2, SessionWorkAssumption

LEMMA TurnCommands ==
    ASSUME NEW r, Recorded(r), NEW i \in DOMAIN r.turns
    PROVE  r.turns[i].by \in Commands /\ r.turns[i].status \in WorkflowStatuses \cup ActionStatuses \cup {"none"}
<1>1. r.turns[i] \in Turned
  BY DEF Recorded, Records
<1>2. QED
  BY <1>1 DEF Turned, Fields

LEMMA WorkedTyped ==
    ASSUME WorldOfWork, NEW c \in Commands, NEW j \in DOMAIN worked[c]
    PROVE  worked[c][j] \in Evidences
<1>1. worked[c] \in Seq(Evidences)
  BY DEF WorldOfWork
<1>2. QED
  BY <1>1

LEMMA RunStandsIdle ==
    ASSUME run = NoRun
    PROVE  RunStands
<1>1. /\ run.pc = "none" /\ run.err = "none" /\ run.queue = {}
  BY NoRunTyped
<1>2. QED
  BY <1>1 DEF RunStands, Listing

LEMMA RequestKeeps ==
    ASSUME WorkInv, Requested
    PROVE  WorkInv'
<1>1. WorldOfWork'
  <2>1. run' \in RunRecords
    BY BegunTyped, NoRunTyped DEF Requested
  <2>2. QED
    BY <2>1 DEF WorkInv, WorldOfWork, Requested
<1>2. Recorded(stored')
  BY DEF Requested
<1>3. /\ run'.pc \in {"none", "plan", "round", "dispatch"} /\ run'.err = "none"
      /\ run'.list = <<>> /\ DOMAIN run'.list = {} /\ Len(run'.list) = 0
      /\ run' # NoRun => run'.by = used + 1 /\ stored'.state = "ready_to_execute"
      /\ run'.pc = "none" <=> run' = NoRun
      /\ \A t \in run'.queue : tasks'[t].status = "unstarted"
      /\ run'.queue \subseteq Ids
      /\ run.err = "none" /\ run.list = <<>> /\ DOMAIN run.list = {} /\ run.pc = "none"
  <2>1. CASE run' = NoRun
    BY <2>1, NoRunTyped DEF Requested
  <2>2. CASE run' # NoRun
    <3>1. PICK limit \in Nat : \E queue \in SUBSET Ids : \E point \in {"plan", "round", "dispatch"} :
                  Begin(limit, queue, point) /\ \A t \in queue : tasks'[t].status = "unstarted"
      BY <2>2 DEF Requested
    <3>2. PICK queue \in SUBSET Ids : \E point \in {"plan", "round", "dispatch"} :
                  Begin(limit, queue, point) /\ \A t \in queue : tasks'[t].status = "unstarted"
      BY <3>1
    <3>3. PICK point \in {"plan", "round", "dispatch"} :
                  Begin(limit, queue, point) /\ \A t \in queue : tasks'[t].status = "unstarted"
      BY <3>2
    <3>4. /\ run'.pc = point /\ run'.err = "none" /\ run'.queue = queue
          /\ run'.by = used + 1 /\ run'.list = <<>> /\ DOMAIN run'.list = {} /\ Len(run'.list) = 0
          /\ run' # NoRun
      BY <3>3, BegunTyped DEF Requested
    <3>5. stored'.state = "ready_to_execute"
      BY <2>2 DEF Requested
    <3>6. run.err = "none" /\ run.list = <<>> /\ DOMAIN run.list = {} /\ run.pc = "none"
      BY NoRunTyped DEF Requested
    <3>7. QED
      BY <3>3, <3>4, <3>5, <3>6
  <2>3. QED
    BY <2>1, <2>2
<1>4. RunStands'
  <2>1. (run.queue \subseteq Having("unstarted"))'
    BY <1>3 DEF Having
  <2>2. run'.pc # "none" => run'.by = used' /\ used' \in Commands /\ stored'.state = "ready_to_execute"
    BY <1>3 DEF Requested
  <2>3. QED
    BY <1>3, <2>1, <2>2 DEF RunStands, Listing
<1>5. \A t \in Ids : /\ t \in Rows => tasks'[t] = tasks[t]
                     /\ tasks[t].status = "completed" => tasks'[t] = tasks[t]
                     /\ t \in Rows => t \in Rows'
  BY DEF Requested, Rows
<1>6. ReviewsTold'
  <2>1. ASSUME NEW i \in DOMAIN stored'.turns, stored'.turns[i].kind = "workflow_recorded"
        PROVE  \E t : t = stored'.turns[i] /\ TurnTold(t)'
    <3>1. i \in DOMAIN stored.turns /\ stored'.turns[i] = stored.turns[i]
      BY <2>1 DEF Requested
    <3>2. PICK t : t = stored.turns[i]
      OBVIOUS
    <3>3. TurnTold(t) /\ t.kind = "workflow_recorded"
      BY <2>1, <3>1, <3>2 DEF WorkInv, ReviewsTold
    <3>4. t.by \in Commands
      BY <3>1, <3>2, TurnCommands DEF WorkInv
    <3>5. t.by <= used' /\ (run' # NoRun => t.by # run'.by)
      <4>1. t.by \in Nat /\ used \in Nat
        BY <3>4, CommandNumbers DEF WorkInv
      <4>2. t.by <= used
        BY <3>3 DEF TurnTold
      <4>3. used' = used + 1
        BY DEF Requested
      <4>4. QED
        BY <1>3, <4>1, <4>2, <4>3
    <3>6. ASSUME NEW j \in DOMAIN worked[t.by]
          PROVE  RightlyTold(worked[t.by][j], t.status \in Failures)'
      <4>1. PICK e \in Evidences : e = worked[t.by][j]
        BY <3>4, WorkedTyped DEF WorkInv
      <4>2. PICK f : f = (t.status \in Failures)
        OBVIOUS
      <4>3. RightlyTold(e, f)
        BY <3>3, <4>1, <4>2 DEF TurnTold
      <4>4. RightlyTold(e, f)'
        BY <1>3, <1>5, <4>3, ToldStaysRight DEF WorkInv
      <4>5. e = worked'[t.by][j]
        BY <4>1 DEF Requested
      <4>6. QED
        BY <4>2, <4>4, <4>5
    <3>7. TurnTold(t)'
      BY <3>3, <3>5, <3>6 DEF TurnTold, Requested
    <3>8. QED
      BY <3>1, <3>2, <3>7
  <2>2. QED
    BY <1>3, <2>1 DEF ReviewsTold
<1>7. TasksStand'
  <2>1. ASSUME NEW t \in Ids PROVE tasks'[t].verdict # "none" => tasks'[t].status = "completed"
    BY DEF WorkInv, TasksStand, Requested
  <2>2. ASSUME NEW t \in Ids PROVE tasks'[t].source # 0 => tasks'[t].source \in Rows' /\ tasks'[t].source < t
    <3>1. tasks'[t].source # 0 => tasks'[t].source \in Rows /\ tasks'[t].source < t
      BY DEF WorkInv, TasksStand, Requested
    <3>2. QED
      BY <1>5, <3>1 DEF Rows
  <2>3. stored'.state \in Before => /\ \A i \in DOMAIN stored'.turns : stored'.turns[i].kind # "workflow_recorded"
                                    /\ \A t \in Ids : tasks'[t] = Absent
    BY DEF WorkInv, TasksStand, Requested
  <2>4. stored'.state \notin Before => 1 .. CurrentPlan(stored').tasks \subseteq Rows'
    <3>1. stored.state \notin Before => 1 .. CurrentPlan(stored).tasks \subseteq Rows
      BY DEF WorkInv, TasksStand
    <3>2. Rows \subseteq Rows'
      BY <1>5 DEF Rows
    <3>3. QED
      BY <3>1, <3>2 DEF Requested, Rows
  <2>5. stored'.state \in Ended => Rows' = Having("completed")'
    BY DEF WorkInv, TasksStand, Requested, Rows, Having
  <2>6. ASSUME ~lost', NEW t \in Ids, tasks'[t].status \notin {"absent", "unstarted"}
        PROVE  Listed(t)' \/ InRun(t)'
    <3>1. tasks'[t] = tasks[t] /\ ~lost
      BY <2>6 DEF Requested
    <3>2. Listed(t) \/ InRun(t)
      BY <2>6, <3>1 DEF WorkInv, TasksStand
    <3>3. Listed(t)
      BY <1>3, <3>2 DEF InRun
    <3>4. QED
      BY <3>3 DEF Listed, Requested
  <2>7. ASSUME NEW t \in Ids, t \notin Rows', tasks'[t].source # 0
        PROVE  lost' \/ HasFailed' \/ run'.err # "none"
    <3>1. HasFailed => HasFailed'
      BY DEF HasFailed, Requested
    <3>2. CASE tasks'[t] = tasks[t]
      <4>1. t \in Ids \ Rows /\ tasks[t].source # 0
        BY <2>7, <3>2 DEF Rows
      <4>2. lost \/ HasFailed \/ run.err # "none"
        BY <4>1 DEF WorkInv, TasksStand
      <4>3. QED
        BY <1>3, <3>1, <4>2 DEF Requested
    <3>3. CASE tasks'[t] # tasks[t]
      BY <2>7, <3>1, <3>3 DEF Requested, Rows
    <3>4. QED
      BY <3>2, <3>3
  <2>8. QED
    BY <2>1, <2>2, <2>3, <2>4, <2>5, <2>6, <2>7 DEF TasksStand
<1>8. QED
  BY <1>1, <1>2, <1>4, <1>6, <1>7 DEF WorkInv

LEMMA OneTurn ==
    ASSUME NEW t \in Turned, Prolongs(stored, stored', t), t.kind # "workflow_recorded"
    PROVE  /\ \A i \in DOMAIN stored.turns : i \in DOMAIN stored'.turns /\ stored'.turns[i] = stored.turns[i]
           /\ \A i \in DOMAIN stored'.turns :
                 i \in DOMAIN stored.turns \/ stored'.turns[i].kind # "workflow_recorded"
BY DEF Prolongs

LEMMA AppendsProlongs ==
    ASSUME WorkInv, NEW t \in Turned, Appends(t),
           t.kind = "workflow_recorded" => t.status \in WorkflowStatuses,
           t.kind = "plan_generated" => t.plan \in Plans
    PROVE  Prolongs(stored, stored', t)
<1>1. PICK r : r = stored
  OBVIOUS
<1>2. Recorded(r) /\ May(r, t) /\ stored' = Appended(r, t)
  BY <1>1 DEF WorkInv, Appends
<1>3. PICK q : q = Appended(r, t)
  OBVIOUS
<1>4. Prolongs(r, q, t)
  BY <1>2, <1>3, AppendedProlongs
<1>5. QED
  BY <1>1, <1>2, <1>3, <1>4

LEMMA GeneratePlanKeeps ==
    ASSUME WorkInv, NEW plan \in Plans, GeneratePlan(plan)
    PROVE  Requested
<1> DEFINE c == used + 1
<1>1. PICK r : r = stored
  OBVIOUS
<1>2. Recorded(r) /\ c \in Commands /\ r \in Records
  BY <1>1 DEF WorkInv, GeneratePlan, Send, Recorded
<1>3. Reserve(c) \in Turned /\ Generated(c, plan) \in Turned
  BY <1>2, TurnsTyped
<1>4. /\ Reserve(c).kind = "plan_generation_reserved" /\ Generated(c, plan).kind = "plan_generated"
      /\ Generated(c, plan).plan = plan
  BY DEF Reserve, Generated, Turn
<1> HIDE DEF c
<1>5. PICK p : p = Appended(r, Reserve(c))
  OBVIOUS
<1>6. May(r, Reserve(c)) => Prolongs(r, p, Reserve(c))
  BY <1>2, <1>3, <1>4, <1>5, AppendedProlongs
<1>7. PICK s : /\ s = IF IsBounded THEN p ELSE r
               /\ May(s, Generated(c, plan))
               /\ IsBounded => May(r, Reserve(c))
               /\ stored' \in {Appended(s, Generated(c, plan))} \cup IF IsBounded THEN {p} ELSE {}
  BY <1>1, <1>5 DEF GeneratePlan, c
<1>8. /\ Recorded(s)
      /\ \A i \in DOMAIN r.turns : i \in DOMAIN s.turns /\ s.turns[i] = r.turns[i]
      /\ \A i \in DOMAIN s.turns : i \in DOMAIN r.turns \/ s.turns[i].kind # "workflow_recorded"
      /\ s.state = r.state
  <2>1. CASE IsBounded
    <3>1. Prolongs(r, s, Reserve(c))
      BY <1>6, <1>7, <2>1
    <3>2. QED
      BY <1>4, <3>1 DEF Prolongs, StateAfter
  <2>2. CASE ~IsBounded
    BY <1>2, <1>7, <2>2
  <2>3. QED
    BY <2>1, <2>2
<1>9. s.state = "plan_generation_approval_required"
  BY <1>4, <1>7 DEF May
<1>10. PICK q : q = Appended(s, Generated(c, plan))
  OBVIOUS
<1>11. Prolongs(s, q, Generated(c, plan))
  BY <1>3, <1>4, <1>7, <1>8, <1>10, AppendedProlongs
<1>12. /\ Recorded(q)
       /\ \A i \in DOMAIN s.turns : i \in DOMAIN q.turns /\ q.turns[i] = s.turns[i]
       /\ \A i \in DOMAIN q.turns : i \in DOMAIN s.turns \/ q.turns[i].kind # "workflow_recorded"
       /\ q.state \in Before
  BY <1>4, <1>11 DEF Prolongs, StateAfter, Before
<1>13. stored' = q \/ stored' = s
  BY <1>7, <1>10
<1>14. /\ Recorded(stored')
       /\ \A i \in DOMAIN r.turns : i \in DOMAIN stored'.turns /\ stored'.turns[i] = r.turns[i]
       /\ \A i \in DOMAIN stored'.turns : i \in DOMAIN r.turns \/ stored'.turns[i].kind # "workflow_recorded"
       /\ stored'.state \in Before /\ r.state \in Before
  <2>1. CASE stored' = s
    BY <1>8, <1>9, <2>1 DEF Before
  <2>2. CASE stored' = q
    BY <1>8, <1>9, <1>12, <2>2 DEF Before
  <2>3. QED
    BY <1>13, <2>1, <2>2
<1>15. run = NoRun /\ used' = used + 1 /\ used + 1 \in Commands
  BY DEF GeneratePlan, Send
<1>16. UNCHANGED <<worked, tasks, succeeded, run, lost>>
  BY DEF GeneratePlan
<1>17. stored'.state \notin Ended
  BY <1>14 DEF Before, Ended
<1>18. QED
  BY <1>1, <1>14, <1>15, <1>16, <1>17 DEF Requested, WorkInv, WorldOfWork

\* The requests that leave the Vault and the Workflow alone.
LEMMA PlainRequest ==
    ASSUME WorkInv, Send, UNCHANGED <<worked, tasks, succeeded, run, lost>>,
           NEW t \in Turned, Appends(t), t.kind \notin {"workflow_recorded", "plan_generated"},
           stored'.state \in Before <=> stored.state \in Before,
           stored'.state \in Ended => stored.state \in Ended
    PROVE  Requested
<1>1. Prolongs(stored, stored', t)
  BY AppendsProlongs
<1>2. /\ \A i \in DOMAIN stored.turns : i \in DOMAIN stored'.turns /\ stored'.turns[i] = stored.turns[i]
      /\ \A i \in DOMAIN stored'.turns :
            i \in DOMAIN stored.turns \/ stored'.turns[i].kind # "workflow_recorded"
  BY <1>1, OneTurn
<1>3. Recorded(stored') /\ CurrentPlan(stored') = CurrentPlan(stored)
  BY <1>1 DEF Prolongs
<1>4. run = NoRun /\ used' = used + 1 /\ used + 1 \in Commands
  BY DEF Send
<1>5. QED
  BY <1>2, <1>3, <1>4 DEF Requested, WorkInv, WorldOfWork

LEMMA AnswerPlanKeeps ==
    ASSUME WorkInv, NEW n \in 1 .. CurrentPlan(stored).questions, AnswerPlan(n)
    PROVE  Requested
<1> DEFINE t == Answered(used + 1, n)
<1>1. used + 1 \in Commands /\ Send /\ Appends(t) /\ UNCHANGED <<worked, tasks, succeeded, run, lost>>
  BY DEF AnswerPlan, Send
<1>2. CurrentPlan(stored).questions \in Nat
  <2>1. CurrentPlan(stored) \in Plans \cup {NoPlan}
    BY CurrentPlanProposed DEF WorkInv
  <2>2. QED
    BY <2>1, PlansAssumption DEF NoPlan
<1>3. t \in Turned
  BY <1>1, <1>2, TurnsTyped
<1>4. t.kind = "clarification_answered"
  BY DEF Answered, Turn
<1> HIDE DEF t
<1>5. Prolongs(stored, stored', t) /\ stored.state = "clarification_required"
  BY <1>1, <1>3, <1>4, AppendsProlongs DEF Appends, May
<1>6. stored'.state \in Before /\ stored'.state \notin Ended
  BY <1>4, <1>5 DEF Prolongs, StateAfter, Before, Ended
<1>7. QED
  BY <1>1, <1>3, <1>4, <1>5, <1>6, PlainRequest DEF Before

LEMMA PublishKeepsWork ==
    ASSUME WorkInv, NEW status \in ActionStatuses, PublishDeliverable(status)
    PROVE  Requested
<1> DEFINE t == Acted(used + 1, AppliedProject(stored), status)
<1>1. /\ used + 1 \in Commands /\ Send /\ Appends(t) /\ UNCHANGED <<worked, tasks, succeeded, run, lost>>
      /\ stored.state = "completed"
  BY DEF PublishDeliverable, Send
<1>2. AppliedProject(stored) \in Seq(Nat)
  BY AppliedTyped DEF WorkInv, Recorded
<1>3. t \in Turned
  BY <1>1, <1>2, TurnsTyped
<1>4. t.kind = "action_recorded"
  BY DEF Acted, Turn
<1> HIDE DEF t
<1>5. Prolongs(stored, stored', t)
  BY <1>1, <1>3, <1>4, AppendsProlongs
<1>6. stored'.state \in Ended /\ stored'.state \notin Before
  BY <1>4, <1>5 DEF Prolongs, StateAfter, AfterAction, Before, Ended
<1>7. QED
  BY <1>1, <1>3, <1>4, <1>6, PlainRequest DEF Before, Ended

LEMMA ArchiveKeeps ==
    ASSUME WorkInv, NEW kind \in {"archived", "unarchived"}, Archive(kind)
    PROVE  Requested
<1> DEFINE t == Turn(kind, used + 1)
<1>1. used + 1 \in Commands /\ Send /\ Appends(t) /\ UNCHANGED <<worked, tasks, succeeded, run, lost>>
  BY DEF Archive, Send
<1>2. t \in Turned
  BY <1>1, TurnsTyped DEF Kinds
<1>3. t.kind = kind
  BY DEF Turn
<1> HIDE DEF t
<1>4. Prolongs(stored, stored', t)
  BY <1>1, <1>2, <1>3, AppendsProlongs
<1>5. stored'.state = stored.state
  BY <1>3, <1>4 DEF Prolongs, StateAfter
<1>6. QED
  BY <1>1, <1>2, <1>3, <1>5, PlainRequest

LEMMA NewTasks ==
    /\ Absent \in TaskRecords /\ Absent.status = "absent" /\ Absent.verdict = "none" /\ Absent.source = 0
    /\ \A source \in {0} \cup Ids : /\ Unstarted(source) \in TaskRecords
                                    /\ Unstarted(source).status = "unstarted"
                                    /\ Unstarted(source).verdict = "none"
                                    /\ Unstarted(source).source = source
<1>1. /\ Absent \in TaskRecords /\ Absent.status = "absent" /\ Absent.verdict = "none" /\ Absent.source = 0
  BY DEF Absent, TaskRecords, Statuses, Verdicts
<1>2. ASSUME NEW source \in {0} \cup Ids
      PROVE  /\ Unstarted(source) \in TaskRecords /\ Unstarted(source).status = "unstarted"
             /\ Unstarted(source).verdict = "none" /\ Unstarted(source).source = source
  BY DEF Unstarted, Absent, TaskRecords, Statuses, Verdicts
<1>3. QED
  BY <1>1, <1>2

LEMMA ApplyKeepsWork ==
    ASSUME WorkInv, NEW preauth \in BOOLEAN, Apply(preauth)
    PROVE  Requested
<1> DEFINE t == Applied(used + 1, Project, preauth)
           m == CurrentPlan(stored).tasks
<1>1. used + 1 \in Commands /\ Send /\ Appends(t) /\ UNCHANGED <<worked, succeeded, lost>>
  BY DEF Apply, Send
<1>2. Project \in Seq(Nat)
  BY DEF Project
<1>3. t \in Turned
  BY <1>1, <1>2, TurnsTyped
<1>4. t.kind = "plan_applied"
  BY DEF Applied, Turn
<1>5. m \in Nat /\ m <= MaxTaskId /\ MaxTaskId \in Nat
  <2>1. CurrentPlan(stored) \in Plans \cup {NoPlan}
    BY CurrentPlanProposed DEF WorkInv
  <2>2. CASE CurrentPlan(stored) \in Plans
    BY <2>2, PlansAssumption, SessionWorkAssumption
  <2>3. CASE CurrentPlan(stored) = NoPlan
    BY <2>3, SessionWorkAssumption DEF NoPlan
  <2>4. QED
    BY <2>1, <2>2, <2>3
<1>6. tasks' = [i \in Ids |-> IF i <= m THEN Unstarted(0) ELSE Absent]
  BY DEF Apply
<1>7. run' = NoRun \/ \E limit \in Nat : Begin(limit, {}, "plan")
  <2>1. 1 \in Nat /\ DefaultLimit \in Nat
    BY SessionWorkAssumption
  <2>2. QED
    BY <2>1 DEF Apply, Send
<1> HIDE DEF t
<1>8. Prolongs(stored, stored', t) /\ stored.state = "plan_approval_required"
  BY <1>1, <1>3, <1>4, AppendsProlongs DEF Appends, May
<1>9. stored'.state = "ready_to_execute" /\ CurrentPlan(stored') = CurrentPlan(stored) /\ Recorded(stored')
  BY <1>4, <1>8 DEF Prolongs, StateAfter
<1>10. /\ \A i \in DOMAIN stored.turns : i \in DOMAIN stored'.turns /\ stored'.turns[i] = stored.turns[i]
       /\ \A i \in DOMAIN stored'.turns :
             i \in DOMAIN stored.turns \/ stored'.turns[i].kind # "workflow_recorded"
  BY <1>3, <1>4, <1>8, OneTurn
<1>11. \A i \in Ids : tasks[i] = Absent
  BY <1>8 DEF WorkInv, TasksStand, Before
<1> HIDE DEF m
<1>12. tasks' \in [Ids -> TaskRecords]
  BY <1>6, NewTasks
<1>13. ASSUME NEW i \in Ids
       PROVE  \/ tasks'[i] = tasks[i]
              \/ /\ i \notin Rows /\ tasks'[i].verdict = "none"
                 /\ tasks'[i].status = "unstarted" /\ tasks'[i].source = 0
  BY <1>6, <1>11, NewTasks DEF Rows
<1>14. \A i \in 1 .. m : i \in Ids /\ tasks'[i].status # "absent"
  BY <1>5, <1>6, NewTasks DEF Ids
<1>15. run = NoRun /\ used' = used + 1
  BY <1>1 DEF Send
<1>16. run' = NoRun \/ \E limit \in Nat : \E queue \in SUBSET Ids : \E point \in {"plan", "round", "dispatch"} :
                Begin(limit, queue, point) /\ \A i \in queue : tasks'[i].status = "unstarted"
  <2>1. {} \in SUBSET Ids /\ \A i \in {} : tasks'[i].status = "unstarted"
    OBVIOUS
  <2>2. QED
    BY <1>7, <2>1
<1>17. /\ stored'.state \notin Before /\ stored'.state \notin Ended
       /\ \A i \in 1 .. CurrentPlan(stored').tasks : i \in Ids /\ tasks'[i].status # "absent"
  BY <1>9, <1>14 DEF Before, Ended, m
<1>18. succeeded' \subseteq Commands \X {"execute", "review", "revise"} \X Ids
  BY <1>1 DEF WorkInv, WorldOfWork
<1>19. QED
  BY <1>1, <1>9, <1>10, <1>12, <1>13, <1>15, <1>16, <1>17, <1>18 DEF Requested

LEMMA StartWorkflowKeeps ==
    ASSUME WorkInv, NEW limit \in Limits, StartWorkflow(limit)
    PROVE  Requested
<1>1. /\ run = NoRun /\ used + 1 \in Commands /\ used' = used + 1 /\ stored.state = "ready_to_execute"
      /\ Begin(limit, {}, "round") /\ UNCHANGED <<stored, worked, tasks, succeeded, lost>>
  BY DEF StartWorkflow, Send
<1>2. limit \in Nat /\ {} \in SUBSET Ids /\ \A i \in {} : tasks'[i].status = "unstarted"
  BY SessionWorkAssumption
<1>3. \E l \in Nat : \E queue \in SUBSET Ids : \E point \in {"plan", "round", "dispatch"} :
          Begin(l, queue, point) /\ \A i \in queue : tasks'[i].status = "unstarted"
  BY <1>1, <1>2
<1>4. stored.state \notin Before /\ stored.state \notin Ended
  BY <1>1 DEF Before, Ended
<1>5. Recorded(stored)
  BY DEF WorkInv
<1>6. tasks \in [Ids -> TaskRecords] /\ succeeded \subseteq Commands \X {"execute", "review", "revise"} \X Ids
  BY DEF WorkInv, WorldOfWork
<1>7. QED
  BY <1>1, <1>3, <1>4, <1>5, <1>6 DEF Requested

\* What the latest Workflow Turn and the state say of each other.
LEMMA LatestTurn ==
    ASSUME WorkInv, LatestWorkflow(stored) # "none"
    PROVE  LET i == LastIndex(stored, {"workflow_recorded"}) IN
           /\ i \in DOMAIN stored.turns /\ stored.turns[i].kind = "workflow_recorded"
           /\ stored.turns[i].by \in Commands /\ TurnTold(stored.turns[i])
           /\ LatestList(stored) = worked[stored.turns[i].by]
           /\ LatestList(stored) \in Seq(Evidences)
           /\ stored.turns[i].status = LatestWorkflow(stored)
<1> DEFINE i == LastIndex(stored, {"workflow_recorded"})
<1>1. stored.turns \in Seq(Turned) /\ DOMAIN stored.turns = 1 .. Len(stored.turns)
  BY DEF WorkInv, Recorded, Records
<1>2. i \in 0 .. Len(stored.turns) /\ (i > 0 => stored.turns[i].kind \in {"workflow_recorded"})
  BY <1>1, LastIndexFacts
<1>3. i > 0 /\ LatestWorkflow(stored) = stored.turns[i].status
  BY DEF LatestWorkflow, Has
<1>4. LatestList(stored) = worked[stored.turns[i].by]
  BY DEF LatestList
<1> HIDE DEF i
<1>5. i \in DOMAIN stored.turns /\ stored.turns[i].kind = "workflow_recorded"
  BY <1>1, <1>2, <1>3
<1>6. stored.turns[i].by \in Commands
  BY <1>5, TurnCommands DEF WorkInv
<1>7. TurnTold(stored.turns[i])
  BY <1>5 DEF WorkInv, ReviewsTold
<1>8. QED
  BY <1>3, <1>4, <1>5, <1>6, <1>7 DEF i, WorkInv, WorldOfWork

LEMMA OfferedRecovery ==
    ASSUME WorkInv, Offered(stored) = "recover"
    PROVE  /\ stored.state = "workflow_attention_required"
           /\ LatestWorkflow(stored) \in {"stalled", "over_budget"}
<1>1. stored.state \in States
  BY DEF WorkInv, Recorded, Records
<1>2. stored.state = "workflow_attention_required"
  BY <1>1 DEF Offered, States
<1>3. QED
  BY <1>2 DEF Offered

\* A stalled Turn lists the Task that stalled, and it is the one to revise.
LEMMA StalledTyped ==
    ASSUME WorkInv, LatestWorkflow(stored) = "stalled"
    PROVE  Stalled \in Ids
<1> DEFINE l == LatestList(stored)
           I == {j \in 1 .. Len(l) : IsStalled(l[j])}
<1>1. PICK i : /\ i = LastIndex(stored, {"workflow_recorded"})
               /\ TurnTold(stored.turns[i]) /\ l = worked[stored.turns[i].by]
               /\ stored.turns[i].status = "stalled"
  BY LatestTurn
<1>2. l \in Seq(Evidences)
  BY LatestTurn
<1>3. \E j \in DOMAIN l : IsStalled(l[j])
  BY <1>1 DEF TurnTold
<1>4. SelectLastInSeq(l, IsStalled) = IF I # {} THEN Max(I) ELSE 0
  BY DEF SelectLastInSeq
<1>5. Stalled = l[SelectLastInSeq(l, IsStalled)].task
  BY DEF Stalled
<1> HIDE DEF l
<1>6. Len(l) \in Nat /\ DOMAIN l = 1 .. Len(l) /\ I # {}
  BY <1>2, <1>3
<1>7. Max(I) \in I
  <2>1. I \in SUBSET (1 .. Len(l))
    OBVIOUS
  <2> HIDE DEF I
  <2>2. QED
    BY <1>6, <2>1, GreatestIndex
<1>8. l[Max(I)] \in Evidences
  <2>1. Max(I) \in DOMAIN l
    BY <1>6, <1>7
  <2> HIDE DEF I
  <2>2. QED
    BY <1>2, <2>1
<1>9. QED
  BY <1>4, <1>5, <1>6, <1>8 DEF Evidences

\* A recovery's first Turn.
LEMMA RecoveryBegins ==
    ASSUME WorkInv, StartsRecovery
    PROVE  /\ run = NoRun /\ used' = used + 1 /\ used + 1 \in Commands
           /\ stored.state = "workflow_attention_required" /\ stored'.state = "ready_to_execute"
           /\ Recorded(stored') /\ CurrentPlan(stored') = CurrentPlan(stored)
           /\ \A i \in DOMAIN stored.turns : i \in DOMAIN stored'.turns /\ stored'.turns[i] = stored.turns[i]
           /\ \A i \in DOMAIN stored'.turns :
                 i \in DOMAIN stored.turns \/ stored'.turns[i].kind # "workflow_recorded"
           /\ LatestWorkflow(stored) \in {"stalled", "over_budget"}
           /\ HasFailed
<1> DEFINE t == Turn("revision_recovery_started", used + 1)
<1>1. used + 1 \in Commands /\ run = NoRun /\ used' = used + 1 /\ Appends(t) /\ Offered(stored) = "recover"
  BY DEF StartsRecovery, Send
<1>2. t \in Turned
  BY <1>1, TurnsTyped DEF Kinds
<1>3. t.kind = "revision_recovery_started"
  BY DEF Turn
<1> HIDE DEF t
<1>4. Prolongs(stored, stored', t)
  BY <1>1, <1>2, <1>3, AppendsProlongs
<1>5. stored'.state = "ready_to_execute" /\ Recorded(stored') /\ CurrentPlan(stored') = CurrentPlan(stored)
  BY <1>3, <1>4 DEF Prolongs, StateAfter
<1>6. /\ stored.state = "workflow_attention_required"
      /\ LatestWorkflow(stored) \in {"stalled", "over_budget"}
  BY <1>1, OfferedRecovery
<1>7. HasFailed
  BY <1>6, LatestTurn DEF HasFailed, Failures
<1>8. QED
  BY <1>1, <1>2, <1>3, <1>4, <1>5, <1>6, <1>7, OneTurn

LEMMA RevisedRows ==
    ASSUME WorkInv, NEW s \in Ids, tasks[s].verdict # "none" \/ tasks[s].status = "completed",
           NEW n \in Ids, IsNextTaskID(n)
    PROVE  s \in Rows /\ s < n /\ n \notin Rows /\ tasks[n].status = "absent" /\ tasks[n].verdict = "none"
<1>1. tasks[s].status = "completed"
  BY DEF WorkInv, TasksStand
<1>2. \A u \in Rows : u < n
  BY DEF IsNextTaskID
<1>3. s \in Rows /\ s < n
  BY <1>1, <1>2 DEF Rows
<1>4. n \notin Rows
  BY <1>2, SessionWorkAssumption DEF Ids
<1>5. tasks[n].status = "absent"
  BY <1>4 DEF Rows
<1>6. QED
  BY <1>3, <1>4, <1>5 DEF WorkInv, TasksStand

LEMMA RecoverRevisionKeeps ==
    ASSUME WorkInv, NEW n \in Ids, RecoverRevision(n)
    PROVE  Requested
<1>1. StartsRecovery /\ Begin(DefaultLimit, {n}, "dispatch") /\ UNCHANGED <<worked, lost>>
  BY DEF RecoverRevision
<1>2. /\ run = NoRun /\ used' = used + 1 /\ used + 1 \in Commands
      /\ stored.state = "workflow_attention_required" /\ stored'.state = "ready_to_execute"
      /\ Recorded(stored') /\ CurrentPlan(stored') = CurrentPlan(stored)
      /\ \A i \in DOMAIN stored.turns : i \in DOMAIN stored'.turns /\ stored'.turns[i] = stored.turns[i]
      /\ \A i \in DOMAIN stored'.turns :
            i \in DOMAIN stored.turns \/ stored'.turns[i].kind # "workflow_recorded"
      /\ LatestWorkflow(stored) \in {"stalled", "over_budget"}
  BY <1>1, RecoveryBegins
<1>3. /\ tasks' \in [Ids -> TaskRecords] /\ tasks'[n].status = "unstarted"
      /\ succeeded' \subseteq Commands \X {"execute", "review", "revise"} \X Ids
      /\ \A t \in Ids : \/ tasks'[t] = tasks[t]
                        \/ /\ t \notin Rows /\ tasks'[t].verdict = "none" /\ tasks'[t].status = "unstarted"
                           /\ tasks'[t].source \in Rows /\ tasks'[t].source < t
  <2>1. /\ tasks \in [Ids -> TaskRecords]
        /\ succeeded \subseteq Commands \X {"execute", "review", "revise"} \X Ids
    BY DEF WorkInv, WorldOfWork
  <2>2. CASE LatestWorkflow(stored) = "over_budget"
    BY <2>1, <2>2 DEF RecoverRevision, CanContinue
  <2>3. CASE LatestWorkflow(stored) = "stalled"
    <3>1. /\ tasks[Stalled].verdict = "request_changes" /\ IsNextTaskID(n)
          /\ tasks' = [tasks EXCEPT ![n] = Unstarted(Stalled)]
          /\ succeeded' = succeeded \cup {<<used + 1, "revise", Stalled>>}
      BY <2>3 DEF RecoverRevision
    <3>2. PICK s \in Ids : s = Stalled
      BY <2>3, StalledTyped
    <3>3. s \in Rows /\ s < n /\ n \notin Rows
      BY <3>1, <3>2, RevisedRows
    <3>4. /\ tasks' \in [Ids -> TaskRecords] /\ tasks'[n] = Unstarted(s)
          /\ \A t \in Ids : t # n => tasks'[t] = tasks[t]
      BY <2>1, <3>1, <3>2, NewTasks
    <3>5. succeeded' \subseteq Commands \X {"execute", "review", "revise"} \X Ids
      BY <1>2, <2>1, <3>1, <3>2
    <3>6. Unstarted(s).status = "unstarted" /\ Unstarted(s).verdict = "none" /\ Unstarted(s).source = s
      BY NewTasks
    <3>7. QED
      BY <3>3, <3>4, <3>5, <3>6
  <2>4. QED
    BY <1>2, <2>2, <2>3
<1>4. \E limit \in Nat : \E queue \in SUBSET Ids : \E point \in {"plan", "round", "dispatch"} :
          Begin(limit, queue, point) /\ \A i \in queue : tasks'[i].status = "unstarted"
  <2>1. DefaultLimit \in Nat /\ {n} \in SUBSET Ids /\ \A i \in {n} : tasks'[i].status = "unstarted"
    BY <1>3, SessionWorkAssumption
  <2>2. QED
    BY <1>1, <2>1
<1>5. /\ stored.state \notin Before /\ stored.state \notin Ended
      /\ stored'.state \notin Before /\ stored'.state \notin Ended
  BY <1>2 DEF Before, Ended
<1>6. QED
  BY <1>1, <1>2, <1>3, <1>4, <1>5 DEF Requested

LEMMA RecoverStopsKeeps ==
    ASSUME WorkInv, NEW n \in Ids, RecoverStops(n)
    PROVE  Requested
<1>1. StartsRecovery /\ UNCHANGED <<worked, succeeded, run, lost>>
  BY DEF RecoverStops
<1>2. /\ run = NoRun /\ used' = used + 1 /\ used + 1 \in Commands
      /\ stored.state = "workflow_attention_required" /\ stored'.state = "ready_to_execute"
      /\ Recorded(stored') /\ CurrentPlan(stored') = CurrentPlan(stored)
      /\ \A i \in DOMAIN stored.turns : i \in DOMAIN stored'.turns /\ stored'.turns[i] = stored.turns[i]
      /\ \A i \in DOMAIN stored'.turns :
            i \in DOMAIN stored.turns \/ stored'.turns[i].kind # "workflow_recorded"
      /\ HasFailed
  BY <1>1, RecoveryBegins
<1>3. /\ tasks' \in [Ids -> TaskRecords]
      /\ \A t \in Ids : \/ tasks'[t] = tasks[t]
                        \/ /\ t \notin Rows /\ tasks'[t].verdict = "none" /\ tasks'[t].status = "absent"
                           /\ tasks'[t].source \in Rows /\ tasks'[t].source < t
  <2>1. tasks \in [Ids -> TaskRecords]
    BY DEF WorkInv, WorldOfWork
  <2>2. CASE tasks' = tasks
    BY <2>1, <2>2
  <2>3. CASE tasks' # tasks
    <3>1. /\ LatestWorkflow(stored) = "stalled" /\ tasks[Stalled].verdict = "request_changes"
          /\ IsNextTaskID(n) /\ tasks' = [tasks EXCEPT ![n].source = Stalled]
      BY <2>3 DEF RecoverStops
    <3>2. PICK s \in Ids : s = Stalled
      BY <3>1, StalledTyped
    <3>3. s \in Rows /\ s < n /\ n \notin Rows /\ tasks[n].status = "absent" /\ tasks[n].verdict = "none"
      BY <3>1, <3>2, RevisedRows
    <3>4. /\ tasks' \in [Ids -> TaskRecords]
          /\ tasks'[n].source = s /\ tasks'[n].status = tasks[n].status /\ tasks'[n].verdict = tasks[n].verdict
          /\ \A t \in Ids : t # n => tasks'[t] = tasks[t]
      BY <2>1, <3>1, <3>2 DEF TaskRecords
    <3>5. QED
      BY <3>3, <3>4
  <2>4. QED
    BY <2>2, <2>3
<1>4. /\ stored.state \notin Before /\ stored.state \notin Ended
      /\ stored'.state \notin Before /\ stored'.state \notin Ended
  BY <1>2 DEF Before, Ended
<1>5. succeeded' \subseteq Commands \X {"execute", "review", "revise"} \X Ids
  BY <1>1 DEF WorkInv, WorldOfWork
<1>6. QED
  BY <1>1, <1>2, <1>3, <1>4, <1>5 DEF Requested

LEMMA RequestsKeep ==
    ASSUME WorkInv, Request
    PROVE  WorkInv'
<1>1. Requested
  BY GeneratePlanKeeps, AnswerPlanKeeps, ApplyKeepsWork, StartWorkflowKeeps, RecoverRevisionKeeps,
     RecoverStopsKeeps, PublishKeepsWork, ArchiveKeeps DEF Request
<1>2. QED
  BY <1>1, RequestKeeps

-----------------------------------------------------------------------------
(* The Workflow run. *)

\* What a step of the run does, whichever it is.
Proceeds ==
    /\ UNCHANGED <<stored, worked, used, lost>>
    /\ run.pc # "none" /\ run' \in RunRecords /\ run'.by = run.by /\ run'.pc # "none"
    /\ tasks' \in [Ids -> TaskRecords]
    /\ succeeded' \subseteq Commands \X {"execute", "review", "revise"} \X Ids
    /\ \A t \in Ids :
          \/ tasks'[t] = tasks[t]
          \/ /\ t \notin Rows /\ tasks'[t].verdict = "none"
             /\ tasks'[t].status \in {"absent", "unstarted"}
             /\ tasks'[t].source \in Rows /\ tasks'[t].source < t
             /\ tasks'[t].status = "absent" => run'.err # "none"
          \/ /\ t = run.task /\ tasks[t].status # "absent" /\ tasks'[t].status # "absent"
             /\ tasks'[t].source = tasks[t].source
             /\ tasks'[t].verdict # "none" => tasks'[t].status = "completed"
             /\ tasks[t].status = "completed" => run.pc = "review"
             /\ \E j \in DOMAIN run'.list : run'.list[j].task = t
    /\ run.err # "none" => run'.err # "none"
    /\ \A j \in DOMAIN run.list : j \in DOMAIN run'.list /\ run'.list[j].task = run.list[j].task
    /\ \A j \in DOMAIN run'.list :
          \/ /\ j \in DOMAIN run.list /\ run'.list[j].task = run.list[j].task
             /\ run'.list[j].verdict = run.list[j].verdict
          \/ run'.list[j].verdict = "none"
          \/ /\ run'.pc # "review" /\ run'.list[j].task = run.task
             /\ tasks'[run.task].status = "completed" /\ tasks'[run.task].saved
             /\ run'.list[j].verdict = tasks'[run.task].verdict \/ run'.err # "none"
    /\ run'.pc = "review" => run.pc = "working" /\ run'.task = run.task

LEMMA ProceedsKeeps ==
    ASSUME WorkInv, Proceeds, RunStands'
    PROVE  WorkInv'
<1>1. WorldOfWork'
  BY DEF WorkInv, WorldOfWork, Proceeds
<1>2. Recorded(stored')
  BY DEF WorkInv, Proceeds
<1>3. run # NoRun /\ stored.state = "ready_to_execute"
  BY DEF WorkInv, RunStands, Proceeds
<1>4. \A t \in Ids : t \in Rows => t \in Rows'
  BY DEF Proceeds, Rows
<1>5. \A t \in Ids : tasks[t].status = "completed" /\ (t # run.task \/ run.pc # "review") =>
               /\ tasks'[t].status = "completed" /\ tasks'[t].saved = tasks[t].saved
               /\ tasks'[t].verdict = tasks[t].verdict
  BY DEF Proceeds, Rows
<1>6. run'.pc = "review" => run.pc = "working" /\ run'.task = run.task /\ tasks[run.task].status = "in_progress"
  BY DEF Proceeds, WorkInv, RunStands, Now
<1>7. ReviewsTold'
  <2>1. ASSUME NEW i \in DOMAIN stored.turns, stored.turns[i].kind = "workflow_recorded"
        PROVE  \E t : t = stored.turns[i] /\ TurnTold(t)'
    <3>1. PICK t : t = stored.turns[i]
      OBVIOUS
    <3>2. TurnTold(t)
      BY <2>1, <3>1 DEF WorkInv, ReviewsTold
    <3>3. t.by \in Commands
      BY <3>1, TurnCommands DEF WorkInv
    <3>4. t.by <= used' /\ (run' # NoRun => t.by # run'.by)
      BY <1>3, <3>2 DEF TurnTold, Proceeds
    <3>5. ASSUME NEW j \in DOMAIN worked[t.by]
          PROVE  RightlyTold(worked[t.by][j], t.status \in Failures)'
      <4>1. PICK e \in Evidences : e = worked[t.by][j]
        BY <3>3, WorkedTyped DEF WorkInv
      <4>2. PICK f : f = (t.status \in Failures)
        OBVIOUS
      <4>3. RightlyTold(e, f)
        BY <3>2, <4>1, <4>2 DEF TurnTold
      <4>4. RightlyTold(e, f)'
        BY <1>5, <1>6, <4>3, ToldStaysRight DEF WorkInv
      <4>5. e = worked'[t.by][j]
        BY <4>1 DEF Proceeds
      <4>6. QED
        BY <4>2, <4>4, <4>5
    <3>6. TurnTold(t)'
      BY <3>2, <3>4, <3>5 DEF TurnTold, Proceeds
    <3>7. QED
      BY <3>1, <3>6
  <2>2. ASSUME NEW j \in DOMAIN run'.list
        PROVE  \E e \in Evidences : \E g : e = run'.list[j] /\ g = (run'.err # "none") /\ RightlyTold(e, g)'
    <3>1. PICK e \in Evidences : e = run'.list[j]
      BY <2>2 DEF Proceeds, RunRecords
    <3>2. PICK f, g : f = (run.err # "none") /\ g = (run'.err # "none")
      OBVIOUS
    <3>3. CASE j \in DOMAIN run.list /\ e.task = run.list[j].task /\ e.verdict = run.list[j].verdict
      <4>1. RightlyTold(run.list[j], f)
        BY <3>2, <3>3 DEF WorkInv, ReviewsTold
      <4>2. RightlyTold(e, f)
        BY <3>3, <4>1 DEF RightlyTold
      <4>3. f => g
        BY <3>2 DEF Proceeds
      <4>4. RightlyTold(e, g)'
        BY <1>5, <1>6, <4>2, <4>3, ToldStaysRight DEF WorkInv
      <4>5. QED
        BY <3>1, <3>2, <4>4
    <3>4. CASE e.verdict = "none"
      BY <3>1, <3>2, <3>4 DEF RightlyTold
    <3>5. CASE /\ run'.pc # "review" /\ e.task = run.task
               /\ tasks'[run.task].status = "completed" /\ tasks'[run.task].saved
               /\ e.verdict = tasks'[run.task].verdict \/ run'.err # "none"
      <4>1. RightlyTold(e, g)'
        BY <3>2, <3>5 DEF RightlyTold
      <4>2. QED
        BY <3>1, <3>2, <4>1
    <3>6. QED
      BY <2>2, <3>1, <3>3, <3>4, <3>5 DEF Proceeds
  <2>3. stored' = stored
    BY DEF Proceeds
  <2>4. QED
    BY <2>1, <2>2, <2>3 DEF ReviewsTold
<1>8. TasksStand'
  <2>1. ASSUME NEW t \in Ids PROVE tasks'[t].verdict # "none" => tasks'[t].status = "completed"
    BY DEF WorkInv, TasksStand, Proceeds
  <2>2. ASSUME NEW t \in Ids PROVE tasks'[t].source # 0 => tasks'[t].source \in Rows' /\ tasks'[t].source < t
    <3>1. tasks'[t].source # 0 => tasks'[t].source \in Rows /\ tasks'[t].source < t
      BY DEF WorkInv, TasksStand, Proceeds
    <3>2. QED
      BY <1>4, <3>1 DEF Rows
  <2>3. stored'.state \notin Before /\ stored'.state \notin Ended /\ stored' = stored
    BY <1>3 DEF Before, Ended, Proceeds
  <2>4. 1 .. CurrentPlan(stored').tasks \subseteq Rows'
    <3>1. 1 .. CurrentPlan(stored).tasks \subseteq Rows
      BY <2>3 DEF WorkInv, TasksStand
    <3>2. Rows \subseteq Rows'
      BY <1>4 DEF Rows
    <3>3. QED
      BY <2>3, <3>1, <3>2
  <2>5. ASSUME ~lost', NEW t \in Ids, tasks'[t].status \notin {"absent", "unstarted"}
        PROVE  Listed(t)' \/ InRun(t)'
    <3>1. CASE tasks'[t] = tasks[t]
      <4>1. Listed(t) \/ InRun(t)
        BY <2>5, <3>1 DEF WorkInv, TasksStand, Proceeds
      <4>2. Listed(t) => Listed(t)'
        BY DEF Listed, Proceeds
      <4>3. InRun(t) => InRun(t)'
        BY DEF InRun, Proceeds
      <4>4. QED
        BY <4>1, <4>2, <4>3
    <3>2. CASE tasks'[t] # tasks[t]
      BY <2>5, <3>2 DEF InRun, Proceeds
    <3>3. QED
      BY <3>1, <3>2
  <2>6. ASSUME NEW t \in Ids, t \notin Rows', tasks'[t].source # 0
        PROVE  lost' \/ HasFailed' \/ run'.err # "none"
    <3>1. CASE tasks'[t] = tasks[t]
      <4>1. t \in Ids \ Rows /\ tasks[t].source # 0
        BY <2>6, <3>1 DEF Rows
      <4>2. lost \/ HasFailed \/ run.err # "none"
        BY <4>1 DEF WorkInv, TasksStand
      <4>3. QED
        BY <4>2 DEF HasFailed, Proceeds
    <3>2. CASE tasks'[t] # tasks[t]
      BY <2>6, <3>2 DEF Proceeds, Rows
    <3>3. QED
      BY <3>1, <3>2
  <2>7. QED
    BY <2>1, <2>2, <2>3, <2>4, <2>5, <2>6 DEF TasksStand
<1>9. QED
  BY <1>1, <1>2, <1>7, <1>8 DEF WorkInv

\* The steps that leave the Tasks and the list of what the run did alone.
LEMMA QuietKeeps ==
    ASSUME WorkInv, UNCHANGED <<stored, worked, tasks, succeeded, used, lost>>,
           run.pc # "none", run' \in RunRecords, run'.by = run.by, run'.list = run.list,
           run'.pc \in {"round", "dispatch", "execute", "record"},
           run.err # "none" => run'.err # "none",
           run'.pc = "round" => run'.err = "none",
           run'.queue \subseteq Having("unstarted"),
           run'.pc = "execute" => /\ run'.task \in Ids /\ run'.task \notin run'.queue
                                  /\ tasks[run'.task].status = "unstarted",
           run'.pc = "record" => /\ run'.end # "none"
                                 /\ run'.err # "none" => run'.end \in Failures
                                 /\ run'.end = "stalled" => run'.err = "stalled"
                                 /\ run'.end = "completed" => Rows = Having("completed"),
           run'.err = "stalled" => \E j \in 1 .. Len(run.list) : IsStalled(run.list[j])
    PROVE  WorkInv'
<1>1. Proceeds
  BY DEF Proceeds, WorkInv, WorldOfWork
<1>2. run' # NoRun
  BY NoRunTyped
<1>3. (run.queue \subseteq Having("unstarted"))'
  BY DEF Having
<1>4. run'.pc = "execute" => Now'.status = "unstarted"
  BY DEF Now
<1>5. run'.pc = "record" /\ run'.end = "completed" => Rows' = Having("completed")'
  BY DEF Rows, Having
<1>6. run'.by = used' /\ used' \in Commands /\ stored'.state = "ready_to_execute"
  BY DEF WorkInv, RunStands
<1>7. RunStands'
  BY <1>2, <1>3, <1>4, <1>5, <1>6 DEF RunStands, Listing, IsStalled
<1>8. QED
  BY <1>1, <1>7, ProceedsKeeps

LEMMA RunTyped ==
    ASSUME WorkInv
    PROVE  /\ run \in RunRecords /\ run.queue \subseteq Having("unstarted")
           /\ run.err = "stalled" => \E j \in 1 .. Len(run.list) : IsStalled(run.list[j])
           /\ run.list \in Seq(Evidences) /\ Len(run.list) \in Nat /\ DOMAIN run.list = 1 .. Len(run.list)
<1>1. run \in RunRecords
  BY DEF WorkInv, WorldOfWork
<1>2. run.list \in Seq(Evidences)
  BY <1>1 DEF RunRecords
<1>3. Len(run.list) \in Nat /\ DOMAIN run.list = 1 .. Len(run.list)
  BY <1>2
<1>4. QED
  BY <1>1, <1>2, <1>3 DEF WorkInv, RunStands

LEMMA PlanChainedKeeps ==
    ASSUME WorkInv, PlanChained
    PROVE  WorkInv'
<1>1. run.pc = "plan" /\ run' = [run EXCEPT !.pc = "round"] /\ UNCHANGED <<stored, worked, tasks, succeeded, used, lost>>
  BY DEF PlanChained
<1>2. /\ run' \in RunRecords /\ run'.pc = "round" /\ run'.by = run.by /\ run'.list = run.list
      /\ run'.err = run.err /\ run'.queue = run.queue
  BY <1>1, RunTyped DEF RunRecords, Points
<1>3. run.err = "none"
  BY <1>1 DEF WorkInv, RunStands
<1>4. QED
  BY <1>1, <1>2, <1>3, RunTyped, QuietKeeps

LEMMA NextBatchKeeps ==
    ASSUME WorkInv, NextBatch
    PROVE  WorkInv'
<1>1. run.pc = "round" /\ UNCHANGED <<stored, worked, tasks, succeeded, used, lost>>
  BY DEF NextBatch, RunAt
<1>2. run.err = "none"
  BY <1>1 DEF WorkInv, RunStands
<1>3. ASSUME NEW end \in {"completed", "blocked"}, Finish(end), end = "completed" => Rows = Having("completed")
      PROVE  WorkInv'
  <2>1. run' = [run EXCEPT !.pc = "record", !.end = end]
    BY <1>3 DEF Finish
  <2>2. /\ run' \in RunRecords /\ run'.pc = "record" /\ run'.by = run.by /\ run'.list = run.list
        /\ run'.err = run.err /\ run'.queue = run.queue /\ run'.end = end
    BY <2>1, RunTyped DEF RunRecords, Points, Ends
  <2>3. QED
    BY <1>1, <1>2, <1>3, <2>2, RunTyped, QuietKeeps
<1>4. ASSUME run' = [run EXCEPT !.pc = "dispatch", !.queue = Having("unstarted")]
      PROVE  WorkInv'
  <2>1. Having("unstarted") \in SUBSET Ids
    BY DEF Having
  <2>2. /\ run' \in RunRecords /\ run'.pc = "dispatch" /\ run'.by = run.by /\ run'.list = run.list
        /\ run'.err = run.err /\ run'.queue = Having("unstarted")
    BY <1>4, <2>1, RunTyped DEF RunRecords, Points
  <2>3. QED
    BY <1>1, <1>2, <2>2, RunTyped, QuietKeeps
<1>5. QED
  BY <1>3, <1>4 DEF NextBatch

LEMMA DispatchKeeps ==
    ASSUME WorkInv, NEW t \in Ids, Dispatch(t)
    PROVE  WorkInv'
<1>1. /\ run.pc = "dispatch" /\ run.left > 0 /\ t \in run.queue
      /\ run' = [run EXCEPT !.pc = "execute", !.queue = run.queue \ {t}, !.left = run.left - 1,
                            !.task = t, !.revs = 0]
      /\ UNCHANGED <<stored, worked, tasks, succeeded, used, lost>>
  BY DEF Dispatch, RunAt
<1>2. run \in RunRecords /\ run.left - 1 \in Nat
  BY <1>1, RunTyped DEF RunRecords
<1>3. /\ run' \in RunRecords /\ run'.pc = "execute" /\ run'.by = run.by /\ run'.list = run.list
      /\ run'.err = run.err /\ run'.queue = run.queue \ {t} /\ run'.task = t
  BY <1>1, <1>2 DEF RunRecords, Points
<1>4. tasks[t].status = "unstarted"
  BY <1>1, RunTyped DEF Having
<1>5. QED
  BY <1>1, <1>3, <1>4, RunTyped, QuietKeeps

LEMMA RoundEndsKeeps ==
    ASSUME WorkInv, RoundEnds
    PROVE  WorkInv'
<1>1. run.pc = "dispatch" /\ UNCHANGED <<stored, worked, tasks, succeeded, used, lost>>
  BY DEF RoundEnds, RunAt
<1>2. ASSUME NEW end \in Failures \cup {"limit_reached"}, Finish(end),
             run.err # "none" => end \in Failures, end = "stalled" => run.err = "stalled"
      PROVE  WorkInv'
  <2>1. run' = [run EXCEPT !.pc = "record", !.end = end]
    BY <1>2 DEF Finish
  <2>2. /\ run' \in RunRecords /\ run'.pc = "record" /\ run'.by = run.by /\ run'.list = run.list
        /\ run'.err = run.err /\ run'.queue = run.queue /\ run'.end = end
    BY <2>1, RunTyped DEF RunRecords, Points, Ends
  <2>3. end # "none" /\ end # "completed"
    BY <1>2 DEF Failures
  <2>4. QED
    BY <1>1, <1>2, <2>2, <2>3, RunTyped, QuietKeeps
<1>3. CASE run.err # "none"
  <2>1. FailedAs \in Failures /\ (FailedAs = "stalled" => run.err = "stalled")
    BY DEF FailedAs, Failures
  <2>2. Finish(FailedAs)
    BY <1>3 DEF RoundEnds
  <2>3. PICK end \in Failures \cup {"limit_reached"} : end = FailedAs
    BY <2>1
  <2>4. QED
    BY <1>2, <1>3, <2>1, <2>2, <2>3
<1>4. CASE run.err = "none" /\ run.queue # {}
  <2>1. Finish("limit_reached") /\ "limit_reached" \notin Failures
    BY <1>4 DEF RoundEnds, Failures
  <2>2. QED
    BY <1>2, <1>4, <2>1
<1>5. CASE run.err = "none" /\ run.queue = {}
  <2>1. run' = [run EXCEPT !.pc = "round"]
    BY <1>5 DEF RoundEnds, Runs
  <2>2. /\ run' \in RunRecords /\ run'.pc = "round" /\ run'.by = run.by /\ run'.list = run.list
        /\ run'.err = run.err /\ run'.queue = run.queue
    BY <2>1, RunTyped DEF RunRecords, Points
  <2>3. QED
    BY <1>1, <1>5, <2>2, RunTyped, QuietKeeps
<1>6. QED
  BY <1>3, <1>4, <1>5

LEMMA FailsTyped ==
    ASSUME WorkInv, NEW err \in {"budget"} \cup Failures, Fails(err)
    PROVE  /\ run' \in RunRecords /\ run'.pc = "dispatch" /\ run'.by = run.by /\ run'.list = run.list
           /\ run'.err = (IF run.err = "none" THEN err ELSE run.err) /\ run'.queue = run.queue
           /\ run'.err # "none"
<1>1. run' = [run EXCEPT !.pc = "dispatch", !.err = IF run.err = "none" THEN err ELSE run.err]
  BY DEF Fails
<1>2. QED
  BY <1>1, RunTyped DEF RunRecords, Points, Failures

LEMMA OverBudgetKeeps ==
    ASSUME WorkInv, OverBudget
    PROVE  WorkInv'
<1>1. /\ run.pc \in {"execute", "review"} /\ Fails("budget")
      /\ UNCHANGED <<stored, worked, tasks, succeeded, used, lost>>
  BY DEF OverBudget, RunAt
<1>2. QED
  BY <1>1, FailsTyped, RunTyped, QuietKeeps

LEMMA GiveUpKeeps ==
    ASSUME WorkInv, GiveUp
    PROVE  WorkInv'
<1>1. /\ run.pc = "revise" /\ Fails(IF IsBounded THEN "failed" ELSE "stalled")
      /\ UNCHANGED <<stored, worked, tasks, succeeded, used, lost>>
  BY DEF GiveUp, RunAt
<1>2. PICK err \in {"failed", "stalled"} : Fails(err)
  BY <1>1
<1>3. \E j \in 1 .. Len(run.list) : IsStalled(run.list[j])
  <2>1. run.list # <<>> /\ Current.verdict = "request_changes" /\ ~Current.revise
    BY <1>1 DEF WorkInv, RunStands, Listing
  <2>2. Len(run.list) \in 1 .. Len(run.list)
    BY <2>1, RunTyped
  <2>3. IsStalled(run.list[Len(run.list)])
    BY <2>1 DEF Current, IsStalled
  <2>4. QED
    BY <2>2, <2>3
<1>4. err \in {"budget"} \cup Failures
  BY DEF Failures
<1>5. QED
  BY <1>1, <1>2, <1>3, <1>4, FailsTyped, RunTyped, QuietKeeps

\* The Task the run is at.
LEMMA TaskTyped ==
    ASSUME WorkInv, run.pc \in {"execute"} \cup Listing
    PROVE  /\ run.task \in Ids /\ run.task \notin run.queue /\ Now = tasks[run.task]
           /\ tasks[run.task] \in TaskRecords /\ tasks \in [Ids -> TaskRecords]
           /\ run.task \in Rows /\ run.by \in Commands /\ run.by = used
           /\ stored.state = "ready_to_execute"
           /\ succeeded \subseteq Commands \X {"execute", "review", "revise"} \X Ids
<1>1. run.task \in Ids /\ run.task \notin run.queue
  BY DEF WorkInv, RunStands
<1>2. run.by = used /\ used \in Commands /\ stored.state = "ready_to_execute"
  BY DEF WorkInv, RunStands, Listing
<1>3. tasks \in [Ids -> TaskRecords] /\ succeeded \subseteq Commands \X {"execute", "review", "revise"} \X Ids
  BY DEF WorkInv, WorldOfWork
<1>4. tasks[run.task].status # "absent"
  BY DEF WorkInv, RunStands, Now, Listing
<1>5. QED
  BY <1>1, <1>2, <1>3, <1>4 DEF Now, Rows

LEMMA StartedTyped ==
    ASSUME WorkInv, run.pc = "execute", NEW point \in {"working", "dispatch"}, NEW r, r = Started(point)
    PROVE  /\ r \in RunRecords /\ r.pc = point /\ r.by = run.by /\ r.err = run.err /\ r.queue = run.queue
           /\ r.task = run.task
           /\ Len(r.list) = Len(run.list) + 1 /\ DOMAIN r.list = 1 .. Len(run.list) + 1
           /\ \A j \in 1 .. Len(run.list) : r.list[j] = run.list[j]
           /\ r.list[Len(run.list) + 1].task = run.task
           /\ r.list[Len(run.list) + 1].verdict = "none"
           /\ ~r.list[Len(run.list) + 1].revise
           /\ r.list # <<>>
<1>1. PICK e : e = Attempt(run.by, run.task, tasks[run.task].source # 0)
  OBVIOUS
<1>2. e \in Evidences /\ e.task = run.task /\ e.verdict = "none" /\ ~e.revise
  BY <1>1, TaskTyped DEF Attempt, Evidences, Verdicts
<1>3. r = [run EXCEPT !.pc = point, !.list = Append(run.list, e)]
  BY <1>1 DEF Started
<1>4. run \in RunRecords /\ run.list \in Seq(Evidences) /\ Len(run.list) \in Nat /\ DOMAIN run.list = 1 .. Len(run.list)
  BY RunTyped
<1>5. PICK l : l = Append(run.list, e)
  OBVIOUS
<1>6. /\ l \in Seq(Evidences) /\ Len(l) = Len(run.list) + 1 /\ DOMAIN l = 1 .. Len(run.list) + 1
      /\ \A j \in 1 .. Len(run.list) : l[j] = run.list[j]
      /\ l[Len(run.list) + 1] = e /\ l # <<>>
  BY <1>2, <1>4, <1>5
<1>7. /\ r \in RunRecords /\ r.pc = point /\ r.by = run.by /\ r.err = run.err /\ r.queue = run.queue
      /\ r.task = run.task /\ r.list = l
  BY <1>3, <1>4, <1>5, <1>6 DEF RunRecords, Points
<1>8. QED
  BY <1>2, <1>6, <1>7

LEMMA WithLastTyped ==
    ASSUME WorkInv, run.pc \in Listing, NEW e \in Evidences, NEW l, l = WithLast(run.list, e)
    PROVE  /\ l \in Seq(Evidences) /\ Len(l) = Len(run.list) /\ DOMAIN l = 1 .. Len(run.list)
           /\ l[Len(run.list)] = e /\ \A j \in 1 .. Len(run.list) : j # Len(run.list) => l[j] = run.list[j]
           /\ l # <<>> /\ Len(run.list) \in 1 .. Len(run.list)
<1>1. run.list \in Seq(Evidences) /\ Len(run.list) \in Nat /\ DOMAIN run.list = 1 .. Len(run.list)
  BY RunTyped
<1>2. run.list # <<>>
  BY DEF WorkInv, RunStands
<1>3. Len(run.list) \in 1 .. Len(run.list)
  BY <1>1, <1>2
<1>4. l = [run.list EXCEPT ![Len(run.list)] = e]
  BY DEF WithLast
<1>5. l \in Seq(Evidences)
  BY <1>1, <1>3, <1>4
<1>6. QED
  BY <1>1, <1>3, <1>4, <1>5

LEMMA CurrentTyped ==
    ASSUME WorkInv, run.pc \in Listing
    PROVE  /\ Current \in Evidences /\ Current = run.list[Len(run.list)] /\ Current.task = run.task
           /\ Len(run.list) \in 1 .. Len(run.list) /\ Len(run.list) \in Nat
<1>1. run.list # <<>> /\ Current.task = run.task
  BY DEF WorkInv, RunStands
<1>2. run.list \in Seq(Evidences)
  BY RunTyped
<1>3. QED
  BY <1>1, <1>2 DEF Current

\* What stalled stays listed.
LEMMA StallStays ==
    ASSUME WorkInv, run.err = "stalled", NEW l, Len(l) \in Nat, Len(l) >= Len(run.list),
           \A j \in 1 .. Len(run.list) : j # Len(run.list) \/ run.pc \notin Listing => l[j] = run.list[j]
    PROVE  \E j \in 1 .. Len(l) : IsStalled(l[j]) /\ (run.pc \in Listing \/ Len(l) > Len(run.list) => j < Len(l))
<1>1. PICK j \in 1 .. Len(run.list) : IsStalled(run.list[j]) /\ (run.pc \in Listing => j < Len(run.list))
  BY DEF WorkInv, RunStands
<1>2. Len(run.list) \in Nat
  BY RunTyped
<1>3. l[j] = run.list[j]
  BY <1>1, <1>2
<1>4. j \in 1 .. Len(l) /\ (run.pc \in Listing \/ Len(l) > Len(run.list) => j < Len(l))
  BY <1>1, <1>2
<1>5. IsStalled(l[j])
  BY <1>1, <1>3 DEF IsStalled
<1>6. QED
  BY <1>4, <1>5

\* The queue waits on, whatever becomes of the Task the run is at.
LEMMA QueueWaits ==
    ASSUME WorkInv, run'.queue = run.queue,
           \A t \in Ids : t # run.task /\ t \in Rows => tasks'[t] = tasks[t],
           run.task \notin run.queue
    PROVE  (run.queue \subseteq Having("unstarted"))'
<1>1. ASSUME NEW t \in run.queue PROVE t \in Ids /\ tasks'[t].status = "unstarted"
  BY RunTyped DEF Having, Rows
<1>2. QED
  BY <1>1 DEF Having

LEMMA StartTaskKeeps ==
    ASSUME WorkInv, StartTask
    PROVE  WorkInv'
<1>1. /\ run.pc = "execute" /\ tasks' = [tasks EXCEPT ![run.task] = [Now EXCEPT !.status = "in_progress"]]
      /\ run' = Started("working") /\ UNCHANGED <<stored, worked, succeeded, used, lost>>
  BY DEF StartTask, RunAt, TaskBecomes
<1> DEFINE n == Len(run.list) + 1
<1>2. /\ run' \in RunRecords /\ run'.pc = "working" /\ run'.by = run.by /\ run'.err = run.err
      /\ run'.queue = run.queue /\ run'.task = run.task
      /\ Len(run'.list) = n /\ DOMAIN run'.list = 1 .. n
      /\ \A j \in 1 .. Len(run.list) : run'.list[j] = run.list[j]
      /\ run'.list[n].task = run.task /\ run'.list[n].verdict = "none" /\ ~run'.list[n].revise
      /\ run'.list # <<>>
  BY <1>1, StartedTyped
<1>3. /\ run.task \in Ids /\ run.task \notin run.queue /\ tasks[run.task] \in TaskRecords
      /\ tasks \in [Ids -> TaskRecords] /\ Now = tasks[run.task] /\ run.task \in Rows
      /\ run.by = used /\ run.by \in Commands /\ stored.state = "ready_to_execute"
      /\ succeeded \subseteq Commands \X {"execute", "review", "revise"} \X Ids
  BY <1>1, TaskTyped
<1>4. /\ tasks' \in [Ids -> TaskRecords]
      /\ tasks'[run.task].status = "in_progress"
      /\ tasks'[run.task].verdict = tasks[run.task].verdict
      /\ tasks'[run.task].source = tasks[run.task].source
      /\ \A t \in Ids : t # run.task => tasks'[t] = tasks[t]
  BY <1>1, <1>3 DEF TaskRecords, Statuses
<1>5. tasks[run.task].status = "unstarted" /\ tasks[run.task].verdict = "none"
  BY <1>1, <1>3 DEF WorkInv, RunStands, TasksStand
<1>6. Len(run.list) \in Nat /\ DOMAIN run.list = 1 .. Len(run.list) /\ n \in Nat /\ n \in 1 .. n /\ n > Len(run.list)
  BY RunTyped
<1> HIDE DEF n
<1>7. Proceeds
  <2>1. ASSUME NEW t \in Ids
        PROVE  tasks'[t] = tasks[t] \/
               (/\ t = run.task /\ tasks[t].status # "absent" /\ tasks'[t].status # "absent"
                /\ tasks'[t].source = tasks[t].source
                /\ (tasks'[t].verdict # "none" => tasks'[t].status = "completed")
                /\ (tasks[t].status = "completed" => run.pc = "review")
                /\ \E j \in DOMAIN run'.list : run'.list[j].task = t)
    BY <1>2, <1>4, <1>5, <1>6
  <2>2. ASSUME NEW j \in DOMAIN run'.list
        PROVE  \/ /\ j \in DOMAIN run.list /\ run'.list[j].task = run.list[j].task
                  /\ run'.list[j].verdict = run.list[j].verdict
               \/ run'.list[j].verdict = "none"
    BY <1>2, <1>6 DEF n
  <2>3. \A j \in DOMAIN run.list : j \in DOMAIN run'.list /\ run'.list[j].task = run.list[j].task
    BY <1>2, <1>6 DEF n
  <2>4. QED
    BY <1>1, <1>2, <1>3, <1>4, <2>1, <2>2, <2>3 DEF Proceeds
<1>8. RunStands'
  <2>1. run' # NoRun
    BY <1>2, NoRunTyped
  <2>2. (run.queue \subseteq Having("unstarted"))'
    BY <1>2, <1>3, <1>4, QueueWaits
  <2>3. Current' = run'.list[n] /\ Now' = tasks'[run.task]
    BY <1>2 DEF Current, Now
  <2>4. run'.err = "stalled" => \E j \in 1 .. Len(run'.list) : IsStalled(run'.list[j]) /\ j < Len(run'.list)
    <3>1. PICK l : l = run'.list
      OBVIOUS
    <3>2. ASSUME run.err = "stalled" PROVE \E j \in 1 .. Len(l) : IsStalled(l[j]) /\ j < Len(l)
      <4>1. /\ Len(l) \in Nat /\ Len(l) >= Len(run.list) /\ Len(l) > Len(run.list)
            /\ \A j \in 1 .. Len(run.list) : l[j] = run.list[j]
        BY <1>2, <1>6, <3>1
      <4>2. \E j \in 1 .. Len(l) :
               IsStalled(l[j]) /\ (run.pc \in Listing \/ Len(l) > Len(run.list) => j < Len(l))
        BY <3>2, <4>1, StallStays
      <4>3. QED
        BY <4>1, <4>2
    <3>3. QED
      BY <1>2, <3>1, <3>2
  <2>5. QED
    BY <1>1, <1>2, <1>3, <1>4, <2>1, <2>2, <2>3, <2>4 DEF RunStands, Listing
<1>9. QED
  BY <1>7, <1>8, ProceedsKeeps

LEMMA DispatchStands ==
    ASSUME WorkInv, UNCHANGED <<stored, used>>, run.pc # "none",
           run'.pc = "dispatch", run'.by = run.by, (run.queue \subseteq Having("unstarted"))',
           run'.err = "stalled" => \E j \in 1 .. Len(run'.list) : IsStalled(run'.list[j])
    PROVE  RunStands'
<1>1. run' # NoRun
  BY NoRunTyped
<1>2. run'.by = used' /\ used' \in Commands /\ stored'.state = "ready_to_execute"
  BY DEF WorkInv, RunStands
<1>3. QED
  BY <1>1, <1>2 DEF RunStands, Listing, IsStalled

LEMMA StartRefusedKeeps ==
    ASSUME WorkInv, StartRefused
    PROVE  WorkInv'
<1> DEFINE n == Len(run.list) + 1
<1>1. PICK r : r = Started("dispatch")
  OBVIOUS
<1>2. /\ run.pc = "execute" /\ run' = [r EXCEPT !.err = IF r.err = "none" THEN "failed" ELSE r.err]
      /\ UNCHANGED <<stored, worked, tasks, succeeded, used, lost>>
  BY <1>1 DEF StartRefused, RunAt
<1>3. /\ r \in RunRecords /\ r.pc = "dispatch" /\ r.by = run.by /\ r.err = run.err /\ r.queue = run.queue
      /\ DOMAIN r.list = 1 .. n /\ Len(r.list) = n
      /\ \A j \in 1 .. Len(run.list) : r.list[j] = run.list[j]
      /\ r.list[n].verdict = "none"
  BY <1>1, <1>2, StartedTyped
<1>4. /\ run' \in RunRecords /\ run'.pc = "dispatch" /\ run'.by = run.by /\ run'.queue = run.queue
      /\ run'.err = (IF run.err = "none" THEN "failed" ELSE run.err) /\ run'.list = r.list
  BY <1>2, <1>3 DEF RunRecords, Failures
<1>5. Len(run.list) \in Nat /\ DOMAIN run.list = 1 .. Len(run.list) /\ n \in Nat /\ n \in 1 .. n /\ n > Len(run.list)
  BY RunTyped
<1>6. /\ tasks \in [Ids -> TaskRecords]
      /\ succeeded \subseteq Commands \X {"execute", "review", "revise"} \X Ids
  BY <1>2, TaskTyped
<1>7. Proceeds
  <2>1. \A j \in DOMAIN run.list : j \in DOMAIN run'.list /\ run'.list[j].task = run.list[j].task
    BY <1>3, <1>4, <1>5
  <2>2. ASSUME NEW j \in DOMAIN run'.list
        PROVE  \/ /\ j \in DOMAIN run.list /\ run'.list[j].task = run.list[j].task
                  /\ run'.list[j].verdict = run.list[j].verdict
               \/ run'.list[j].verdict = "none"
    BY <1>3, <1>4, <1>5
  <2>3. QED
    BY <1>2, <1>4, <1>6, <2>1, <2>2 DEF Proceeds
<1>8. (run.queue \subseteq Having("unstarted"))'
  BY <1>2, <1>4, RunTyped DEF Having
<1>9. run'.err = "stalled" => \E j \in 1 .. Len(run'.list) : IsStalled(run'.list[j])
  <2>1. ASSUME run.err = "stalled" PROVE \E j \in 1 .. Len(r.list) : IsStalled(r.list[j])
    <3>1. /\ Len(r.list) \in Nat /\ Len(r.list) >= Len(run.list)
          /\ \A j \in 1 .. Len(run.list) : r.list[j] = run.list[j]
      BY <1>3, <1>5
    <3>2. QED
      BY <2>1, <3>1, StallStays
  <2>2. QED
    BY <1>4, <2>1
<1>10. RunStands'
  BY <1>2, <1>4, <1>8, <1>9, DispatchStands
<1>11. QED
  BY <1>7, <1>10, ProceedsKeeps

\* The steps that change the Task the run is at, and not the list.
LEMMA TaskStepProceeds ==
    ASSUME WorkInv, run.pc = "working", UNCHANGED <<stored, worked, used, lost>>,
           run' \in RunRecords, run'.by = run.by, run'.pc \in {"review", "dispatch"},
           run'.list = run.list, run'.task = run.task, run.err # "none" => run'.err # "none",
           NEW k \in TaskRecords, tasks' = [tasks EXCEPT ![run.task] = k],
           k.status # "absent", k.verdict = tasks[run.task].verdict, k.source = tasks[run.task].source,
           succeeded' \subseteq Commands \X {"execute", "review", "revise"} \X Ids
    PROVE  /\ Proceeds /\ tasks'[run.task] = k
           /\ \A t \in Ids : t # run.task => tasks'[t] = tasks[t]
<1>1. /\ run.task \in Ids /\ tasks[run.task] \in TaskRecords /\ tasks \in [Ids -> TaskRecords]
      /\ tasks[run.task].status = "in_progress"
  BY TaskTyped DEF Listing, WorkInv, RunStands
<1>2. /\ tasks' \in [Ids -> TaskRecords] /\ tasks'[run.task] = k
      /\ \A t \in Ids : t # run.task => tasks'[t] = tasks[t]
  BY <1>1
<1>3. tasks[run.task].verdict = "none"
  BY <1>1 DEF WorkInv, TasksStand
<1>4. \E j \in DOMAIN run'.list : run'.list[j].task = run.task
  <2>1. Len(run.list) \in 1 .. Len(run.list) /\ run.list[Len(run.list)].task = run.task
    BY CurrentTyped DEF Listing
  <2>2. DOMAIN run.list = 1 .. Len(run.list)
    BY RunTyped
  <2>3. QED
    BY <2>1, <2>2
<1>5. ASSUME NEW t \in Ids
      PROVE  tasks'[t] = tasks[t] \/
             (/\ t = run.task /\ tasks[t].status # "absent" /\ tasks'[t].status # "absent"
              /\ tasks'[t].source = tasks[t].source
              /\ (tasks'[t].verdict # "none" => tasks'[t].status = "completed")
              /\ (tasks[t].status = "completed" => run.pc = "review")
              /\ \E j \in DOMAIN run'.list : run'.list[j].task = t)
  BY <1>1, <1>2, <1>3, <1>4
<1>6. Proceeds
  BY <1>2, <1>5 DEF Proceeds
<1>7. QED
  BY <1>2, <1>6

LEMMA ExecuteTaskKeeps ==
    ASSUME WorkInv, ExecuteTask
    PROVE  WorkInv'
<1> DEFINE k == [Now EXCEPT !.status = "completed", !.saved = TRUE]
<1>1. /\ run.pc = "working" /\ tasks' = [tasks EXCEPT ![run.task] = k]
      /\ succeeded' = succeeded \cup {<<run.by, "execute", run.task>>}
      /\ run' = [run EXCEPT !.pc = "review"] /\ UNCHANGED <<stored, worked, used, lost>>
  BY DEF ExecuteTask, RunAt, TaskBecomes, Succeeds, Runs
<1>2. /\ run.task \in Ids /\ run.task \notin run.queue /\ tasks[run.task] \in TaskRecords
      /\ Now = tasks[run.task] /\ run.task \in Rows
      /\ run.by = used /\ run.by \in Commands /\ stored.state = "ready_to_execute"
      /\ succeeded \subseteq Commands \X {"execute", "review", "revise"} \X Ids
  BY <1>1, TaskTyped DEF Listing
<1>3. /\ k \in TaskRecords /\ k.status = "completed" /\ k.saved /\ k.verdict = tasks[run.task].verdict
      /\ k.source = tasks[run.task].source
  BY <1>2 DEF TaskRecords, Statuses
<1>4. /\ run' \in RunRecords /\ run'.pc = "review" /\ run'.by = run.by /\ run'.list = run.list
      /\ run'.task = run.task /\ run'.err = run.err /\ run'.queue = run.queue
  BY <1>1, RunTyped DEF RunRecords, Points
<1>5. succeeded' \subseteq Commands \X {"execute", "review", "revise"} \X Ids
  BY <1>1, <1>2
<1> HIDE DEF k
<1>6. /\ Proceeds /\ tasks'[run.task] = k
      /\ \A t \in Ids : t # run.task => tasks'[t] = tasks[t]
  BY <1>1, <1>3, <1>4, <1>5, TaskStepProceeds
<1>7. (run.queue \subseteq Having("unstarted"))'
  BY <1>2, <1>4, <1>6, QueueWaits
<1>8. RunStands'
  <2>1. run' # NoRun
    BY <1>4, NoRunTyped
  <2>2. Now' = k /\ Current' = Current
    BY <1>4, <1>6 DEF Now, Current
  <2>3. /\ run.list # <<>> /\ Current.task = run.task /\ ~Current.revise
        /\ run.err = "stalled" => \E j \in 1 .. Len(run.list) : IsStalled(run.list[j]) /\ j < Len(run.list)
    BY <1>1 DEF WorkInv, RunStands, Listing
  <2>4. QED
    BY <1>1, <1>2, <1>3, <1>4, <1>7, <2>1, <2>2, <2>3 DEF RunStands, Listing, IsStalled
<1>9. QED
  BY <1>6, <1>8, ProceedsKeeps

LEMMA ExecuteFailsKeeps ==
    ASSUME WorkInv, ExecuteFails
    PROVE  WorkInv'
<1>1. /\ run.pc = "working" /\ Fails("failed")
      /\ tasks' \in {[tasks EXCEPT ![run.task].status = "on_hold"], [tasks EXCEPT ![run.task].saved = TRUE]}
      /\ UNCHANGED <<stored, worked, succeeded, used, lost>>
  BY DEF ExecuteFails, RunAt
<1>2. /\ run.task \in Ids /\ run.task \notin run.queue /\ tasks[run.task] \in TaskRecords
      /\ run.task \in Rows
      /\ succeeded \subseteq Commands \X {"execute", "review", "revise"} \X Ids
      /\ tasks[run.task].status = "in_progress"
  BY <1>1, TaskTyped DEF Listing, WorkInv, RunStands
<1>3. PICK k \in TaskRecords : /\ tasks' = [tasks EXCEPT ![run.task] = k] /\ k.status # "absent"
                               /\ k.verdict = tasks[run.task].verdict
                               /\ k.source = tasks[run.task].source
  <2>1. CASE tasks' = [tasks EXCEPT ![run.task].status = "on_hold"]
    <3>1. PICK k : k = [tasks[run.task] EXCEPT !.status = "on_hold"]
      OBVIOUS
    <3>2. /\ k \in TaskRecords /\ k.status # "absent" /\ k.verdict = tasks[run.task].verdict
          /\ k.source = tasks[run.task].source
      BY <1>2, <3>1 DEF TaskRecords, Statuses
    <3>3. tasks' = [tasks EXCEPT ![run.task] = k]
      BY <2>1, <3>1
    <3>4. QED
      BY <3>2, <3>3
  <2>2. CASE tasks' = [tasks EXCEPT ![run.task].saved = TRUE]
    <3>1. PICK k : k = [tasks[run.task] EXCEPT !.saved = TRUE]
      OBVIOUS
    <3>2. /\ k \in TaskRecords /\ k.status # "absent" /\ k.verdict = tasks[run.task].verdict
          /\ k.source = tasks[run.task].source
      BY <1>2, <3>1 DEF TaskRecords, Statuses
    <3>3. tasks' = [tasks EXCEPT ![run.task] = k]
      BY <2>2, <3>1
    <3>4. QED
      BY <3>2, <3>3
  <2>3. QED
    BY <1>1, <2>1, <2>2
<1>4. /\ run' \in RunRecords /\ run'.pc = "dispatch" /\ run'.by = run.by /\ run'.list = run.list
      /\ run'.err = (IF run.err = "none" THEN "failed" ELSE run.err) /\ run'.queue = run.queue
      /\ run'.err # "none"
  BY <1>1, FailsTyped DEF Failures
<1>5. run'.task = run.task
  BY <1>1, RunTyped DEF Fails, RunRecords
<1>6. /\ Proceeds /\ \A t \in Ids : t # run.task => tasks'[t] = tasks[t]
  BY <1>1, <1>2, <1>3, <1>4, <1>5, TaskStepProceeds
<1>7. (run.queue \subseteq Having("unstarted"))'
  BY <1>2, <1>4, <1>6, QueueWaits
<1>8. RunStands'
  BY <1>1, <1>4, <1>7, RunTyped, DispatchStands
<1>9. QED
  BY <1>6, <1>8, ProceedsKeeps

\* A Review that reaches the run, saved or not.
LEMMA ReviewedProceeds ==
    ASSUME WorkInv, run.pc = "review", UNCHANGED <<stored, worked, used, lost>>,
           NEW verdict \in Verdicts, NEW saved \in Verdicts, saved = verdict \/ run'.err # "none",
           tasks' = [tasks EXCEPT ![run.task] = [Now EXCEPT !.verdict = saved]],
           run' \in RunRecords, run'.by = run.by, run'.pc \in {"dispatch", "revise"},
           run'.task = run.task, run'.queue = run.queue, run.err # "none" => run'.err # "none",
           run'.list = WithLast(run.list, [Current EXCEPT !.review = TRUE, !.verdict = verdict]),
           succeeded' \subseteq Commands \X {"execute", "review", "revise"} \X Ids
    PROVE  /\ Proceeds /\ (run.queue \subseteq Having("unstarted"))'
           /\ tasks'[run.task].status = "completed" /\ tasks'[run.task].saved
           /\ Len(run'.list) = Len(run.list) /\ Len(run.list) \in 1 .. Len(run.list) /\ run'.list # <<>>
           /\ run'.list[Len(run.list)].task = run.task
           /\ run'.list[Len(run.list)].verdict = verdict
           /\ ~run'.list[Len(run.list)].revise
           /\ run.err = "stalled" => \E j \in 1 .. Len(run.list) : IsStalled(run'.list[j]) /\ j < Len(run.list)
<1> DEFINE n == Len(run.list)
<1>1. /\ run.task \in Ids /\ run.task \notin run.queue /\ tasks[run.task] \in TaskRecords
      /\ tasks \in [Ids -> TaskRecords] /\ Now = tasks[run.task] /\ run.task \in Rows
  BY TaskTyped DEF Listing
<1>2. Now.status = "completed" /\ Now.saved /\ ~Current.revise
  BY DEF WorkInv, RunStands
<1>3. Current \in Evidences /\ Current.task = run.task
  BY CurrentTyped DEF Listing
<1>4. PICK e \in Evidences : /\ e = [Current EXCEPT !.review = TRUE, !.verdict = verdict]
                             /\ e.task = run.task /\ e.verdict = verdict /\ ~e.revise
  <2>1. PICK e : e = [Current EXCEPT !.review = TRUE, !.verdict = verdict]
    OBVIOUS
  <2>2. e \in Evidences /\ e.task = run.task /\ e.verdict = verdict /\ ~e.revise
    BY <1>2, <1>3, <2>1 DEF Evidences
  <2>3. QED
    BY <2>1, <2>2
<1>5. PICK l : l = WithLast(run.list, e)
  OBVIOUS
<1>6. /\ l \in Seq(Evidences) /\ Len(l) = n /\ DOMAIN l = 1 .. n
      /\ l[n] = e /\ \A j \in 1 .. n : j # n => l[j] = run.list[j]
      /\ l # <<>> /\ n \in 1 .. n
  BY <1>5, WithLastTyped DEF Listing
<1>7. run'.list = l
  BY <1>4, <1>5
<1>8. PICK k \in TaskRecords : /\ tasks' = [tasks EXCEPT ![run.task] = k]
                               /\ k.status = "completed" /\ k.saved /\ k.verdict = saved
                               /\ k.source = tasks[run.task].source
  <2>1. PICK k : k = [Now EXCEPT !.verdict = saved]
    OBVIOUS
  <2>2. /\ k \in TaskRecords /\ k.status = "completed" /\ k.saved /\ k.verdict = saved
        /\ k.source = tasks[run.task].source
    BY <1>1, <1>2, <2>1 DEF TaskRecords
  <2>3. QED
    BY <2>1, <2>2
<1>9. /\ tasks' \in [Ids -> TaskRecords] /\ tasks'[run.task] = k
      /\ \A t \in Ids : t # run.task => tasks'[t] = tasks[t]
  BY <1>1, <1>8
<1>10. n \in Nat /\ DOMAIN run.list = 1 .. n
  BY RunTyped
<1> HIDE DEF n
<1>11. Proceeds
  <2>1. \E j \in DOMAIN run'.list : run'.list[j].task = run.task
    <3>1. n \in DOMAIN l /\ l[n].task = run.task
      BY <1>4, <1>6
    <3>2. \E j \in DOMAIN l : l[j].task = run.task
      BY <3>1
    <3>3. QED
      BY <1>7, <3>2
  <2>2. ASSUME NEW t \in Ids
        PROVE  tasks'[t] = tasks[t] \/
               (/\ t = run.task /\ tasks[t].status # "absent" /\ tasks'[t].status # "absent"
                /\ tasks'[t].source = tasks[t].source
                /\ (tasks'[t].verdict # "none" => tasks'[t].status = "completed")
                /\ (tasks[t].status = "completed" => run.pc = "review")
                /\ \E j \in DOMAIN run'.list : run'.list[j].task = t)
    BY <1>1, <1>2, <1>8, <1>9, <2>1
  <2>3. ASSUME NEW j \in 1 .. n
        PROVE  /\ run'.list[j].task = run.list[j].task
               /\ \/ run'.list[j].verdict = run.list[j].verdict
                  \/ /\ run'.list[j].task = run.task
                     /\ run'.list[j].verdict = tasks'[run.task].verdict \/ run'.err # "none"
    <3>1. CASE j = n
      <4>1. run'.list[j] = e /\ run.list[j].task = run.task
        BY <1>3, <1>6, <1>7, <3>1 DEF Current, n
      <4>2. QED
        BY <1>4, <1>8, <1>9, <4>1
    <3>2. CASE j # n
      BY <1>6, <1>7, <3>2
    <3>3. QED
      BY <3>1, <3>2
  <2>4. run'.pc # "review" /\ run'.pc # "none"
    OBVIOUS
  <2>5. DOMAIN run'.list = 1 .. n
    BY <1>6, <1>7
  <2>6. \A j \in DOMAIN run.list : j \in DOMAIN run'.list /\ run'.list[j].task = run.list[j].task
    BY <1>10, <2>3, <2>5
  <2>7. ASSUME NEW j \in DOMAIN run'.list
        PROVE  \/ /\ j \in DOMAIN run.list /\ run'.list[j].task = run.list[j].task
                  /\ run'.list[j].verdict = run.list[j].verdict
               \/ run'.list[j].verdict = "none"
               \/ /\ run'.pc # "review" /\ run'.list[j].task = run.task
                  /\ tasks'[run.task].status = "completed" /\ tasks'[run.task].saved
                  /\ run'.list[j].verdict = tasks'[run.task].verdict \/ run'.err # "none"
    BY <1>8, <1>9, <1>10, <2>3, <2>4, <2>5
  <2>8. QED
    BY <1>9, <2>2, <2>4, <2>6, <2>7 DEF Proceeds
<1>12. (run.queue \subseteq Having("unstarted"))'
  BY <1>1, <1>9, QueueWaits
<1>13. ASSUME run.err = "stalled"
       PROVE  \E j \in 1 .. n : IsStalled(run'.list[j]) /\ j < n
  <2>1. \E j \in 1 .. Len(l) : IsStalled(l[j]) /\ (run.pc \in Listing \/ Len(l) > Len(run.list) => j < Len(l))
    <3>1. Len(l) \in Nat /\ Len(l) >= Len(run.list) /\ run.pc \in Listing
      BY <1>6, <1>10 DEF Listing, n
    <3>2. \A j \in 1 .. Len(run.list) : j # Len(run.list) \/ run.pc \notin Listing => l[j] = run.list[j]
      BY <1>6, <3>1 DEF n
    <3>3. QED
      BY <1>13, <3>1, <3>2, StallStays
  <2>2. run.pc \in Listing
    BY DEF Listing
  <2>3. PICK j \in 1 .. n : IsStalled(l[j]) /\ j < n
    BY <1>6, <2>1, <2>2
  <2>4. IsStalled(run'.list[j])
    BY <1>7, <2>3 DEF IsStalled
  <2>5. QED
    BY <2>3, <2>4
<1>14. QED
  BY <1>4, <1>6, <1>7, <1>8, <1>9, <1>11, <1>12, <1>13 DEF n

LEMMA ReviewKeeps ==
    ASSUME WorkInv, NEW verdict \in Verdicts \ {"none"}, Review(verdict)
    PROVE  WorkInv'
<1> DEFINE l == WithLast(run.list, [Current EXCEPT !.review = TRUE, !.verdict = verdict])
           point == IF verdict = "approve" THEN "dispatch" ELSE "revise"
<1>1. /\ run.pc = "review" /\ tasks' = [tasks EXCEPT ![run.task] = [Now EXCEPT !.verdict = verdict]]
      /\ succeeded' = succeeded \cup {<<run.by, "review", run.task>>}
      /\ run' = [run EXCEPT !.pc = point, !.list = l]
      /\ UNCHANGED <<stored, worked, used, lost>>
  BY DEF Review, RunAt, TaskBecomes, Succeeds
<1>2. l \in Seq(Evidences)
  <2>1. Current \in Evidences
    BY <1>1, CurrentTyped DEF Listing
  <2>2. [Current EXCEPT !.review = TRUE, !.verdict = verdict] \in Evidences
    BY <2>1 DEF Evidences
  <2>3. QED
    BY <1>1, <2>2, WithLastTyped DEF Listing
<1> HIDE DEF l
<1>3. /\ run' \in RunRecords /\ run'.pc \in {"dispatch", "revise"} /\ run'.by = run.by /\ run'.list = l
      /\ run'.task = run.task /\ run'.err = run.err /\ run'.queue = run.queue
      /\ run'.pc = "revise" => verdict # "approve"
  BY <1>1, <1>2, RunTyped DEF RunRecords, Points
<1>4. succeeded' \subseteq Commands \X {"execute", "review", "revise"} \X Ids
  BY <1>1, TaskTyped DEF Listing
<1>5. /\ Proceeds /\ (run.queue \subseteq Having("unstarted"))'
      /\ tasks'[run.task].status = "completed" /\ tasks'[run.task].saved
      /\ Len(run'.list) = Len(run.list) /\ Len(run.list) \in 1 .. Len(run.list) /\ run'.list # <<>>
      /\ run'.list[Len(run.list)].task = run.task
      /\ run'.list[Len(run.list)].verdict = verdict
      /\ ~run'.list[Len(run.list)].revise
      /\ run.err = "stalled" => \E j \in 1 .. Len(run.list) : IsStalled(run'.list[j]) /\ j < Len(run.list)
  BY <1>1, <1>3, <1>4, ReviewedProceeds, Zenon DEF l
<1>6. CASE run'.pc = "dispatch"
  <2>1. run'.err = "stalled" => \E j \in 1 .. Len(run'.list) : IsStalled(run'.list[j])
    BY <1>3, <1>5
  <2>2. RunStands'
    BY <1>1, <1>3, <1>5, <1>6, <2>1, DispatchStands
  <2>3. QED
    BY <1>5, <2>2, ProceedsKeeps
<1>7. CASE run'.pc = "revise"
  <2>1. verdict = "request_changes"
    BY <1>3, <1>7 DEF Verdicts
  <2>2. run' # NoRun
    BY <1>7, NoRunTyped
  <2>3. Now' = tasks'[run.task] /\ Current' = run'.list[Len(run.list)]
    BY <1>3, <1>5 DEF Now, Current
  <2>4. run.by = used /\ used \in Commands /\ stored.state = "ready_to_execute" /\ run.task \in Ids /\ run.task \notin run.queue
    BY <1>1, TaskTyped DEF Listing
  <2>5. RunStands'
    BY <1>1, <1>3, <1>5, <1>7, <2>1, <2>2, <2>3, <2>4 DEF RunStands, Listing, IsStalled
  <2>6. QED
    BY <1>5, <2>5, ProceedsKeeps
<1>8. QED
  BY <1>3, <1>6, <1>7

LEMMA ReviewFailsKeeps ==
    ASSUME WorkInv, NEW verdict \in Verdicts, NEW saved \in Verdicts, ReviewFails(verdict, saved)
    PROVE  WorkInv'
<1> DEFINE l == WithLast(run.list, [Current EXCEPT !.review = TRUE, !.verdict = verdict])
<1>1. /\ run.pc = "review" /\ tasks' = [tasks EXCEPT ![run.task] = [Now EXCEPT !.verdict = saved]]
      /\ run' = [run EXCEPT !.pc = "dispatch", !.err = IF run.err = "none" THEN "failed" ELSE run.err, !.list = l]
      /\ UNCHANGED <<stored, worked, succeeded, used, lost>>
  BY DEF ReviewFails, RunAt, TaskBecomes
<1>2. l \in Seq(Evidences)
  <2>1. Current \in Evidences
    BY <1>1, CurrentTyped DEF Listing
  <2>2. [Current EXCEPT !.review = TRUE, !.verdict = verdict] \in Evidences
    BY <2>1 DEF Evidences
  <2>3. QED
    BY <1>1, <2>2, WithLastTyped DEF Listing
<1> HIDE DEF l
<1>3. /\ run' \in RunRecords /\ run'.pc = "dispatch" /\ run'.by = run.by /\ run'.list = l
      /\ run'.task = run.task /\ run'.queue = run.queue
      /\ run'.err = (IF run.err = "none" THEN "failed" ELSE run.err) /\ run'.err # "none"
  BY <1>1, <1>2, RunTyped DEF RunRecords, Points, Failures
<1>4. succeeded' \subseteq Commands \X {"execute", "review", "revise"} \X Ids
  BY <1>1, TaskTyped DEF Listing
<1>5. /\ Proceeds /\ (run.queue \subseteq Having("unstarted"))'
      /\ Len(run'.list) = Len(run.list)
      /\ run.err = "stalled" => \E j \in 1 .. Len(run.list) : IsStalled(run'.list[j]) /\ j < Len(run.list)
  BY <1>1, <1>3, <1>4, ReviewedProceeds, Zenon DEF l
<1>6. run'.err = "stalled" => \E j \in 1 .. Len(run'.list) : IsStalled(run'.list[j])
  BY <1>3, <1>5
<1>7. RunStands'
  BY <1>1, <1>3, <1>5, <1>6, DispatchStands
<1>8. QED
  BY <1>5, <1>7, ProceedsKeeps

\* A Revision that the run asks for, made or not.
LEMMA RevisedProceeds ==
    ASSUME WorkInv, run.pc = "revise", UNCHANGED <<stored, worked, used, lost>>,
           tasks' \in [Ids -> TaskRecords], NEW n \in Ids,
           \A t \in Ids : t # n => tasks'[t] = tasks[t],
           \/ tasks'[n] = tasks[n]
           \/ /\ n \notin Rows /\ run.task < n /\ tasks'[n].verdict = "none" /\ tasks'[n].source = run.task
              /\ tasks'[n].status \in {"absent", "unstarted"}
              /\ tasks'[n].status = "absent" => run'.err # "none",
           run' \in RunRecords, run'.by = run.by, run'.pc \in {"dispatch", "execute"},
           run'.queue = run.queue, run.err # "none" => run'.err # "none",
           NEW e \in Evidences, e.task = Current.task, e.verdict = Current.verdict,
           run'.list = WithLast(run.list, e),
           succeeded' \subseteq Commands \X {"execute", "review", "revise"} \X Ids
    PROVE  /\ Proceeds /\ (run.queue \subseteq Having("unstarted"))'
           /\ run.err = "stalled" => \E j \in 1 .. Len(run'.list) : IsStalled(run'.list[j])
<1>1. /\ run.task \in Ids /\ run.task \notin run.queue /\ run.task \in Rows
  BY TaskTyped DEF Listing
<1>2. Current = run.list[Len(run.list)]
  BY DEF Current
<1>3. PICK l : l = WithLast(run.list, e)
  OBVIOUS
<1>4. /\ Len(l) = Len(run.list) /\ DOMAIN l = 1 .. Len(run.list)
      /\ l[Len(run.list)] = e /\ \A j \in 1 .. Len(run.list) : j # Len(run.list) => l[j] = run.list[j]
  BY <1>3, WithLastTyped DEF Listing
<1>5. Len(run.list) \in Nat /\ DOMAIN run.list = 1 .. Len(run.list)
  BY RunTyped
<1>6. run'.list = l
  BY <1>3
<1>7. \A j \in 1 .. Len(run.list) : /\ run'.list[j].task = run.list[j].task
                                    /\ run'.list[j].verdict = run.list[j].verdict
  BY <1>2, <1>4, <1>6
<1>8. DOMAIN run'.list = DOMAIN run.list
  BY <1>4, <1>5, <1>6
<1>9. Proceeds
  <2>1. \A t \in Ids :
           \/ tasks'[t] = tasks[t]
           \/ /\ t \notin Rows /\ tasks'[t].verdict = "none"
              /\ tasks'[t].status \in {"absent", "unstarted"}
              /\ tasks'[t].source \in Rows /\ tasks'[t].source < t
              /\ tasks'[t].status = "absent" => run'.err # "none"
    BY <1>1
  <2>2. run'.pc # "review" /\ run'.pc # "none"
    OBVIOUS
  <2>3. QED
    BY <1>5, <1>7, <1>8, <2>1, <2>2 DEF Proceeds
<1>10. (run.queue \subseteq Having("unstarted"))'
  BY <1>1, QueueWaits
<1>11. ASSUME run.err = "stalled"
       PROVE  \E j \in 1 .. Len(run'.list) : IsStalled(run'.list[j])
  <2>1. Len(l) \in Nat /\ Len(l) >= Len(run.list) /\ run.pc \in Listing
    BY <1>4, <1>5 DEF Listing
  <2>2. \A j \in 1 .. Len(run.list) : j # Len(run.list) \/ run.pc \notin Listing => l[j] = run.list[j]
    BY <1>4, <2>1
  <2>3. \E j \in 1 .. Len(l) : IsStalled(l[j])
    BY <1>11, <2>1, <2>2, StallStays
  <2>4. QED
    BY <1>6, <2>3
<1>12. QED
  BY <1>9, <1>10, <1>11

LEMMA RevisedEvidence ==
    ASSUME WorkInv, run.pc = "revise", NEW n \in {0} \cup Ids
    PROVE  LET e == [Current EXCEPT !.revise = TRUE, !.revision = n]
               f == [Current EXCEPT !.revise = TRUE] IN
           /\ e \in Evidences /\ e.task = Current.task /\ e.verdict = Current.verdict
           /\ f \in Evidences /\ f.task = Current.task /\ f.verdict = Current.verdict
           /\ WithLast(run.list, e) \in Seq(Evidences) /\ WithLast(run.list, f) \in Seq(Evidences)
<1>1. Current \in Evidences
  BY CurrentTyped DEF Listing
<1>2. PICK e, f : /\ e = [Current EXCEPT !.revise = TRUE, !.revision = n]
                  /\ f = [Current EXCEPT !.revise = TRUE]
  OBVIOUS
<1>3. /\ e \in Evidences /\ e.task = Current.task /\ e.verdict = Current.verdict
      /\ f \in Evidences /\ f.task = Current.task /\ f.verdict = Current.verdict
  BY <1>1, <1>2 DEF Evidences
<1>4. WithLast(run.list, e) \in Seq(Evidences) /\ WithLast(run.list, f) \in Seq(Evidences)
  BY <1>3, WithLastTyped DEF Listing
<1>5. QED
  BY <1>2, <1>3, <1>4

\* The Task that a Revision of the run's Task gets.
LEMMA NextRevision ==
    ASSUME WorkInv, run.pc = "revise", NEW n \in Ids, IsNextTaskID(n)
    PROVE  /\ run.task \in Ids /\ run.task < n /\ n \notin Rows
           /\ tasks[n].status = "absent" /\ tasks[n].verdict = "none"
           /\ n \notin run.queue
<1>1. run.task \in Ids /\ run.task \in Rows
  BY TaskTyped DEF Listing
<1>2. tasks[run.task].status = "completed"
  BY DEF WorkInv, RunStands, Now
<1>3. /\ run.task < n /\ n \notin Rows /\ tasks[n].status = "absent" /\ tasks[n].verdict = "none"
  BY <1>1, <1>2, RevisedRows
<1>4. n \notin run.queue
  BY <1>3, RunTyped DEF Having
<1>5. QED
  BY <1>1, <1>3, <1>4

LEMMA ReviseKeeps ==
    ASSUME WorkInv, NEW n \in Ids, Revise(n)
    PROVE  WorkInv'
<1> DEFINE e == [Current EXCEPT !.revise = TRUE, !.revision = n]
<1>1. /\ run.pc = "revise" /\ IsNextTaskID(n)
      /\ tasks' = [tasks EXCEPT ![n] = Unstarted(run.task)]
      /\ succeeded' = succeeded \cup {<<run.by, "revise", run.task>>}
      /\ run' = [run EXCEPT !.pc = "execute", !.task = n, !.revs = run.revs + 1, !.list = WithLast(run.list, e)]
      /\ UNCHANGED <<stored, worked, used, lost>>
  BY DEF Revise, RunAt, Succeeds
<1>2. /\ run.task \in Ids /\ run.task < n /\ n \notin Rows /\ n \notin run.queue
      /\ tasks[n].status = "absent" /\ tasks[n].verdict = "none"
  BY <1>1, NextRevision
<1>3. /\ tasks \in [Ids -> TaskRecords] /\ run.by = used /\ used \in Commands /\ stored.state = "ready_to_execute"
      /\ succeeded \subseteq Commands \X {"execute", "review", "revise"} \X Ids
  BY <1>1, TaskTyped DEF Listing
<1>4. /\ e \in Evidences /\ e.task = Current.task /\ e.verdict = Current.verdict
      /\ WithLast(run.list, e) \in Seq(Evidences)
  BY <1>1, RevisedEvidence, Zenon
<1> HIDE DEF e
<1>5. /\ run' \in RunRecords /\ run'.pc = "execute" /\ run'.by = run.by
      /\ run'.list = WithLast(run.list, e)
      /\ run'.task = n /\ run'.err = run.err /\ run'.queue = run.queue
  <2>1. PICK l \in Seq(Evidences), m \in Nat : l = WithLast(run.list, e) /\ m = run.revs + 1
    <3>1. run.revs + 1 \in Nat
      BY RunTyped DEF RunRecords
    <3>2. QED
      BY <1>4, <3>1
  <2>2. run' = [run EXCEPT !.pc = "execute", !.task = n, !.revs = m, !.list = l]
    BY <1>1, <2>1
  <2>3. QED
    BY <2>1, <2>2, RunTyped DEF RunRecords, Points
<1>6. succeeded' \subseteq Commands \X {"execute", "review", "revise"} \X Ids
  BY <1>1, <1>2, <1>3
<1>7. PICK k \in TaskRecords : /\ k = Unstarted(run.task) /\ k.status = "unstarted" /\ k.verdict = "none"
                               /\ k.source = run.task
  BY <1>2, NewTasks
<1>8. /\ tasks' \in [Ids -> TaskRecords] /\ tasks'[n] = k /\ \A t \in Ids : t # n => tasks'[t] = tasks[t]
  BY <1>1, <1>3, <1>7
<1>9. /\ Proceeds /\ (run.queue \subseteq Having("unstarted"))'
      /\ run.err = "stalled" => \E j \in 1 .. Len(run'.list) : IsStalled(run'.list[j])
  BY <1>1, <1>2, <1>4, <1>5, <1>6, <1>7, <1>8, RevisedProceeds
<1>10. RunStands'
  <2>1. run' # NoRun
    BY <1>5, NoRunTyped
  <2>2. Now'.status = "unstarted"
    BY <1>5, <1>7, <1>8 DEF Now
  <2>3. QED
    BY <1>1, <1>2, <1>3, <1>5, <1>9, <2>1, <2>2 DEF RunStands, Listing, IsStalled
<1>11. QED
  BY <1>9, <1>10, ProceedsKeeps

LEMMA ReviseFailsKeeps ==
    ASSUME WorkInv, NEW n \in Ids, ReviseFails(n)
    PROVE  WorkInv'
<1> DEFINE e == [Current EXCEPT !.revise = TRUE]
<1>1. /\ run.pc = "revise"
      /\ run' = [run EXCEPT !.pc = "dispatch", !.err = IF run.err = "none" THEN "failed" ELSE run.err,
                            !.list = WithLast(run.list, e)]
      /\ UNCHANGED <<stored, worked, succeeded, used, lost>>
  BY DEF ReviseFails, RunAt
<1>2. /\ tasks \in [Ids -> TaskRecords] /\ run.task \in Ids
      /\ succeeded \subseteq Commands \X {"execute", "review", "revise"} \X Ids
  BY <1>1, TaskTyped DEF Listing
<1>3. /\ e \in Evidences /\ e.task = Current.task /\ e.verdict = Current.verdict
      /\ WithLast(run.list, e) \in Seq(Evidences)
  BY <1>1, RevisedEvidence, Zenon
<1> HIDE DEF e
<1>4. /\ run' \in RunRecords /\ run'.pc = "dispatch" /\ run'.by = run.by
      /\ run'.list = WithLast(run.list, e) /\ run'.queue = run.queue
      /\ run'.err = (IF run.err = "none" THEN "failed" ELSE run.err) /\ run'.err # "none"
  BY <1>1, <1>3, RunTyped DEF RunRecords, Points, Failures
<1>5. /\ tasks' \in [Ids -> TaskRecords] /\ \A t \in Ids : t # n => tasks'[t] = tasks[t]
      /\ \/ tasks'[n] = tasks[n]
         \/ /\ n \notin Rows /\ run.task < n /\ tasks'[n].verdict = "none" /\ tasks'[n].source = run.task
            /\ tasks'[n].status = "absent"
  <2>1. CASE Faults /\ IsNextTaskID(n)
    <3>1. tasks' = [tasks EXCEPT ![n].source = run.task]
      BY <2>1 DEF ReviseFails
    <3>2. /\ run.task < n /\ n \notin Rows /\ tasks[n].status = "absent" /\ tasks[n].verdict = "none"
      BY <1>1, <2>1, NextRevision
    <3>3. PICK k : k = [tasks[n] EXCEPT !.source = run.task]
      OBVIOUS
    <3>4. k \in TaskRecords /\ k.status = tasks[n].status /\ k.verdict = tasks[n].verdict /\ k.source = run.task
      BY <1>2, <3>3 DEF TaskRecords
    <3>5. /\ tasks' \in [Ids -> TaskRecords] /\ tasks'[n] = k
          /\ \A t \in Ids : t # n => tasks'[t] = tasks[t]
      BY <1>2, <3>1, <3>3, <3>4
    <3>6. QED
      BY <3>2, <3>4, <3>5
  <2>2. CASE ~(Faults /\ IsNextTaskID(n))
    <3>1. tasks' = tasks
      BY <2>2 DEF ReviseFails
    <3>2. QED
      BY <1>2, <3>1
  <2>3. QED
    BY <2>1, <2>2
<1>6. /\ Proceeds /\ (run.queue \subseteq Having("unstarted"))'
      /\ run.err = "stalled" => \E j \in 1 .. Len(run'.list) : IsStalled(run'.list[j])
  BY <1>1, <1>2, <1>3, <1>4, <1>5, RevisedProceeds
<1>7. RunStands'
  BY <1>1, <1>4, <1>6, DispatchStands
<1>8. QED
  BY <1>6, <1>7, ProceedsKeeps

\* A run that ends without a Turn.
LEMMA LostKeeps ==
    ASSUME WorkInv, run # NoRun, run' = NoRun, lost' = TRUE,
           UNCHANGED <<stored, worked, tasks, succeeded, used>>
    PROVE  WorkInv'
<1>1. WorldOfWork'
  BY NoRunTyped DEF WorkInv, WorldOfWork
<1>2. Recorded(stored')
  BY DEF WorkInv
<1>3. RunStands'
  <2>1. run'.pc = "none" /\ run'.err = "none" /\ run'.queue = {}
    BY NoRunTyped
  <2>2. QED
    BY <2>1 DEF RunStands, Listing
<1>4. ReviewsTold'
  <2>1. \A t \in Ids : tasks[t].status = "completed" /\ (t # run.task \/ run.pc # "review") =>
               /\ tasks'[t].status = "completed" /\ tasks'[t].saved = tasks[t].saved
               /\ tasks'[t].verdict = tasks[t].verdict
    OBVIOUS
  <2>2. run'.pc # "review" /\ DOMAIN run'.list = {}
    BY NoRunTyped
  <2>3. ASSUME NEW i \in DOMAIN stored.turns, stored.turns[i].kind = "workflow_recorded"
        PROVE  \E t : t = stored.turns[i] /\ TurnTold(t)'
    <3>1. PICK t : t = stored.turns[i]
      OBVIOUS
    <3>2. TurnTold(t)
      BY <2>3, <3>1 DEF WorkInv, ReviewsTold
    <3>3. t.by \in Commands
      BY <3>1, TurnCommands DEF WorkInv
    <3>4. ASSUME NEW j \in DOMAIN worked[t.by]
          PROVE  RightlyTold(worked[t.by][j], t.status \in Failures)'
      <4>1. PICK e \in Evidences : e = worked[t.by][j]
        BY <3>3, WorkedTyped DEF WorkInv
      <4>2. PICK f : f = (t.status \in Failures)
        OBVIOUS
      <4>3. RightlyTold(e, f)
        BY <3>2, <4>1, <4>2 DEF TurnTold
      <4>4. RightlyTold(e, f)'
        BY <2>1, <2>2, <4>3, ToldStaysRight DEF WorkInv
      <4>5. QED
        BY <4>1, <4>2, <4>4
    <3>5. TurnTold(t)'
      BY <3>2, <3>4 DEF TurnTold
    <3>6. QED
      BY <3>1, <3>5
  <2>4. QED
    BY <2>2, <2>3 DEF ReviewsTold
<1>5. TasksStand'
  BY DEF WorkInv, TasksStand, Rows, Having, HasFailed
<1>6. QED
  BY <1>1, <1>2, <1>3, <1>4, <1>5 DEF WorkInv

LEMMA RecordRefusedKeeps ==
    ASSUME WorkInv, RecordRefused \/ RunDies
    PROVE  WorkInv'
<1>1. run # NoRun
  BY NoRunTyped DEF RecordRefused, RunDies, RunAt
<1>2. run' = NoRun /\ lost' = TRUE /\ UNCHANGED <<stored, worked, tasks, succeeded, used>>
  BY DEF RecordRefused, RunDies
<1>3. QED
  BY <1>1, <1>2, LostKeeps

LEMMA RecordWorkflowKeeps ==
    ASSUME WorkInv, RecordWorkflow
    PROVE  WorkInv'
<1> DEFINE s == IF run.end = "limit_reached" THEN "blocked" ELSE run.end
<1>1. /\ run.pc = "record" /\ run.end # "blocked" /\ Appends(Worked(run.by, AppliedProject(stored), s))
      /\ worked' = [worked EXCEPT ![run.by] = run.list] /\ run' = NoRun
      /\ UNCHANGED <<tasks, succeeded, used, lost>>
  BY DEF RecordWorkflow, Recordable, RunAt
<1>2. /\ run.end # "none" /\ run.end \in Ends
      /\ run.err # "none" => run.end \in Failures
      /\ run.end = "stalled" => run.err = "stalled"
      /\ run.end = "completed" => Rows = Having("completed")
      /\ run.by = used /\ used \in Commands /\ stored.state = "ready_to_execute" /\ run # NoRun
  <2>1. run.end \in Ends /\ run # NoRun
    BY <1>1, RunTyped, NoRunTyped DEF RunRecords
  <2>2. QED
    BY <1>1, <2>1 DEF WorkInv, RunStands
<1>3. /\ s \in WorkflowStatuses
      /\ run.err # "none" => s \in Failures
      /\ s = "stalled" => run.err = "stalled"
      /\ s = "completed" => Rows = Having("completed")
  BY <1>1, <1>2 DEF Ends, WorkflowStatuses, Failures
<1>4. AppliedProject(stored) \in Seq(Nat)
  BY AppliedTyped DEF WorkInv, Recorded
<1> HIDE DEF s
<1>5. PICK t \in Turned : /\ t = Worked(run.by, AppliedProject(stored), s)
                          /\ t.kind = "workflow_recorded" /\ t.by = run.by /\ t.status = s
  <2>1. Worked(run.by, AppliedProject(stored), s) \in Turned
    BY <1>2, <1>3, <1>4, TurnsTyped
  <2>2. QED
    BY <2>1 DEF Worked, Turn
<1> DEFINE n == Len(stored.turns)
<1>6. Prolongs(stored, stored', t)
  BY <1>1, <1>3, <1>5, AppendsProlongs
<1>7. /\ Recorded(stored') /\ stored'.state = AfterWorkflow(s)
      /\ DOMAIN stored'.turns = 1 .. n + 1 /\ DOMAIN stored.turns = 1 .. n /\ n \in Nat
      /\ \A i \in 1 .. n : stored'.turns[i] = stored.turns[i]
      /\ stored'.turns[n + 1] = t
      /\ CurrentPlan(stored') = CurrentPlan(stored)
  BY <1>5, <1>6 DEF Prolongs, StateAfter
<1> HIDE DEF n
<1>8. /\ stored'.state \notin Before
      /\ stored'.state \in Ended => Rows = Having("completed")
      /\ stored.state \notin Before
  BY <1>2, <1>3, <1>7 DEF AfterWorkflow, Before, Ended
<1>9. /\ run.list \in Seq(Evidences) /\ worked \in [Commands -> Seq(Evidences)]
      /\ run.err = "stalled" => \E j \in DOMAIN run.list : IsStalled(run.list[j])
  BY RunTyped DEF WorkInv, WorldOfWork
<1>10. /\ worked' \in [Commands -> Seq(Evidences)] /\ worked'[run.by] = run.list
       /\ \A c \in Commands : c # run.by => worked'[c] = worked[c]
  BY <1>1, <1>2, <1>9
<1>11. WorldOfWork'
  BY <1>1, <1>10, NoRunTyped DEF WorkInv, WorldOfWork
<1>12. RunStands'
  <2>1. run'.pc = "none" /\ run'.err = "none" /\ run'.queue = {}
    BY <1>1, NoRunTyped
  <2>2. QED
    BY <1>1, <2>1 DEF RunStands, Listing
<1>13. \A i \in 1 .. n : stored.turns[i].kind = "workflow_recorded" =>
          /\ stored.turns[i].by \in Commands /\ stored.turns[i].by # run.by
          /\ worked'[stored.turns[i].by] = worked[stored.turns[i].by]
  <2>1. SUFFICES ASSUME NEW i \in 1 .. n, stored.turns[i].kind = "workflow_recorded"
                 PROVE  stored.turns[i].by \in Commands /\ stored.turns[i].by # run.by
    BY <1>10
  <2>2. i \in DOMAIN stored.turns
    BY <1>7
  <2>3. stored.turns[i].by \in Commands
    BY <2>2, TurnCommands DEF WorkInv
  <2>4. TurnTold(stored.turns[i])
    BY <2>1, <2>2 DEF WorkInv, ReviewsTold
  <2>5. QED
    BY <1>2, <2>3, <2>4 DEF TurnTold
<1>14. ReviewsTold'
  <2>1. \A x \in Ids : tasks[x].status = "completed" /\ (x # run.task \/ run.pc # "review") =>
               /\ tasks'[x].status = "completed" /\ tasks'[x].saved = tasks[x].saved
               /\ tasks'[x].verdict = tasks[x].verdict
    BY <1>1
  <2>2. run'.pc # "review" /\ DOMAIN run'.list = {}
    BY <1>1, NoRunTyped
  <2>3. ASSUME NEW i \in 1 .. n, stored.turns[i].kind = "workflow_recorded"
        PROVE  \E u : u = stored.turns[i] /\ TurnTold(u)'
    <3>1. PICK u : u = stored.turns[i]
      OBVIOUS
    <3>2. TurnTold(u) /\ u.by \in Commands /\ u.by # run.by /\ worked'[u.by] = worked[u.by]
      BY <1>7, <1>13, <2>3, <3>1 DEF WorkInv, ReviewsTold
    <3>3. ASSUME NEW j \in DOMAIN worked[u.by]
          PROVE  RightlyTold(worked[u.by][j], u.status \in Failures)'
      <4>1. PICK e \in Evidences : e = worked[u.by][j]
        BY <3>2, <3>3, WorkedTyped DEF WorkInv
      <4>2. PICK f : f = (u.status \in Failures)
        OBVIOUS
      <4>3. RightlyTold(e, f)
        BY <3>2, <3>3, <4>1, <4>2 DEF TurnTold
      <4>4. RightlyTold(e, f)'
        BY <2>1, <2>2, <4>3, ToldStaysRight DEF WorkInv
      <4>5. e = worked'[u.by][j]
        BY <3>2, <4>1
      <4>6. QED
        BY <4>2, <4>4, <4>5
    <3>4. u.by <= used' /\ (run' # NoRun => u.by # run'.by)
      BY <1>1, <3>2 DEF TurnTold
    <3>5. TurnTold(u)'
      BY <3>2, <3>3, <3>4 DEF TurnTold
    <3>6. QED
      BY <3>1, <3>5
  <2>4. TurnTold(t)'
    <3>1. ASSUME NEW j \in DOMAIN run.list
          PROVE  \E e : e = run.list[j] /\ RightlyTold(e, t.status \in Failures)'
      <4>1. PICK e \in Evidences : e = run.list[j]
        BY <1>9, <3>1
      <4>2. PICK f, g : f = (run.err # "none") /\ g = (t.status \in Failures)
        OBVIOUS
      <4>3. RightlyTold(e, f) /\ (f => g)
        BY <1>3, <1>5, <3>1, <4>1, <4>2 DEF WorkInv, ReviewsTold
      <4>4. RightlyTold(e, g)'
        BY <2>1, <2>2, <4>3, ToldStaysRight DEF WorkInv
      <4>5. QED
        BY <4>1, <4>2, <4>4
    <3>2. t.by <= used' /\ (run' # NoRun => t.by # run'.by)
      BY <1>1, <1>2, <1>5, <1>11, CommandNumbers DEF WorkInv
    <3>3. worked'[t.by] = run.list
      BY <1>5, <1>10
    <3>4. t.status = "stalled" => \E j \in DOMAIN run.list : IsStalled(run.list[j])
      BY <1>3, <1>5, <1>9
    <3>5. QED
      BY <3>1, <3>2, <3>3, <3>4 DEF TurnTold, IsStalled
  <2>5. ASSUME NEW i \in DOMAIN stored'.turns, stored'.turns[i].kind = "workflow_recorded"
        PROVE  \E u : u = stored'.turns[i] /\ TurnTold(u)'
    <3>1. CASE i = n + 1
      BY <1>7, <2>4, <3>1
    <3>2. CASE i # n + 1
      <4>1. i \in 1 .. n /\ stored'.turns[i] = stored.turns[i]
        BY <1>7, <2>5, <3>2
      <4>2. QED
        BY <2>3, <2>5, <4>1
    <3>3. QED
      BY <3>1, <3>2
  <2>6. QED
    BY <2>2, <2>5 DEF ReviewsTold
<1>15. TasksStand'
  <2>1. stored'.state \notin Before => 1 .. CurrentPlan(stored').tasks \subseteq Rows'
    BY <1>1, <1>7, <1>8 DEF WorkInv, TasksStand, Rows
  <2>2. stored'.state \in Ended => Rows' = Having("completed")'
    BY <1>1, <1>8 DEF Rows, Having
  <2>3. ASSUME ~lost', NEW u \in Ids, tasks'[u].status \notin {"absent", "unstarted"}
        PROVE  Listed(u)'
    <3>1. Listed(u) \/ InRun(u)
      BY <1>1, <2>3 DEF WorkInv, TasksStand
    <3>2. CASE Listed(u)
      <4>1. PICK i \in 1 .. n : /\ stored.turns[i].kind = "workflow_recorded"
                                /\ \E j \in DOMAIN worked[stored.turns[i].by] :
                                      worked[stored.turns[i].by][j].task = u
        BY <1>7, <3>2 DEF Listed
      <4>2. i \in DOMAIN stored'.turns /\ stored'.turns[i] = stored.turns[i]
        BY <1>7
      <4>3. worked'[stored.turns[i].by] = worked[stored.turns[i].by]
        BY <1>13, <4>1
      <4>4. QED
        BY <4>1, <4>2, <4>3 DEF Listed
    <3>3. CASE InRun(u)
      <4>1. n + 1 \in DOMAIN stored'.turns
        BY <1>7
      <4>2. PICK j \in DOMAIN run.list : run.list[j].task = u
        BY <3>3 DEF InRun
      <4>3. worked'[stored'.turns[n + 1].by] = run.list
        BY <1>5, <1>7, <1>10
      <4>4. stored'.turns[n + 1].kind = "workflow_recorded"
        BY <1>5, <1>7
      <4>5. QED
        BY <4>1, <4>2, <4>3, <4>4 DEF Listed
    <3>4. QED
      BY <3>1, <3>2, <3>3
  <2>4. ASSUME NEW u \in Ids, u \notin Rows', tasks'[u].source # 0
        PROVE  lost' \/ HasFailed'
    <3>1. lost \/ HasFailed \/ run.err # "none"
      BY <1>1, <2>4 DEF WorkInv, TasksStand, Rows
    <3>2. HasFailed => HasFailed'
      <4>1. ASSUME NEW i \in DOMAIN stored.turns, stored.turns[i].status \in Failures
            PROVE  i \in DOMAIN stored'.turns /\ stored'.turns[i].status \in Failures
        BY <1>7, <4>1
      <4>2. QED
        BY <4>1 DEF HasFailed
    <3>3. run.err # "none" => HasFailed'
      <4>1. n + 1 \in DOMAIN stored'.turns
        BY <1>7
      <4>2. QED
        BY <1>3, <1>5, <1>7, <4>1 DEF HasFailed
    <3>4. QED
      BY <1>1, <3>1, <3>2, <3>3
  <2>5. QED
    BY <1>1, <1>8, <2>1, <2>2, <2>3, <2>4 DEF WorkInv, TasksStand, Rows
<1>16. QED
  BY <1>7, <1>11, <1>12, <1>14, <1>15 DEF WorkInv

LEMMA WorkStutters ==
    ASSUME WorkInv, UNCHANGED workVars
    PROVE  WorkInv'
<1>1. /\ stored' = stored /\ worked' = worked /\ tasks' = tasks /\ succeeded' = succeeded
      /\ run' = run /\ used' = used /\ lost' = lost
  BY DEF workVars
<1>2. Recorded(stored') /\ WorldOfWork'
  BY <1>1 DEF WorkInv, WorldOfWork
<1>3. RunStands'
  BY <1>1, SMTT(40) DEF WorkInv, RunStands, Having, Rows, Current, Now, IsStalled
<1>4. ReviewsTold'
  BY <1>1, ZenonT(60) DEF WorkInv, ReviewsTold, TurnTold, RightlyTold, IsStalled
<1>5. TasksStand'
  BY <1>1 DEF WorkInv, TasksStand, Rows, Having, Listed, InRun, HasFailed
<1>6. QED
  BY <1>2, <1>3, <1>4, <1>5 DEF WorkInv

LEMMA WorkInitHolds == WorkInit => WorkInv
<1>1. SUFFICES ASSUME WorkInit PROVE WorkInv
  OBVIOUS
<1>2. PICK profile \in Profiles : stored = New(profile)
  BY <1>1 DEF WorkInit
<1>3. /\ Recorded(stored) /\ stored.turns = <<>> /\ DOMAIN stored.turns = {}
      /\ stored.state = "plan_generation_approval_required"
  BY <1>2, NewRecorded, NewStands
<1>4. /\ run = NoRun /\ NoRun \in RunRecords /\ NoRun.pc = "none" /\ NoRun.err = "none" /\ NoRun.queue = {}
      /\ DOMAIN run.list = {}
  BY <1>1, NoRunTyped DEF WorkInit
<1>5. tasks = [t \in Ids |-> Absent] /\ Absent \in TaskRecords /\ worked = [c \in Commands |-> <<>>]
  BY <1>1, NewTasks DEF WorkInit
<1>6. <<>> \in Seq(Evidences)
  OBVIOUS
<1>7. WorldOfWork
  BY <1>1, <1>4, <1>5, <1>6 DEF WorkInit, WorldOfWork
<1>8. RunStands
  BY <1>4 DEF RunStands, Listing
<1>9. ReviewsTold
  BY <1>3, <1>4 DEF ReviewsTold
<1>10. TasksStand
  BY <1>3, <1>5, NewTasks DEF TasksStand, Before, Ended, Rows
<1>11. QED
  BY <1>3, <1>7, <1>8, <1>9, <1>10 DEF WorkInv

LEMMA WorkNextKeeps == WorkInv /\ [WorkNext]_workVars => WorkInv'
<1>1. SUFFICES ASSUME WorkInv, [WorkNext]_workVars PROVE WorkInv'
  OBVIOUS
<1>2. CASE Request
  BY <1>1, <1>2, RequestsKeep
<1>3. CASE Workflow
  <2>1. CASE PlanChained \/ NextBatch \/ RoundEnds \/ OverBudget \/ GiveUp
    BY <1>1, <2>1, PlanChainedKeeps, NextBatchKeeps, RoundEndsKeeps, OverBudgetKeeps, GiveUpKeeps
  <2>2. CASE StartTask \/ StartRefused \/ ExecuteTask \/ ExecuteFails
    BY <1>1, <2>2, StartTaskKeeps, StartRefusedKeeps, ExecuteTaskKeeps, ExecuteFailsKeeps
  <2>3. CASE RecordWorkflow \/ RecordRefused
    BY <1>1, <2>3, RecordWorkflowKeeps, RecordRefusedKeeps
  <2>4. ASSUME NEW t \in Ids, Dispatch(t) \/ Revise(t) \/ ReviseFails(t) PROVE WorkInv'
    BY <1>1, <2>4, DispatchKeeps, ReviseKeeps, ReviseFailsKeeps
  <2>5. ASSUME NEW verdict \in Verdicts \ {"none"}, Review(verdict) PROVE WorkInv'
    BY <1>1, <2>5, ReviewKeeps
  <2>6. ASSUME NEW verdict \in Verdicts, NEW saved \in Verdicts, ReviewFails(verdict, saved) PROVE WorkInv'
    BY <1>1, <2>6, ReviewFailsKeeps
  <2>7. QED
    BY <1>3, <2>1, <2>2, <2>3, <2>4, <2>5, <2>6 DEF Workflow
<1>4. CASE RunDies
  BY <1>1, <1>4, RecordRefusedKeeps
<1>5. CASE UNCHANGED workVars
  BY <1>1, <1>5, WorkStutters
<1>6. QED
  BY <1>1, <1>2, <1>3, <1>4, <1>5 DEF WorkNext

\* The invariant of a Session and the runs that work for it.
THEOREM WorkInvariance == WorkSpec => []WorkInv
BY WorkInitHolds, WorkNextKeeps, PTL DEF WorkSpec

-----------------------------------------------------------------------------
(* Types, and the feed. *)

LEMMA WorkWellTyped == WorkInv => WorkTypeOK
<1>1. SUFFICES ASSUME WorkInv PROVE WorkTypeOK
  OBVIOUS
<1>2. WorldOfWork /\ stored \in Records /\ Agrees(stored)
  BY <1>1 DEF WorkInv, Recorded
<1>3. Valid(stored) /\ stored.profile \in Profiles /\ stored.state \in States
  BY <1>2 DEF Agrees, Valid, Records
<1>4. ASSUME NEW c \in Commands, NEW i \in DOMAIN worked[c]
      PROVE  worked[c][i] \in Evidences
  BY <1>2, WorkedTyped
<1>5. run.pc \in Points /\ run.end \in Ends /\ run.queue \subseteq Ids
  BY <1>2 DEF WorldOfWork, RunRecords
<1>6. QED
  BY <1>2, <1>3, <1>4, <1>5 DEF WorkTypeOK, WorldOfWork, Evidences, TaskRecords

\* In SessionWork the record is always typed, and can be read back.
THEOREM WorkTypeCorrect == WorkSpec => []WorkTypeOK
BY WorkInvariance, WorkWellTyped, PTL

\* What the feed shows when the record's own Next() asks for something or not.
LEMMA FeedIsNexts ==
    ASSUME NEW r \in Records, r.profile # "bounded_acceptance"
    PROVE  CASE Offered(r) \in {"done", "action"} -> AttentionItem(r) = NoItem
             [] Offered(r) = "inspect" -> AttentionItem(r) = NoItem \/ AttentionItem(r).action = "inspect"
             [] OTHER -> AttentionItem(r).operation = Offered(r)
<1>1. r.state \in States
  BY DEF Records
<1>2. \A a, b, c : Item(a, b, c).action = b /\ Item(a, b, c).operation = c
  BY DEF Item
<1>3. CASE r.state = "plan_generation_approval_required"
  BY <1>2, <1>3 DEF Offered, AttentionItem
<1>4. CASE r.state = "clarification_required"
  BY <1>2, <1>4 DEF Offered, AttentionItem
<1>5. CASE r.state = "plan_approval_required"
  BY <1>2, <1>5 DEF Offered, AttentionItem
<1>6. CASE r.state = "ready_to_execute"
  BY <1>2, <1>6 DEF Offered, AttentionItem
<1>7. CASE r.state = "workflow_attention_required"
  BY <1>2, <1>7 DEF Offered, AttentionItem
<1>8. CASE r.state \in {"completed", "action_completed"}
  BY <1>2, <1>8 DEF Offered, AttentionItem
<1>9. CASE r.state = "action_attention_required"
  BY <1>2, <1>9 DEF Offered, AttentionItem
<1>10. QED
  BY <1>1, <1>3, <1>4, <1>5, <1>6, <1>7, <1>8, <1>9 DEF States

LEMMA FeedFollows == WorkInv => FeedFollowsNext
<1>1. SUFFICES ASSUME WorkInv, ~IsBounded, ~IsArchived(stored)
               PROVE  CASE Offered(stored) \in {"done", "action"} -> Feed = {}
                        [] Offered(stored) = "inspect" ->
                             AttentionItem(stored) = NoItem \/ AttentionItem(stored).action = "inspect"
                        [] OTHER -> AttentionItem(stored).operation = Offered(stored)
  BY DEF FeedFollowsNext
<1>2. stored \in Records /\ stored.profile # "bounded_acceptance"
  BY <1>1 DEF WorkInv, Recorded, IsBounded
<1>3. AttentionItem(stored) = NoItem => Feed = {}
  BY <1>1 DEF Feed
<1>4. QED
  BY <1>2, <1>3, FeedIsNexts

\* The CEO of a standard Session is asked for what Next() offers, and for
\* nothing where Next() asks for nothing, whatever its history.
THEOREM FeedIsRight == WorkSpec => []FeedFollowsNext
BY WorkInvariance, FeedFollows, PTL

-----------------------------------------------------------------------------
(* Sequences of entries and of evidence. *)

LEMMA JoinedElements ==
    ASSUME NEW S, NEW s \in Seq(S), NEW t \in Seq(S)
    PROVE  s \o t \in Seq(S) /\ ToSet(s \o t) = ToSet(s) \cup ToSet(t)
<1>1. /\ s \o t \in Seq(S) /\ Len(s) \in Nat /\ Len(t) \in Nat
      /\ DOMAIN s = 1 .. Len(s) /\ DOMAIN t = 1 .. Len(t) /\ DOMAIN (s \o t) = 1 .. Len(s) + Len(t)
      /\ \A i \in 1 .. Len(s) + Len(t) : (s \o t)[i] = IF i <= Len(s) THEN s[i] ELSE t[i - Len(s)]
  OBVIOUS
<1>2. ASSUME NEW i \in DOMAIN (s \o t) PROVE (s \o t)[i] \in ToSet(s) \cup ToSet(t)
  <2>1. CASE i <= Len(s)
    BY <1>1, <2>1 DEF ToSet
  <2>2. CASE ~ (i <= Len(s))
    <3>1. i - Len(s) \in DOMAIN t /\ (s \o t)[i] = t[i - Len(s)]
      BY <1>1, <2>2
    <3>2. QED
      BY <3>1 DEF ToSet
  <2>3. QED
    BY <2>1, <2>2
<1>3. ASSUME NEW i \in DOMAIN s PROVE s[i] \in ToSet(s \o t)
  <2>1. i \in DOMAIN (s \o t) /\ (s \o t)[i] = s[i]
    BY <1>1
  <2>2. QED
    BY <2>1 DEF ToSet
<1>4. ASSUME NEW i \in DOMAIN t PROVE t[i] \in ToSet(s \o t)
  <2>1. i + Len(s) \in DOMAIN (s \o t) /\ (s \o t)[i + Len(s)] = t[i]
    BY <1>1
  <2>2. QED
    BY <2>1 DEF ToSet
<1>5. ToSet(s \o t) \subseteq ToSet(s) \cup ToSet(t)
  BY <1>2 DEF ToSet
<1>6. ToSet(s) \subseteq ToSet(s \o t) /\ ToSet(t) \subseteq ToSet(s \o t)
  BY <1>3, <1>4 DEF ToSet
<1>7. QED
  BY <1>1, <1>5, <1>6

\* The function that FlattenSeq defines.
Flattens(ss, k, f) == f = [i \in 1 .. k |-> IF i = 1 THEN ss[i] ELSE f[i - 1] \o ss[i]]

LEMMA FlatteningExists ==
    ASSUME NEW ss, NEW n \in Nat
    PROVE  \E f : Flattens(ss, n, f)
<1> DEFINE Wrong == {k \in 0 .. n : ~ \E f : Flattens(ss, k, f)}
<1>1. SUFFICES ASSUME Wrong # {} PROVE FALSE
  OBVIOUS
<1>2. PICK k \in Wrong : \A y \in Wrong : k <= y
  <2>1. Wrong \in SUBSET (0 .. n)
    OBVIOUS
  <2> HIDE DEF Wrong
  <2>2. QED
    BY <1>1, <2>1, LeastIndex
<1>3. \A f : ~ Flattens(ss, k, f)
  BY <1>2
<1>4. CASE k = 0
  <2> DEFINE g == [i \in 1 .. 0 |-> ss[i]]
  <2>1. 1 .. 0 = {}
    OBVIOUS
  <2>2. Flattens(ss, 0, g)
    BY <2>1 DEF Flattens
  <2>3. QED
    BY <1>3, <1>4, <2>2
<1>5. CASE k # 0
  <2>1. k \in 1 .. n /\ k - 1 \in 0 .. n /\ ~ (k <= k - 1) /\ k \in Nat
    BY <1>2, <1>5
  <2>2. k - 1 \notin Wrong
    BY <1>2, <2>1
  <2>3. PICK f : Flattens(ss, k - 1, f)
    BY <2>1, <2>2
  <2> DEFINE g == [i \in 1 .. k |-> IF i = 1 THEN ss[i] ELSE f[i - 1] \o ss[i]]
  <2>4. ASSUME NEW i \in 1 .. (k - 1) PROVE g[i] = f[i]
    <3>1. i \in 1 .. k
      BY <2>1
    <3>2. g[i] = IF i = 1 THEN ss[i] ELSE f[i - 1] \o ss[i]
      BY <3>1
    <3>3. f[i] = IF i = 1 THEN ss[i] ELSE f[i - 1] \o ss[i]
      BY <2>3, <2>4 DEF Flattens
    <3>4. QED
      BY <3>2, <3>3
  <2>5. ASSUME NEW i \in 1 .. k PROVE g[i] = IF i = 1 THEN ss[i] ELSE g[i - 1] \o ss[i]
    <3>1. CASE i = 1
      BY <2>5, <3>1
    <3>2. CASE i # 1
      <4>1. i - 1 \in 1 .. (k - 1)
        BY <2>1, <2>5, <3>2
      <4>2. g[i - 1] = f[i - 1]
        BY <2>4, <4>1
      <4>3. g[i] = f[i - 1] \o ss[i]
        BY <2>5, <3>2
      <4> HIDE DEF g
      <4>4. QED
        BY <3>2, <4>2, <4>3
    <3>3. QED
      BY <3>1, <3>2
  <2>6. g = [i \in 1 .. k |-> g[i]]
    OBVIOUS
  <2>7. Flattens(ss, k, g)
    <3> HIDE DEF g
    <3>1. [i \in 1 .. k |-> g[i]] = [i \in 1 .. k |-> IF i = 1 THEN ss[i] ELSE g[i - 1] \o ss[i]]
      BY <2>5
    <3>2. QED
      BY <2>6, <3>1 DEF Flattens
  <2>8. QED
    BY <1>3, <2>7
<1>6. QED
  BY <1>4, <1>5

\* A flattened sequence has the elements of its parts, and no others.
LEMMA FlattenedElements ==
    ASSUME NEW S, NEW ss \in Seq(Seq(S))
    PROVE  /\ FlattenSeq(ss) \in Seq(S)
           /\ \A e : e \in ToSet(FlattenSeq(ss)) <=> \E j \in DOMAIN ss : e \in ToSet(ss[j])
<1> DEFINE n == Len(ss)
<1>1. n \in Nat /\ DOMAIN ss = 1 .. n /\ \A i \in 1 .. n : ss[i] \in Seq(S)
  OBVIOUS
<1>2. CASE n = 0
  <2>1. FlattenSeq(ss) = ss /\ ss = <<>> /\ DOMAIN ss = {}
    BY <1>1, <1>2 DEF FlattenSeq
  <2>2. <<>> \in Seq(S) /\ DOMAIN <<>> = {}
    OBVIOUS
  <2>3. QED
    BY <2>1, <2>2 DEF ToSet
<1>3. CASE n # 0
  <2> DEFINE f == CHOOSE g : g = [i \in 1 .. n |-> IF i = 1 THEN ss[i] ELSE g[i - 1] \o ss[i]]
  <2>1. FlattenSeq(ss) = f[n]
    BY <1>3 DEF FlattenSeq
  <2>2. f = [i \in 1 .. n |-> IF i = 1 THEN ss[i] ELSE f[i - 1] \o ss[i]]
    <3>1. \E g : g = [i \in 1 .. n |-> IF i = 1 THEN ss[i] ELSE g[i - 1] \o ss[i]]
      BY <1>1, FlatteningExists DEF Flattens
    <3>2. QED
      BY <3>1, Zenon
  <2> HIDE DEF f
  <2>3. ASSUME NEW i \in 1 .. n PROVE f[i] = IF i = 1 THEN ss[i] ELSE f[i - 1] \o ss[i]
    BY <2>2, <2>3
  <2> DEFINE Good(k) == /\ f[k] \in Seq(S)
                        /\ \A e : e \in ToSet(f[k]) <=> \E j \in 1 .. k : e \in ToSet(ss[j])
             Wrong == {k \in 1 .. n : ~ Good(k)}
  <2>4. ASSUME Wrong # {} PROVE FALSE
    <3>1. PICK k \in Wrong : \A y \in Wrong : k <= y
      <4>1. Wrong \in SUBSET (0 .. n)
        BY <1>1
      <4> HIDE DEF Wrong
      <4>2. QED
        BY <1>1, <2>4, <4>1, LeastIndex
    <3>2. k \in 1 .. n /\ ~ Good(k)
      BY <3>1
    <3>3. CASE k = 1
      <4>1. f[1] = ss[1] /\ ss[1] \in Seq(S)
        BY <1>1, <2>3, <3>2, <3>3
      <4>2. 1 .. 1 = {1}
        OBVIOUS
      <4>3. \A e : e \in ToSet(f[1]) <=> \E j \in 1 .. 1 : e \in ToSet(ss[j])
        BY <4>1, <4>2
      <4>4. QED
        BY <3>2, <3>3, <4>1, <4>3
    <3>4. CASE k # 1
      <4>1. k - 1 \in 1 .. n /\ ~ (k <= k - 1) /\ k - 1 \in Nat
        BY <1>1, <3>2, <3>4
      <4>2. Good(k - 1)
        BY <3>1, <4>1
      <4>3. f[k] = f[k - 1] \o ss[k] /\ ss[k] \in Seq(S)
        BY <1>1, <2>3, <3>2, <3>4
      <4>4. f[k] \in Seq(S) /\ ToSet(f[k]) = ToSet(f[k - 1]) \cup ToSet(ss[k])
        BY <4>2, <4>3, JoinedElements
      <4>5. 1 .. k = 1 .. (k - 1) \cup {k}
        BY <3>2, <4>1
      <4>6. \A e : e \in ToSet(f[k - 1]) <=> \E j \in 1 .. (k - 1) : e \in ToSet(ss[j])
        BY <4>2
      <4>7. \A e : e \in ToSet(f[k]) <=> \E j \in 1 .. k : e \in ToSet(ss[j])
        BY <4>4, <4>5, <4>6
      <4>8. QED
        BY <3>2, <4>4, <4>7
    <3>5. QED
      BY <3>3, <3>4
  <2>5. n \in 1 .. n
    BY <1>1, <1>3
  <2>6. Good(n)
    BY <2>4, <2>5
  <2>7. QED
    BY <1>1, <2>1, <2>6, SMTT(40)
<1>4. QED
  BY <1>2, <1>3

LEMMA IfElements ==
    ASSUME NEW S, NEW c \in BOOLEAN, NEW e \in S
    PROVE  If(c, e) \in Seq(S) /\ ToSet(If(c, e)) = IF c THEN {e} ELSE {}
<1>1. <<e>> \in Seq(S) /\ DOMAIN <<e>> = {1} /\ <<e>>[1] = e
  OBVIOUS
<1>2. <<>> \in Seq(S) /\ DOMAIN <<>> = {}
  OBVIOUS
<1>3. ToSet(<<e>>) = {e} /\ ToSet(<<>>) = {}
  BY <1>1, <1>2 DEF ToSet
<1>4. CASE c = TRUE
  BY <1>1, <1>3, <1>4 DEF If
<1>5. CASE c = FALSE
  BY <1>2, <1>3, <1>5 DEF If
<1>6. QED
  BY <1>4, <1>5

-----------------------------------------------------------------------------
(* The conversation. *)

\* What a Workflow Turn is told with.
Entries ==
    [kind : {"deliverable_ready", "revision_completed", "review", "task_completed", "failure"},
     task : {0} \cup Ids, number : {0}, verdict : Verdicts, review : Verdicts]

ToldOf(t, verdict, review) == [About("review", t) EXCEPT !.verdict = verdict, !.review = review]

LEMMA AboutTyped ==
    ASSUME NEW t \in Ids, NEW v \in Verdicts, NEW w \in Verdicts
    PROVE  /\ About("deliverable_ready", t) \in Entries /\ About("revision_completed", t) \in Entries
           /\ About("task_completed", t) \in Entries /\ Entry("failure") \in Entries
           /\ ToldOf(t, v, w) \in Entries
           /\ About("deliverable_ready", t).kind # "review" /\ About("revision_completed", t).kind # "review"
           /\ About("task_completed", t).kind # "review" /\ Entry("failure").kind # "review"
           /\ ToldOf(t, v, w).task = t
           /\ ToldOf(t, v, w).verdict = v
           /\ ToldOf(t, v, w).review = w
BY DEF ToldOf, About, Entry, Entries, Verdicts

\* What is told of one Task.
LEMMA TaskEntries ==
    ASSUME WorldOfWork, NEW e \in Evidences
    PROVE  /\ WorkflowTaskConversationEntries(e) \in Seq(Entries)
           /\ \A x \in ToSet(WorkflowTaskConversationEntries(e)) : x.kind = "review" =>
                 /\ e.verdict # "none"
                 /\ x.task = e.task /\ x.verdict = e.verdict /\ x.review = tasks[e.task].verdict
           /\ tasks[e.task].saved =>
                 About("deliverable_ready", e.task) \in ToSet(WorkflowTaskConversationEntries(e))
           /\ tasks[e.task].status = "completed" =>
                 About("task_completed", e.task) \in ToSet(WorkflowTaskConversationEntries(e))
<1>1. PICK t \in Ids, v \in Verdicts, w \in Verdicts : t = e.task /\ v = e.verdict /\ w = tasks[t].verdict
  BY DEF Evidences, WorldOfWork, TaskRecords
<1>2. PICK p, q, r, u \in BOOLEAN : /\ p = tasks[t].saved /\ q = e.targeted /\ r = (v # "none")
                                    /\ u = (tasks[t].status = "completed")
  BY <1>1 DEF Evidences, WorldOfWork, TaskRecords
<1> DEFINE ready == About("deliverable_ready", t)
           revised == About("revision_completed", t)
           told == ToldOf(t, v, w)
           done == About("task_completed", t)
<1>3. /\ ready \in Entries /\ revised \in Entries /\ told \in Entries /\ done \in Entries
      /\ ready.kind # "review" /\ revised.kind # "review" /\ done.kind # "review"
      /\ told.task = t /\ told.verdict = v /\ told.review = w
  BY <1>1, AboutTyped
<1>4. WorkflowTaskConversationEntries(e) = If(p, ready) \o If(q, revised) \o If(r, told) \o If(u, done)
  BY <1>1, <1>2 DEF WorkflowTaskConversationEntries, ToldOf
<1> HIDE DEF ready, revised, told, done
<1>5. PICK a \in Seq(Entries) : a = If(p, ready) /\ ToSet(a) = IF p THEN {ready} ELSE {}
  BY <1>3, IfElements
<1>6. PICK b \in Seq(Entries) : b = If(q, revised) /\ ToSet(b) = IF q THEN {revised} ELSE {}
  BY <1>3, IfElements
<1>7. PICK c \in Seq(Entries) : c = If(r, told) /\ ToSet(c) = IF r THEN {told} ELSE {}
  BY <1>3, IfElements
<1>8. PICK d \in Seq(Entries) : d = If(u, done) /\ ToSet(d) = IF u THEN {done} ELSE {}
  BY <1>3, IfElements
<1>9. PICK ab \in Seq(Entries) : ab = a \o b /\ ToSet(ab) = ToSet(a) \cup ToSet(b)
  BY JoinedElements, ZenonT(60)
<1>10. PICK abc \in Seq(Entries) : abc = ab \o c /\ ToSet(abc) = ToSet(ab) \cup ToSet(c)
  BY JoinedElements, ZenonT(60)
<1>11. PICK abcd \in Seq(Entries) : abcd = abc \o d /\ ToSet(abcd) = ToSet(abc) \cup ToSet(d)
  BY JoinedElements, ZenonT(60)
<1>12. abcd = WorkflowTaskConversationEntries(e)
  BY <1>4, <1>5, <1>6, <1>7, <1>8, <1>9, <1>10, <1>11
<1>13. ToSet(abcd) = ToSet(a) \cup ToSet(b) \cup ToSet(c) \cup ToSet(d)
  BY <1>9, <1>10, <1>11
<1>14. ASSUME NEW x \in ToSet(abcd), x.kind = "review"
       PROVE  r /\ x = told
  <2>1. x \notin ToSet(a) /\ x \notin ToSet(b) /\ x \notin ToSet(d)
    BY <1>3, <1>5, <1>6, <1>8, <1>14
  <2>2. x \in ToSet(c)
    BY <1>13, <1>14, <2>1
  <2>3. QED
    BY <1>7, <2>2
<1>15. /\ p => ready \in ToSet(abcd)
       /\ u => done \in ToSet(abcd)
  BY <1>5, <1>8, <1>13
<1>16. /\ \A x \in ToSet(abcd) : x.kind = "review" =>
             e.verdict # "none" /\ x.task = e.task /\ x.verdict = e.verdict /\ x.review = tasks[e.task].verdict
       /\ tasks[e.task].saved => About("deliverable_ready", e.task) \in ToSet(abcd)
       /\ tasks[e.task].status = "completed" => About("task_completed", e.task) \in ToSet(abcd)
  BY <1>1, <1>2, <1>3, <1>14, <1>15 DEF ready, done
<1>17. QED
  BY <1>12, <1>16

\* What is told of a Turn without Workflow evidence tells of no Review.
LEMMA OtherEntries ==
    ASSUME NEW turns \in Seq(Turned), NEW i \in DOMAIN turns, turns[i].kind # "workflow_recorded",
           NEW e \in ToSet(TurnEntries(turns, i))
    PROVE  e.kind # "review"
<1> DEFINE turn == turns[i]
<1>1. /\ \A n : Question(n).kind = "clarification_requested"
      /\ \A k : Entry(k).kind = k
      /\ \A k, n : About(k, n).kind = k
  BY DEF Question, About, Entry
<1>2. turn \in Turned /\ turn.answers \in Nat
  <2>1. turn \in Turned
    OBVIOUS
  <2>2. QED
    BY <2>1 DEF Turned, Fields
<1>3. ASSUME NEW x, NEW s, s = <<x>> \/ s = <<>>, e \in ToSet(s), x.kind # "review" PROVE e.kind # "review"
  BY <1>3 DEF ToSet
<1>4. CASE turn.kind = "plan_generated"
  <2>1. TurnEntries(turns, i) = <<Question(1)>> \/ TurnEntries(turns, i) = <<>>
    BY <1>4, Zenon DEF TurnEntries, ClarificationRequestedEntries, If
  <2>2. QED
    BY <1>1, <1>3, <2>1
<1>5. CASE turn.kind = "clarification_answered"
  <2> DEFINE s == [n \in 1 .. turn.answers |-> Entry("ceo_clarification_answer")]
             p == LatestPlanBefore(turns, i)
             answeredThrough == AnswersIn(turns, p + 1, i)
             x == Question(answeredThrough + 1)
             u == If(p > 0 /\ answeredThrough < turns[p].plan.questions, x)
             S == {Entry("ceo_clarification_answer"), x}
  <2>1. TurnEntries(turns, i) = s \o u
    BY <1>5 DEF TurnEntries, ClarificationAnswerEntries
  <2>2. x.kind # "review" /\ Entry("ceo_clarification_answer").kind # "review"
    BY <1>1
  <2> HIDE DEF x, answeredThrough, p
  <2>3. s \in Seq(S) /\ ToSet(s) \subseteq {Entry("ceo_clarification_answer")}
    BY <1>2, SMTT(40) DEF ToSet
  <2>4. (u = <<x>> \/ u = <<>>) /\ u \in Seq(S)
    <3>1. u = <<x>> \/ u = <<>>
      BY Zenon DEF If
    <3>2. <<x>> \in Seq(S) /\ <<>> \in Seq(S)
      OBVIOUS
    <3> HIDE DEF u, S
    <3>3. QED
      BY <3>1, <3>2
  <2>5. ToSet(s \o u) = ToSet(s) \cup ToSet(u)
    <3> HIDE DEF s, u, S
    <3> QED BY <2>3, <2>4, JoinedElements
  <2>6. CASE e \in ToSet(u)
    BY <1>3, <2>2, <2>4, <2>6
  <2>7. CASE e \in ToSet(s)
    BY <2>2, <2>3, <2>7
  <2>8. QED
    BY <2>1, <2>5, <2>6, <2>7
<1>6. CASE turn.kind = "plan_applied"
  <2> DEFINE n == turns[LatestPlanBefore(turns, i)].plan.tasks
             s == [t \in 1 .. n |-> About("task_assigned", t)]
  <2>1. TurnEntries(turns, i) = s
    BY <1>6 DEF TurnEntries, TaskAssignedEntries
  <2> HIDE DEF n
  <2>2. PICK t \in 1 .. n : e = About("task_assigned", t)
    BY <2>1 DEF ToSet
  <2>3. QED
    BY <1>1, <2>2
<1>7. CASE turn.kind = "action_recorded"
  <2>1. TurnEntries(turns, i) = <<Entry("failure")>> \/ TurnEntries(turns, i) = <<>>
    BY <1>7 DEF TurnEntries, If
  <2>2. QED
    BY <1>1, <1>3, <2>1
<1>8. CASE turn.kind \notin {"plan_generated", "clarification_answered", "plan_applied", "workflow_recorded",
                             "action_recorded"}
  <2>1. TurnEntries(turns, i) = <<>>
    BY <1>8 DEF TurnEntries
  <2>2. QED
    BY <2>1 DEF ToSet
<1>9. QED
  BY <1>4, <1>5, <1>6, <1>7, <1>8

LEMMA VerdictsRight == WorkInv => VerdictIsTheReviews
<1>1. SUFFICES ASSUME WorkInv, NEW i \in DOMAIN stored.turns,
                      NEW e \in ToSet(TurnEntries(stored.turns, i)), e.kind = "review"
               PROVE  /\ e.verdict = e.review \/ Entry("failure") \in ToSet(TurnEntries(stored.turns, i))
                      /\ About("deliverable_ready", e.task) \in ToSet(TurnEntries(stored.turns, i))
                      /\ About("task_completed", e.task) \in ToSet(TurnEntries(stored.turns, i))
  BY Zenon DEF VerdictIsTheReviews
<1> DEFINE turn == stored.turns[i]
           shown == ToSet(TurnEntries(stored.turns, i))
<1>2. WorldOfWork /\ Recorded(stored) /\ stored.turns \in Seq(Turned)
  BY <1>1 DEF WorkInv, Recorded, Records
<1>3. turn.kind = "workflow_recorded"
  BY <1>1, <1>2, OtherEntries
<1>4. TurnTold(turn)
  BY <1>1, <1>3 DEF WorkInv, ReviewsTold
<1>5. PICK c \in Commands : c = turn.by
  BY <1>1, <1>2, TurnCommands
<1>6. PICK w \in Seq(Evidences) : w = worked[c]
  BY <1>2, SMTT(40) DEF WorldOfWork
<1> DEFINE ss == [j \in DOMAIN w |-> WorkflowTaskConversationEntries(w[j])]
           f == If(turn.status \in Failures, Entry("failure"))
<1>7. TurnEntries(stored.turns, i) = FlattenSeq(ss) \o f
  BY <1>3, <1>5, <1>6 DEF TurnEntries
<1>8. ASSUME NEW j \in DOMAIN w PROVE WorkflowTaskConversationEntries(w[j]) \in Seq(Entries)
  BY <1>2, <1>8, TaskEntries
<1>9. ss \in Seq(Seq(Entries)) /\ DOMAIN ss = DOMAIN w
  BY <1>8
<1>10. /\ FlattenSeq(ss) \in Seq(Entries)
       /\ \A x : x \in ToSet(FlattenSeq(ss)) <=> \E j \in DOMAIN ss : x \in ToSet(ss[j])
  <2> HIDE DEF ss
  <2> QED BY <1>9, FlattenedElements
<1>11. /\ f \in Seq(Entries) /\ Entry("failure").kind # "review"
       /\ ToSet(f) = IF turn.status \in Failures THEN {Entry("failure")} ELSE {}
  <2>1. Entry("failure") \in Entries /\ Entry("failure").kind # "review"
    BY DEF Entry, Entries, Verdicts
  <2>2. PICK x \in Entries : x = Entry("failure")
    BY <2>1
  <2>3. /\ If(TRUE, x) \in Seq(Entries) /\ ToSet(If(TRUE, x)) = {x}
        /\ If(FALSE, x) \in Seq(Entries) /\ ToSet(If(FALSE, x)) = {}
    BY IfElements
  <2>4. f = IF turn.status \in Failures THEN If(TRUE, x) ELSE If(FALSE, x)
    BY <2>2 DEF If
  <2> HIDE DEF f
  <2>5. QED
    BY <2>1, <2>2, <2>3, <2>4
<1>12. shown = ToSet(FlattenSeq(ss)) \cup ToSet(f)
  <2> HIDE DEF ss, f
  <2> QED BY <1>7, <1>10, <1>11, JoinedElements
<1>13. e \in ToSet(FlattenSeq(ss))
  BY <1>1, <1>11, <1>12
<1>14. PICK j \in DOMAIN w : e \in ToSet(WorkflowTaskConversationEntries(w[j]))
  BY <1>9, <1>10, <1>13
<1>15. PICK a \in Evidences : a = w[j]
  OBVIOUS
<1>16. RightlyTold(a, turn.status \in Failures)
  BY <1>4, <1>5, <1>6, <1>14, <1>15 DEF TurnTold
<1>17. a.verdict # "none" /\ e.task = a.task /\ e.verdict = a.verdict /\ e.review = tasks[a.task].verdict
  BY <1>1, <1>2, <1>14, <1>15, TaskEntries
<1>18. /\ tasks[a.task].status = "completed" /\ tasks[a.task].saved
       /\ a.verdict = tasks[a.task].verdict \/ turn.status \in Failures
  BY <1>16, <1>17 DEF RightlyTold
<1>19. ToSet(WorkflowTaskConversationEntries(a)) \subseteq shown
  <2>1. ss[j] = WorkflowTaskConversationEntries(a) /\ j \in DOMAIN ss
    BY <1>15
  <2> HIDE DEF ss
  <2>2. QED
    BY <1>10, <1>12, <2>1
<1>20. About("deliverable_ready", a.task) \in shown /\ About("task_completed", a.task) \in shown
  BY <1>2, <1>18, <1>19, TaskEntries
<1>21. e.verdict = e.review \/ Entry("failure") \in shown
  BY <1>11, <1>12, <1>17, <1>18
<1>22. QED
  BY <1>17, <1>20, <1>21

\* What the conversation tells of a Review is what the Review in the Vault says,
\* or the same Turn tells of a failure; the reviewed work is there and completed.
THEOREM ConversationIsRight == WorkSpec => []VerdictIsTheReviews
BY WorkInvariance, VerdictsRight, PTL

-----------------------------------------------------------------------------
(* The Work Report. *)

\* The report is about the Tasks that some Turn lists.
LEMMA ReportedIsListed ==
    ASSUME WorldOfWork, Recorded(stored), NEW t
    PROVE  t \in Reported <=> Listed(t)
<1> DEFINE turns == stored.turns
           part(i) == IF turns[i].kind = "workflow_recorded" THEN worked[turns[i].by] ELSE <<>>
           ss == [i \in DOMAIN turns |-> part(i)]
<1>1. turns \in Seq(Turned)
  BY DEF Recorded, Records
<1>2. ASSUME NEW i \in DOMAIN turns PROVE part(i) \in Seq(Evidences)
  <2>1. <<>> \in Seq(Evidences)
    OBVIOUS
  <2>2. turns[i].by \in Commands
    BY <1>2, TurnCommands
  <2>3. worked[turns[i].by] \in Seq(Evidences)
    BY <2>2 DEF WorldOfWork
  <2>4. QED
    BY <2>1, <2>3
<1>3. ss \in Seq(Seq(Evidences)) /\ DOMAIN ss = DOMAIN turns /\ \A i \in DOMAIN turns : ss[i] = part(i)
  <2> HIDE DEF part
  <2>1. DOMAIN turns = 1 .. Len(turns) /\ Len(turns) \in Nat
    BY <1>1
  <2> HIDE DEF turns
  <2>2. QED
    BY <1>2, <2>1
<1>4. Evidence = FlattenSeq(ss)
  BY DEF Evidence
<1> HIDE DEF ss
<1>5. PICK q \in Seq(Seq(Evidences)) : q = ss
  BY <1>3
<1>6. \A e : e \in ToSet(Evidence) <=> \E j \in DOMAIN q : e \in ToSet(q[j])
  BY <1>4, <1>5, FlattenedElements
<1>7. t \in Reported <=> \E e \in ToSet(Evidence) : e.task = t
  BY DEF Reported, ToSet
<1>8. ASSUME NEW i \in DOMAIN turns, NEW e
      PROVE  e \in ToSet(part(i)) <=> /\ turns[i].kind = "workflow_recorded"
                                      /\ \E j \in DOMAIN worked[turns[i].by] : e = worked[turns[i].by][j]
  <2>1. CASE turns[i].kind = "workflow_recorded"
    BY <2>1 DEF ToSet
  <2>2. CASE turns[i].kind # "workflow_recorded"
    <3>1. DOMAIN <<>> = {}
      OBVIOUS
    <3>2. QED
      BY <2>2, <3>1 DEF ToSet
  <2>3. QED
    BY <2>1, <2>2
<1> HIDE DEF part
<1>9. ASSUME t \in Reported PROVE Listed(t)
  <2>1. PICK e \in ToSet(Evidence) : e.task = t
    BY <1>7, <1>9
  <2>2. PICK i \in DOMAIN turns : e \in ToSet(part(i))
    BY <1>3, <1>5, <1>6, <2>1
  <2>3. QED
    BY <1>8, <2>1, <2>2, SMTT(40) DEF Listed
<1>10. ASSUME Listed(t) PROVE t \in Reported
  <2>1. PICK i \in DOMAIN turns : /\ turns[i].kind = "workflow_recorded"
                                  /\ \E j \in DOMAIN worked[turns[i].by] : worked[turns[i].by][j].task = t
    BY <1>10 DEF Listed
  <2>2. PICK e : e \in ToSet(part(i)) /\ e.task = t
    BY <1>8, <2>1
  <2>3. e \in ToSet(Evidence)
    BY <1>3, <1>5, <1>6, <2>2
  <2>4. QED
    BY <1>7, <2>2, <2>3
<1>11. QED
  BY <1>9, <1>10

\* Nothing that wants recovery: nothing failed.
LEMMA NothingFailed ==
    ASSUME Recorded(stored), RecoveryAttention = 0
    PROVE  ~HasFailed
<1> DEFINE D == {i \in DOMAIN stored.turns : stored.turns[i].status \in Failures \cup {"action_failed"}}
<1>1. stored.turns \in Seq(Turned)
  BY DEF Recorded, Records
<1>2. DOMAIN stored.turns = 1 .. Len(stored.turns) /\ Len(stored.turns) \in Nat
  BY <1>1
<1>3. IsFiniteSet(D)
  <2>1. IsFiniteSet(1 .. Len(stored.turns)) /\ D \subseteq 1 .. Len(stored.turns)
    BY <1>2, FS_Interval
  <2> HIDE DEF D
  <2>2. QED
    BY <2>1, FS_Subset
<1>4. Cardinality(D) = 0
  BY DEF RecoveryAttention
<1>5. D = {}
  <2> HIDE DEF D
  <2> QED BY <1>3, <1>4, FS_EmptySet
<1>6. QED
  BY <1>5 DEF HasFailed

\* The Task that a Task revises, if it does, is an earlier one.
Descends == \A t \in Ids : tasks[t].source # 0 => tasks[t].source \in Ids /\ tasks[t].source < t

Roots(n, f) == f = [u \in 1 .. n |-> IF tasks[u].source = 0 THEN u ELSE f[tasks[u].source]]

LEMMA RootsExist ==
    ASSUME WorldOfWork, Descends
    PROVE  \E f : Roots(MaxTaskId, f)
<1> DEFINE Wrong == {k \in 0 .. MaxTaskId : ~ \E f : Roots(k, f)}
<1>1. MaxTaskId \in Nat /\ Ids = 1 .. MaxTaskId
  BY SessionWorkAssumption DEF Ids
<1>2. SUFFICES ASSUME Wrong # {} PROVE FALSE
  <2>1. MaxTaskId \in 0 .. MaxTaskId
    BY <1>1
  <2>2. Wrong = {} => \E f : Roots(MaxTaskId, f)
    BY <2>1, Zenon
  <2>3. QED
    BY <1>2, <2>2
<1>3. PICK k \in Wrong : \A y \in Wrong : k <= y
  <2>1. \E x \in Wrong : \A y \in Wrong : x <= y
    <3>1. PICK W : W = Wrong
      OBVIOUS
    <3>2. W \in SUBSET (0 .. MaxTaskId) /\ W # {}
      BY <1>2, <3>1
    <3>3. \E x \in W : \A y \in W : x <= y
      BY <1>1, <3>2, LeastIndex
    <3>4. QED
      BY <3>1, <3>3
  <2>2. QED
    BY <2>1
<1>4. k \in 0 .. MaxTaskId /\ \A f : ~ Roots(k, f)
  BY <1>3
<1>5. CASE k = 0
  <2> DEFINE g == [u \in 1 .. 0 |-> u]
  <2>1. 1 .. 0 = {}
    OBVIOUS
  <2>2. Roots(0, g)
    BY <2>1 DEF Roots
  <2>3. QED
    BY <1>4, <1>5, <2>2
<1>6. CASE k # 0
  <2>1. k \in 1 .. MaxTaskId /\ k - 1 \in 0 .. MaxTaskId /\ ~ (k <= k - 1) /\ k \in Nat
    BY <1>1, <1>4, <1>6
  <2>2. k - 1 \notin Wrong
    BY <1>3, <2>1
  <2>3. PICK f : Roots(k - 1, f)
    BY <2>1, <2>2
  <2> DEFINE g == [u \in 1 .. k |-> IF tasks[u].source = 0 THEN u ELSE f[tasks[u].source]]
  <2>4. ASSUME NEW u \in 1 .. (k - 1) PROVE g[u] = f[u]
    <3>1. u \in 1 .. k
      BY <2>1
    <3>2. f[u] = IF tasks[u].source = 0 THEN u ELSE f[tasks[u].source]
      BY <2>3, <2>4 DEF Roots
    <3>3. g[u] = IF tasks[u].source = 0 THEN u ELSE f[tasks[u].source]
      BY <3>1
    <3>4. QED
      BY <3>2, <3>3
  <2>5. ASSUME NEW u \in 1 .. k
        PROVE  g[u] = IF tasks[u].source = 0 THEN u ELSE g[tasks[u].source]
    <3>1. CASE tasks[u].source = 0
      BY <2>5, <3>1
    <3>2. CASE tasks[u].source # 0
      <4>1. PICK v : v = tasks[u].source
        OBVIOUS
      <4>2. v \in 1 .. MaxTaskId /\ v < u
        BY <1>1, <2>1, <2>5, <3>2, <4>1 DEF Descends
      <4>3. v \in 1 .. (k - 1)
        BY <1>1, <2>1, <2>5, <4>2
      <4>4. g[v] = f[v] /\ g[u] = f[v]
        BY <2>4, <2>5, <3>2, <4>1, <4>3
      <4> HIDE DEF g
      <4>5. QED
        BY <3>2, <4>1, <4>4
    <3>3. QED
      BY <3>1, <3>2
  <2>6. g = [u \in 1 .. k |-> g[u]]
    OBVIOUS
  <2>7. Roots(k, g)
    <3> HIDE DEF g
    <3>1. [u \in 1 .. k |-> g[u]] = [u \in 1 .. k |-> IF tasks[u].source = 0 THEN u ELSE g[tasks[u].source]]
      BY <2>5
    <3>2. QED
      BY <2>6, <3>1 DEF Roots
  <2>8. QED
    BY <1>4, <2>7
<1>7. QED
  BY <1>5, <1>6

\* A Revision has the root of the Task that it revises.
LEMMA RootOfRevision ==
    ASSUME WorldOfWork, Descends, NEW r \in Ids, tasks[r].source # 0
    PROVE  Root(r) = Root(tasks[r].source)
<1> DEFINE root == CHOOSE f : f = [u \in Ids |-> IF tasks[u].source = 0 THEN u ELSE f[tasks[u].source]]
<1>1. root = [u \in Ids |-> IF tasks[u].source = 0 THEN u ELSE root[tasks[u].source]]
  <2>1. \E f : f = [u \in Ids |-> IF tasks[u].source = 0 THEN u ELSE f[tasks[u].source]]
    BY RootsExist DEF Roots, Ids
  <2>2. QED
    BY <2>1
<1>2. \A u \in Ids : Root(u) = root[u]
  BY DEF Root
<1> HIDE DEF root
<1>3. tasks[r].source \in Ids
  BY DEF Descends
<1>4. root[r] = root[tasks[r].source]
  BY <1>1
<1>5. QED
  BY <1>2, <1>3, <1>4

LEMMA DoneWhenNothingNeeded == WorkInv => NoActionMeansDone
<1>1. SUFFICES ASSUME WorkInv, NoActionNeeded, ~lost, NEW t \in 1 .. CurrentPlan(stored).tasks
               PROVE  ApprovedAtLast(t)
  BY DEF NoActionMeansDone
<1>2. WorldOfWork /\ Recorded(stored) /\ RunStands /\ TasksStand
  BY <1>1 DEF WorkInv
<1>3. stored.state \notin Before /\ stored.state \in Ended /\ stored.state # "ready_to_execute"
  BY <1>1 DEF NoActionNeeded, Before, Ended
<1>4. run = NoRun /\ run.err = "none" /\ DOMAIN run.list = {}
  BY <1>2, <1>3, NoRunTyped DEF RunStands
<1>5. t \in Rows /\ Rows = Having("completed") /\ Rows \subseteq Ids
  BY <1>1, <1>2, <1>3 DEF TasksStand, Rows
<1>6. ~HasFailed
  BY <1>1, <1>2, NothingFailed DEF NoActionNeeded, FullyVerified
<1>7. Descends
  BY <1>2 DEF TasksStand, Descends, Rows
<1>8. ASSUME NEW r \in Ids, tasks[r].source # 0
      PROVE  r \in Rows /\ tasks[r].source \in Rows /\ tasks[r].source < r
  BY <1>1, <1>2, <1>4, <1>6, <1>8 DEF TasksStand
<1>9. ASSUME NEW r \in Rows
      PROVE  tasks[r].verdict = "approve" \/ RevisionsOf(r) # {}
  <2>1. r \in Ids /\ tasks[r].status = "completed"
    BY <1>5, <1>9 DEF Having
  <2>2. Listed(r)
    BY <1>1, <1>2, <1>4, <2>1 DEF TasksStand, InRun
  <2>3. Verified(r)
    BY <1>1, <1>2, <2>2, ReportedIsListed DEF NoActionNeeded, FullyVerified
  <2>4. QED
    BY <2>3 DEF Verified, IntentCommitted
<1> DEFINE T == {r \in Rows : r >= t /\ Root(r) = Root(t)}
<1>10. MaxTaskId \in Nat /\ Ids = 1 .. MaxTaskId /\ t \in Ids /\ t >= t
  <2>1. MaxTaskId \in Nat /\ Ids = 1 .. MaxTaskId /\ t \in Ids
    BY <1>5, SessionWorkAssumption DEF Ids
  <2>2. QED
    BY <2>1
<1>11. PICK S : S = T
  OBVIOUS
<1>12. S \in SUBSET (1 .. MaxTaskId) /\ S # {}
  BY <1>5, <1>10, <1>11
<1>13. PICK m \in S : \A y \in S : y <= m
  BY <1>10, <1>12, GreatestIndex
<1>14. m \in Rows /\ m \in Ids /\ m >= t /\ Root(m) = Root(t)
  BY <1>5, <1>11
<1>15. CASE tasks[m].verdict = "approve"
  BY <1>14, <1>15 DEF ApprovedAtLast
<1>16. CASE RevisionsOf(m) # {}
  <2>1. PICK r \in Ids : tasks[r].source = m
    BY <1>16 DEF RevisionsOf
  <2>2. m # 0 /\ m \in Nat /\ r \in Nat /\ t \in Nat
    BY <1>10, <1>14, <2>1
  <2>3. r \in Rows /\ m < r
    BY <1>8, <2>1, <2>2
  <2>4. Root(r) = Root(m)
    BY <1>2, <1>7, <2>1, <2>2, RootOfRevision
  <2>5. r \in T
    BY <1>14, <2>2, <2>3, <2>4
  <2>6. r <= m
    BY <1>11, <1>13, <2>5
  <2>7. QED
    BY <2>2, <2>3, <2>6
<1>17. QED
  BY <1>9, <1>14, <1>15, <1>16

\* When the Work Report says that no action is needed, every Task of the Plan
\* was approved, itself or its last Revision, unless a run went unrecorded.
THEOREM ReportIsRight == WorkSpec => []NoActionMeansDone
BY WorkInvariance, DoneWhenNothingNeeded, PTL
=============================================================================
