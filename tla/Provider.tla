------------------------------ MODULE Provider ------------------------------
(***************************************************************************)
(* One call to the model Provider, from the HTTP answer to the code that   *)
(* the Command Ledger keeps: the Claude Runner (adapter/claude/runner.go,  *)
(* errors.go), the three services that call a Runner (WorkerService with   *)
(* ExecutionService, ReviewService, CEOPlanService), the parser of a       *)
(* Review decision (review/result.go) and the failure envelopes of their   *)
(* Commands (process/interaction.go, review.go, execution.go,              *)
(* failure/envelope.go).                                                   *)
(*                                                                         *)
(* No call is retried, so all of it is a function of what came back and of *)
(* the caller's own context at that moment: `own' is "live", "canceled" or *)
(* "deadline".  A text is one of a few shapes; what a well formed JSON     *)
(* text says is the answer's field `says'.                                 *)
(***************************************************************************)
EXTENDS Naturals, Sequences, FiniteSets, SequencesExt

-----------------------------------------------------------------------------
(***************************************************************************)
(* Runner.Run                                                              *)
(***************************************************************************)

\* What the transport's error chain can hold.
Causes == {"dns", "tls", "reset", "deadline", "timeout", "dial", "other"}

\* How the Provider's own words for the end of a message are understood.
StopReason(raw) ==
  CASE raw = "end_turn"      -> "completed"
    [] raw = "max_tokens"    -> "max_tokens"
    [] raw = "stop_sequence" -> "stop_sequence"
    [] OTHER                 -> "unknown"

\* What the error type in the body says comes before the status.
ProviderCategory(status, type) ==
  IF type = "authentication_error" THEN "authentication_required"
  ELSE IF type = "billing_error" THEN "billing_required"
  ELSE IF type = "permission_error" THEN "permission_denied"
  ELSE IF type \in {"invalid_request_error", "not_found_error", "request_too_large"} THEN "invalid_provider_request"
  ELSE IF type = "rate_limit_error" THEN "rate_limited"
  ELSE IF type \in {"api_error", "timeout_error", "overloaded_error"} THEN "provider_unavailable"
  ELSE IF status = 401 THEN "authentication_required"
  ELSE IF status = 402 THEN "billing_required"
  ELSE IF status = 403 THEN "permission_denied"
  ELSE IF status \in {400, 404, 413} THEN "invalid_provider_request"
  ELSE IF status = 429 THEN "rate_limited"
  ELSE IF status >= 500 THEN "provider_unavailable"
  ELSE "provider_failure"

TransportCategory(cause) ==
  CASE cause = "dns"                      -> "provider_dns_failed"
    [] cause = "tls"                      -> "provider_tls_failed"
    [] cause = "reset"                    -> "provider_connection_reset"
    [] cause \in {"deadline", "timeout"}  -> "provider_timeout"
    [] cause = "dial"                     -> "provider_connect_failed"
    [] OTHER                              -> ""

\* A failed call: "" for a category means that the caller's own context
\* ended it, and `wraps' what errors.Is still finds in the chain.
Failed(category, sub, wraps) ==
  [ok |-> FALSE, category |-> category, sub |-> sub, wraps |-> wraps,
   stop |-> "unknown", content |-> ""]

Succeeded(stop, content) ==
  [ok |-> TRUE, category |-> "", sub |-> "", wraps |-> "", stop |-> stop, content |-> content]

\* What is wrong with the blocks of a constrained answer; "" if nothing is.
ShapeFault(blocks) ==
  LET texts == SelectSeq(blocks, LAMBDA b : b.type = "text") IN
  IF \E i \in DOMAIN blocks : blocks[i].type \notin {"text", "thinking", "redacted_thinking"}
  THEN "unexpected_content_block"
  ELSE IF Len(texts) # 1 THEN "text_block_count_invalid"
  ELSE IF texts[1].text = "" THEN "empty_text"
  ELSE IF texts[1].text = "prose" THEN "invalid_json"
  ELSE IF texts[1].text = "json json" THEN "multiple_json_documents"
  ELSE IF texts[1].text = "json prose" THEN "trailing_json_content"
  ELSE ""

\* The text of an unconstrained answer: the text blocks that are not blank.
Markdown(blocks) ==
  LET texts == SelectSeq(blocks, LAMBDA b : b.type = "text" /\ b.text # "") IN
  IF texts = <<>> THEN "" ELSE Last(texts).text

\* Mutation: the blocks are looked at first.
ReadBlocksFirst(structured, answer) ==
  LET stop    == StopReason(answer.stop)
      fault   == ShapeFault(answer.blocks)
      content == IF structured THEN "json" ELSE Markdown(answer.blocks)
  IN IF answer.stop = "refusal" THEN Failed("provider_refusal", "", "")
     ELSE IF structured /\ fault # "" THEN Failed("structured_output_invalid", fault, "")
     ELSE IF content = "" \/ ~answer.model THEN Failed("invalid_provider_response", "", "")
     ELSE Succeeded(stop, content)

\* The answer itself, once its JSON is decoded.  Whether it was cut off is
\* looked at before any of its blocks is.
ReadMessage(structured, answer) ==
  LET stop    == StopReason(answer.stop)
      fault   == ShapeFault(answer.blocks)
      content == IF ~structured THEN Markdown(answer.blocks)
                 ELSE IF stop = "max_tokens" THEN "cut off" ELSE "json"
  IN IF answer.stop = "refusal" THEN Failed("provider_refusal", "", "")
     ELSE IF structured /\ stop # "max_tokens" /\ fault # "" THEN Failed("structured_output_invalid", fault, "")
     ELSE IF content = "" \/ ~answer.model THEN Failed("invalid_provider_response", "", "")
     ELSE Succeeded(stop, content)

Run(own, structured, answer) ==
  IF answer.kind = "error" /\ own # "live" THEN Failed("", "", own)
  ELSE IF answer.kind = "error" THEN Failed("provider_transport", TransportCategory(answer.cause),
                                            IF answer.cause = "deadline" THEN "deadline" ELSE "")
  ELSE IF answer.kind = "status" THEN Failed(ProviderCategory(answer.status, answer.type), "", "")
  ELSE IF answer.kind = "garbled" THEN Failed("invalid_provider_response", "", IF own = "live" THEN "" ELSE own)
  ELSE ReadMessage(structured, answer)

-----------------------------------------------------------------------------
(***************************************************************************)
(* The services                                                            *)
(***************************************************************************)

Ended(context) == IF context = "deadline" THEN "TIMEOUT" ELSE "CANCELED"

\* WorkerService and ReviewService: the caller's context first, then any
\* deadline or cancellation that the Runner's error wraps.
WorkerKind(own, result) ==
  IF own # "live" THEN Ended(own)
  ELSE IF result.wraps # "" THEN Ended(result.wraps)
  ELSE "RUNNER_FAILED"

\* CEOPlanService: the caller's context and nothing else.
PlanStage(own) ==
  CASE own = "deadline" -> "ceo_plan_timeout"
    [] own = "canceled" -> "ceo_plan_canceled"
    [] OTHER            -> "ceo_plan_runner_failed"

\* ExecutionService: an answer that only repeats the title is no work, and
\* one that was cut off is not finished.
ExecuteKind(own, answer) ==
  LET result == Run(own, FALSE, answer) IN
  IF ~result.ok THEN WorkerKind(own, result)
  ELSE IF result.content = "the title" THEN "WORKER_FAILED"
  ELSE IF result.stop = "max_tokens" THEN "OUTPUT_INCOMPLETE"
  ELSE "accepted"

\* ReviewService.Execute up to the decision.
ReviewKind(own, answer) ==
  LET result == Run(own, TRUE, answer) IN
  IF ~result.ok THEN WorkerKind(own, result)
  ELSE IF result.stop = "max_tokens" THEN "OUTPUT_INCOMPLETE"
  ELSE "accepted"

-----------------------------------------------------------------------------
(***************************************************************************)
(* The Review decision: verdict, issues and the fixed summary of the       *)
(* verdict, each in the few shapes that the parser tells apart.            *)
(***************************************************************************)

\* Letter case is the Provider's to choose.
Verdict(raw) ==
  CASE raw \in {"Approve", "approve"}                 -> "Approve"
    [] raw \in {"Request Changes", "request changes"} -> "Request Changes"
    [] OTHER                                          -> ""

SummaryOf(verdict) == IF verdict = "Approve" THEN "approved" ELSE "changes requested"

\* An issue: which of its fields is wrong, "" if none is.
IssueFault(issues) ==
  IF \E i \in DOMAIN issues : issues[i] # ""
  THEN LET first == CHOOSE i \in DOMAIN issues : issues[i] # "" /\ \A j \in 1 .. i - 1 : issues[j] = ""
       IN  issues[first]
  ELSE ""

DecisionFault(said) ==
  LET verdict == Verdict(said.verdict) IN
  IF said.unknown THEN "unknown_field"
  ELSE IF verdict = "" THEN "invalid_verdict"
  ELSE IF ~said.listed THEN "missing_required_field"
  ELSE IF verdict = "Approve" /\ Len(said.issues) > 0 THEN "approve_issues_forbidden"
  ELSE IF said.summary = "" THEN "missing_required_field"
  ELSE IF said.summary # SummaryOf(verdict) THEN "invalid_summary"
  ELSE IF IssueFault(said.issues) # "" THEN IssueFault(said.issues)
  ELSE IF verdict = "Request Changes" /\ said.issues = <<>> THEN "request_changes_issues_required"
  ELSE ""

-----------------------------------------------------------------------------
(***************************************************************************)
(* The codes the Commands record                                           *)
(***************************************************************************)

ProviderCode(category) ==
  CASE category = "authentication_required"  -> "PROVIDER_AUTHENTICATION_REQUIRED"
    [] category = "billing_required"         -> "PROVIDER_BILLING_REQUIRED"
    [] category = "permission_denied"        -> "PROVIDER_PERMISSION_DENIED"
    [] category = "invalid_provider_request" -> "PROVIDER_REQUEST_INVALID"
    [] category = "rate_limited"             -> "PROVIDER_RATE_LIMITED"
    [] category \in {"provider_unavailable", "provider_transport"} -> "PROVIDER_UNAVAILABLE"
    [] category \in {"invalid_provider_response", "structured_output_invalid"} -> "PROVIDER_RESPONSE_INVALID"
    [] category = "provider_refusal"         -> "PROVIDER_REFUSED"
    [] OTHER                                 -> "PROVIDER_FAILURE"

\* finishInteractionPlan: the stage of a truncated answer has its own code,
\* any other Provider failure that of its category.
PlanCode(stage, category) ==
  IF stage = "ceo_plan_output_incomplete" THEN "OUTPUT_INCOMPLETE"
  ELSE IF category = "" \/ ProviderCode(category) = "PROVIDER_FAILURE" THEN "INTERACTION_PLAN_FAILED"
  ELSE ProviderCode(category)

\* reviewFailureEnvelope: whatever the Runner's error says of the Provider
\* comes before the kind of the Worker error around it.  An error of the
\* caller's own context says nothing of the Provider, and one of saving the
\* Review in a context that ended is none of a Worker.
ReviewCode(own, answer) ==
  LET result == Run(own, TRUE, answer)
      kind   == ReviewKind(own, answer)
      told   == IF ~result.ok /\ own = "live" THEN result.category ELSE ""
  IN IF told # "" THEN ProviderCode(told)
     ELSE IF kind = "OUTPUT_INCOMPLETE" THEN "OUTPUT_INCOMPLETE"
     ELSE IF kind = "TIMEOUT" THEN "PROVIDER_UNAVAILABLE"
     ELSE IF kind = "CANCELED" THEN "REVIEW_EXECUTION_CANCELED"
     ELSE IF kind = "accepted" /\ DecisionFault(answer.says) # "" THEN "REVIEW_RESULT_INVALID"
     ELSE IF own # "live" THEN "REVIEW_EXECUTION_FAILED"
     ELSE ""

\* executionFailureEnvelope: the kind of the Execution error, which is
\* WORKER_FAILED for every Worker error but an ended context.  A Deliverable
\* is not saved in a context that ended, however good the answer.
ExecutionCode(own, answer) ==
  LET kind == ExecuteKind(own, answer) IN
  CASE kind \in {"TIMEOUT", "CANCELED", "OUTPUT_INCOMPLETE"} -> kind
    [] kind = "accepted" -> IF own = "live" THEN "" ELSE Ended(own)
    [] OTHER             -> "WORKER_FAILED"
=============================================================================
