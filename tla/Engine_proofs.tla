--------------------------- MODULE Engine_proofs ---------------------------
(***************************************************************************)
(* Proofs about the reference runtime's loop, for every configuration,     *)
(* every kind of exchange with a provider and every tool output: its state *)
(* is well typed, no limit is overrun, spending stops at the token budget, *)
(* failures are put down to the context or the transport as they should,   *)
(* the exit code agrees with the envelope and an output is that of a final *)
(* answer, and on either API's wire every tool call is answered, which     *)
(* takes induction over the messages.                                      *)
(***************************************************************************)
EXTENDS Engine, WellFoundedInduction, SequenceTheorems, TLAPS

-----------------------------------------------------------------------------
(* The inductive invariant *)

(* Turns and bytes stay within their limits; while a batch runs, the calls   *)
(* still to be made fit in what is left of the call limit, and a later turn  *)
(* is still possible.                                                        *)
TurnsFit == Within(config.turns, turns)

CallsFit ==
    /\ Within(config.calls, toolCalls)
    /\ pc = "tool" => Within(config.calls, toolCalls + Len(calls))
    /\ pc = "executing" =>
          calls # <<>> /\ Within(config.calls, toolCalls + Len(calls) - 1)

BytesFit ==
    /\ Within(config.total, totalToolOutputBytes)
    /\ \A i \in DOMAIN results : Within(config.result, results[i].length)

LaterTurn ==
    pc \in {"tool", "executing"} =>
        Below(config.turns, turns) /\ Below(config.tokens, consumedTokens)

(* The counter is the tokens measured, up to where it saturates; the loop    *)
(* only goes on within the budget, and a request out asks for what is left.  *)
CounterIsSpent == consumedTokens = IF spent < MaxInt THEN spent ELSE MaxInt

WithinBudget ==
    pc \notin {"finish", "write", "exited"} =>
        Within(config.tokens, consumedTokens)

AsksForTheRest ==
    pc = "waiting" => request.maxTokens = WireMaxTokens(config.api, RemainingTokenBudget)

(* Exit code 0 is a success with an output; only a success and a cleanup     *)
(* that failed have an output.                                               *)
ResultFits(r) ==
    /\ r.exit = 0 => r.outcome = "Succeeded" /\ r.output
    /\ r.output => r.outcome = "Succeeded" \/ r.code = "tool_cleanup_failed"

ResultInv == pc \in {"finish", "write", "exited"} => ResultFits(result)
NoResultYet == pc \notin {"finish", "write", "exited"} => result = NoResult
ToolsInv ==
    /\ pc \in {"load", "provider", "tools"} => executor = "none"
    /\ pc \in {"write", "exited"} => executor # "open"

(* The first n messages of a conversation: a message that makes tool calls   *)
(* is followed by their results, in order, and results follow such calls.    *)
Answered(messages, n) ==
    \A i \in 1..n :
        /\ messages[i].calls # <<>> =>
              /\ i + 1 <= Len(messages)
              /\ messages[i + 1].results = messages[i].calls
        /\ messages[i].results # <<>> =>
              /\ i > 1
              /\ messages[i - 1].calls # <<>>

(* The last message's calls are those with a result, then those to be run.   *)
BatchIs(last, done, open) ==
    /\ last.calls # <<>> /\ last.results = <<>>
    /\ Len(last.calls) = Len(done) + Len(open)
    /\ \A j \in 1..Len(done) : last.calls[j] = done[j].id
    /\ \A j \in 1..Len(open) : last.calls[Len(done) + j] = open[j]

(* Between batches every call is answered; within one, all but the last      *)
(* message's.                                                                *)
ConversationInv ==
    /\ pc \in {"load", "provider", "tools", "turn", "waiting"} =>
          Answered(conversation, Len(conversation))
    /\ pc \in {"batch", "tool", "executing"} =>
          /\ conversation # <<>>
          /\ Answered(conversation, Len(conversation) - 1)
          /\ BatchIs(conversation[Len(conversation)], results, calls)

LimitInv == TurnsFit /\ CallsFit /\ BytesFit /\ LaterTurn
TokenInv == CounterIsSpent /\ WithinBudget /\ AsksForTheRest
EndInv == ResultInv /\ NoResultYet /\ ToolsInv

Inv == TypeOK /\ LimitInv /\ TokenInv /\ EndInv /\ ConversationInv

-----------------------------------------------------------------------------
(* The operators of limits.go *)

(* What saturatingAdd returns: the sum, or the largest int where it ends.    *)
LEMMA SaturatingAddIs ==
  ASSUME NEW left \in 0..MaxInt, NEW right \in Nat
  PROVE  /\ SaturatingAdd(left, right) \in 0..MaxInt
         /\ SaturatingAdd(left, right) =
              IF left + right < MaxInt THEN left + right ELSE MaxInt
BY MaxIntAssumption DEF SaturatingAdd

(* The tokens measured of a valid usage are a natural number.                *)
LEMMA MeasuredIsNatural ==
  ASSUME NEW u \in UsageType, ValidUsage(u)
  PROVE  MeasuredTokens(u) \in Nat
<1>1. Reported(u.input) \in 0..MaxInt /\ Reported(u.output) \in Nat
  BY MaxIntAssumption DEF UsageType, Metrics, Counts, ValidUsage, Reported, Unreported
<1>2. SaturatingAdd(Reported(u.input), Reported(u.output)) \in Nat
  BY <1>1, SaturatingAddIs, MaxIntAssumption
<1>3. u.total \in Int
  BY MaxIntAssumption DEF UsageType, Metrics, Counts, Unreported
<1> QED BY <1>2, <1>3 DEF MeasuredTokens

(* Adding a valid usage to the total keeps every metric an int64.            *)
LEMMA AddMetricType ==
  ASSUME NEW total \in Metrics, NEW current \in Metrics, Reported(current) >= 0
  PROVE  AddMetric(total, current) \in Metrics
BY MaxIntAssumption DEF AddMetric, SaturatingAdd, Metrics, Counts, Reported, Unreported

(* The sum of two usages is one.                                           *)
LEMMA AddUsageType ==
  ASSUME NEW total \in UsageType, NEW u \in UsageType, ValidUsage(u)
  PROVE  AddUsage(total, u) \in UsageType
<1>1. /\ AddMetric(total.input, u.input) \in Metrics
      /\ AddMetric(total.output, u.output) \in Metrics
      /\ AddMetric(total.total, u.total) \in Metrics
      /\ AddMetric(total.reasoning, u.reasoning) \in Metrics
  BY AddMetricType DEF UsageType, ValidUsage
<1> QED BY <1>1 DEF AddUsage, UsageType

(* A bounded tool output is no longer than it may be.                        *)
LEMMA BoundLengthsFit ==
  ASSUME NEW output, output.length \in Nat, NEW maxBytes \in Nat,
         NEW length \in BoundLengths(output, maxBytes)
  PROVE  length \in Nat /\ length <= maxBytes
BY DEF BoundLengths, EmptyPartialBytes

(* The bytes one result may have fit the limit of one result and what is     *)
(* left of the limit of all of them (applyToolOutput).                       *)
LEMMA MaxResultBytesFit ==
  ASSUME NEW output, output.length \in Nat, config \in Configs,
         totalToolOutputBytes \in Nat, Within(config.total, totalToolOutputBytes)
  PROVE  /\ MaxResultBytes(output) \in Nat
         /\ Within(config.result, MaxResultBytes(output))
         /\ Within(config.total, totalToolOutputBytes + MaxResultBytes(output))
<1>1. config.result \in Nat /\ config.total \in Nat
  BY EngineAssumption
<1> QED BY <1>1 DEF MaxResultBytes, Within

-----------------------------------------------------------------------------
(* What the provider returns *)

(* A failed exchange has a code; only a request whose context has ended is   *)
(* called late, or canceled unless the transport said so                     *)
(* (normalizeRequestError).                                                  *)
LEMMA FailedExchange ==
  ASSUME NEW x \in Exchanges, ctx \in {"live", "canceled", "deadline"}, config \in Configs,
         ~Returned(x).ok
  PROVE  /\ Returned(x).code \in ExchangeCodes
         /\ Returned(x).retryable \in {"unset", "yes", "no"}
         /\ Returned(x).code = "deadline" => ctx = "deadline"
         /\ Returned(x).code = "canceled" =>
              ctx = "canceled" \/ (x.kind = "transport" /\ x.error = "canceled")
         /\ (x.kind = "transport" /\ x.error = "canceled" /\ ctx = "live") =>
              Returned(x).code = "canceled"
<1>0. x \in ExchangeType
  BY EngineAssumption
<1>1. CASE x.kind = "transport"
  <2>1. Returned(x) = NormalizeRequestError(ctx, x.error)
    BY <1>1 DEF Returned, CompleteJSON
  <2>2. x.error \in TransportErrors
    BY <1>0, <1>1 DEF ExchangeType
  <2> QED BY <1>1, <2>1, <2>2 DEF NormalizeRequestError, ExchangeCodes, TransportErrors
<1>2. CASE x.kind = "cut off"
  <2>1. Returned(x) =
          [ok |-> FALSE, code |-> "provider_response_read_failed", retryable |-> "yes"]
    BY <1>2 DEF Returned, CompleteJSON
  <2>2. Returned(x).code \in ExchangeCodes \ {"deadline", "canceled"}
        /\ Returned(x).retryable = "yes"
    BY <2>1 DEF ExchangeCodes
  <2> QED BY <1>2, <2>2
<1>3. CASE x.kind \in {"oversized", "not JSON"}
  <2>1. Returned(x) = Invalid("no")
    BY <1>3 DEF Returned, CompleteJSON
  <2>2. Returned(x).code \in ExchangeCodes \ {"deadline", "canceled"}
        /\ Returned(x).retryable = "no"
    BY <2>1 DEF Invalid, ExchangeCodes
  <2> QED BY <1>3, <2>2
<1>4. CASE x.kind = "status"
  <2>1. Returned(x) = ProviderHTTPError(x.status)
    BY <1>4 DEF Returned, CompleteJSON
  <2>2. /\ ProviderHTTPError(x.status).code \in ExchangeCodes \ {"deadline", "canceled"}
        /\ ProviderHTTPError(x.status).retryable \in {"yes", "no"}
    <3>1. x.status \in Nat
      BY <1>0, <1>4 DEF ExchangeType
    <3> QED BY <3>1 DEF ProviderHTTPError, ExchangeCodes
  <2> QED BY <1>4, <2>1, <2>2
<1>5. CASE x.kind = "answer"
  <2>1. Returned(x) = Invalid("no") \/ Returned(x).ok
    <3>1. Returned(x) = IF config.api = "anthropic" THEN NormalizeAnthropic(x.wire)
                                                   ELSE NormalizeOpenAI(x.wire)
      BY <1>5 DEF Returned, CompleteJSON
    <3>2. NormalizeAnthropic(x.wire) = Invalid("no") \/ NormalizeAnthropic(x.wire).ok
      BY DEF NormalizeAnthropic
    <3>3. NormalizeOpenAI(x.wire) = Invalid("no") \/ NormalizeOpenAI(x.wire).ok
      BY DEF NormalizeOpenAI
    <3> QED BY <3>1, <3>2, <3>3
  <2> QED BY <1>5, <2>1 DEF Invalid, ExchangeCodes
<1>6. CASE x.kind \in {"not encoded", "bad endpoint"}
  <2>1. \/ Returned(x) = [ok |-> FALSE, code |-> "provider_error", retryable |-> "unset"]
        \/ Returned(x) =
             [ok |-> FALSE, code |-> "invalid_provider_endpoint", retryable |-> "unset"]
    BY <1>6 DEF Returned, CompleteJSON
  <2>2. Returned(x).code \in ExchangeCodes \ {"deadline", "canceled"}
        /\ Returned(x).retryable = "unset"
    BY <2>1 DEF ExchangeCodes
  <2> QED BY <1>6, <2>2
<1>7. x.kind \in {"not encoded", "bad endpoint", "transport", "cut off", "oversized",
                  "not JSON", "status", "answer"}
  BY <1>0 DEF ExchangeType
<1> QED BY <1>1, <1>2, <1>3, <1>4, <1>5, <1>6, <1>7

(* An exchange that brought an answer has a well-typed response.             *)
LEMMA AnsweredExchange ==
  ASSUME NEW x \in Exchanges, ctx \in {"live", "canceled", "deadline"}, config \in Configs,
         Returned(x).ok
  PROVE  /\ Returned(x).text \in Texts
         /\ Returned(x).calls \in Seq([id : ToolCallIds, shape : {"usable", "malformed"}])
         /\ Returned(x).usage \in UsageType
<1>0. x \in ExchangeType
  BY EngineAssumption
<1>1. CASE x.kind # "answer"
  <2>1. x.kind \in {"not encoded", "bad endpoint", "transport", "cut off", "oversized",
                    "not JSON", "status"}
    BY <1>0, <1>1 DEF ExchangeType
  <2>2. \/ Returned(x) = [ok |-> FALSE, code |-> "provider_error", retryable |-> "unset"]
        \/ Returned(x) =
             [ok |-> FALSE, code |-> "invalid_provider_endpoint", retryable |-> "unset"]
        \/ Returned(x) = NormalizeRequestError(ctx, x.error) /\ x.kind = "transport"
        \/ Returned(x) =
             [ok |-> FALSE, code |-> "provider_response_read_failed", retryable |-> "yes"]
        \/ Returned(x) = Invalid("no")
        \/ Returned(x) = ProviderHTTPError(x.status) /\ x.kind = "status"
    BY <2>1 DEF Returned, CompleteJSON
  <2>3. x.kind = "transport" => ~NormalizeRequestError(ctx, x.error).ok
    <3>1. x.kind = "transport" => x.error \in TransportErrors
      BY <1>0 DEF ExchangeType
    <3> QED BY <3>1 DEF NormalizeRequestError, TransportErrors
  <2>4. x.kind = "status" => ~ProviderHTTPError(x.status).ok
    <3>1. x.kind = "status" => x.status \in Nat
      BY <1>0 DEF ExchangeType
    <3> QED BY <3>1 DEF ProviderHTTPError
  <2> QED BY <2>2, <2>3, <2>4 DEF Invalid
<1>2. CASE x.kind = "answer"
  <2>1. x.wire \in WireType
    BY <1>0, <1>2 DEF ExchangeType
  <2>2. Returned(x) = IF config.api = "anthropic" THEN NormalizeAnthropic(x.wire)
                                                 ELSE NormalizeOpenAI(x.wire)
    BY <1>2 DEF Returned, CompleteJSON
  <2>3. /\ x.wire.text \in Texts /\ x.wire.refusal \in Texts
        /\ x.wire.calls \in Seq([id : ToolCallIds, shape : {"usable", "malformed"}])
        /\ x.wire.usage \in UsageType
    BY <2>1 DEF WireType
  <2>4. CASE config.api = "anthropic"
    <3>1. Returned(x) =
            [ok    |-> TRUE,
             text  |-> x.wire.text,
             calls |-> x.wire.calls,
             stop  |-> x.wire.stop,
             usage |-> [x.wire.usage EXCEPT !.total = Unreported, !.reasoning = Unreported]]
      BY <2>2, <2>4 DEF NormalizeAnthropic, Invalid
    <3>2. [x.wire.usage EXCEPT !.total = Unreported, !.reasoning = Unreported] \in UsageType
      <4>1. Unreported \in Metrics
        BY DEF Metrics
      <4>2. PICK u \in UsageType : u = x.wire.usage
        BY <2>3
      <4>3. [u EXCEPT !.total = Unreported, !.reasoning = Unreported] \in UsageType
        BY <4>1 DEF UsageType
      <4> QED BY <4>2, <4>3
    <3> QED BY <3>1, <3>2, <2>3
  <2>5. CASE config.api # "anthropic"
    <3>1. Returned(x) =
            [ok    |-> TRUE,
             text  |-> IF "text" \in {x.wire.text, x.wire.refusal} THEN "text" ELSE "none",
             calls |-> x.wire.calls,
             stop  |-> OpenAIStops[x.wire.stop],
             usage |-> x.wire.usage]
      BY <2>2, <2>5 DEF NormalizeOpenAI, Invalid
    <3> QED BY <3>1, <2>3 DEF Texts
  <2> QED BY <2>4, <2>5
<1> QED BY <1>1, <1>2

-----------------------------------------------------------------------------
(* Results *)

(* What fail returns.                                                        *)
LEMMA FailureFits ==
  ASSUME ctx \in {"live"} \cup ContextEnds, NEW code \in {"none"} \cup ErrorCodes,
         NEW retryable \in {"unset", "yes", "no"},
         NEW from \in {"config", "limit", "provider", "transport", "tool", "answer"}
  PROVE  /\ Failure(code, retryable, from) \in ResultType
         /\ ResultFits(Failure(code, retryable, from))
<1>1. PICK r : r = Failure(code, retryable, from)
  OBVIOUS
<1>2. r.output = FALSE /\ r.exit = 1
  BY <1>1 DEF Failure
<1>3. r \in ResultType
  BY <1>1 DEF Failure, ResultType
<1>4. ResultFits(r)
  BY <1>2 DEF ResultFits
<1> QED BY <1>1, <1>3, <1>4

(* What normalizeError makes of an error.                                    *)
LEMMA NormalizeErrorFits ==
  ASSUME ctx \in {"live"} \cup ContextEnds, NEW error,
         error.code \in {"none"} \cup ExchangeCodes,
         error.retryable \in {"unset", "yes", "no"},
         NEW from \in {"provider", "transport", "tool"}
  PROVE  /\ NormalizeError(error, from) \in ResultType
         /\ ResultFits(NormalizeError(error, from))
<1>1. PICK r : r = NormalizeError(error, from)
  OBVIOUS
<1>2. \/ r = Failure("deadline_exceeded", "yes", from)
      \/ r = Failure("cancelled", "yes", from)
      \/ r = Failure(error.code, error.retryable, from)
         /\ error.code \notin {"deadline", "canceled"}
  BY <1>1 DEF NormalizeError
<1>3. error.code \notin {"deadline", "canceled"} => error.code \in {"none"} \cup ErrorCodes
  BY DEF ExchangeCodes, ErrorCodes
<1>4. "deadline_exceeded" \in ErrorCodes /\ "cancelled" \in ErrorCodes
  BY DEF ErrorCodes
<1>5. r \in ResultType /\ ResultFits(r)
  BY <1>2, <1>3, <1>4, FailureFits
<1> QED BY <1>1, <1>5

(* The limit checks return "ok" or a code.                                   *)
LEMMA ChecksAreCodes ==
  ASSUME NEW requested, NEW consumed
  PROVE  /\ CheckBeforeProviderTurn \in {"ok", "turn_limit_exceeded"}
         /\ CheckAfterResponse(consumed) \in {"ok", "token_limit_exceeded"}
         /\ CheckBeforeToolCall \in {"ok", "tool_output_limit_exceeded"}
         /\ CheckBeforeToolBatch(requested) \in
              {"ok", "turn_limit_exceeded", "token_limit_exceeded",
               "tool_call_limit_exceeded", "tool_output_limit_exceeded"}
BY DEF CheckBeforeProviderTurn, CheckAfterResponse, CheckBeforeToolCall, CheckBeforeToolBatch

(* A limit that was reached is reported with its code.                       *)
LEMMA LimitFailureFits ==
  ASSUME ctx \in {"live"} \cup ContextEnds,
         NEW code \in {"turn_limit_exceeded", "token_limit_exceeded",
                       "tool_call_limit_exceeded", "tool_output_limit_exceeded"}
  PROVE  Failure(code, "no", "limit") \in ResultType /\ ResultFits(Failure(code, "no", "limit"))
<1>1. code \in ErrorCodes \ {"tool_cleanup_failed"}
  BY DEF ErrorCodes
<1> QED BY <1>1, FailureFits

(* The codes of a bad answer.                                                *)
LEMMA AnswerFailureFits ==
  ASSUME ctx \in {"live"} \cup ContextEnds,
         NEW code \in {"invalid_provider_response", "max_tokens_reached", "content_filtered",
                       "provider_refusal", "context_window_exceeded"}
  PROVE  Failure(code, "unset", "answer") \in ResultType /\ ResultFits(Failure(code, "unset", "answer"))
<1>1. code \in ErrorCodes \ {"tool_cleanup_failed"}
  BY DEF ErrorCodes
<1> QED BY <1>1, FailureFits

(* A final answer is a success with an output.                               *)
LEMMA SuccessFits == Success \in ResultType /\ ResultFits(Success)
<1>1. PICK r : r = Success
  OBVIOUS
<1>2. r = [outcome |-> "Succeeded", code |-> "none", retryable |-> "unset", output |-> TRUE,
           exit |-> 0, from |-> "answer", ctx |-> "live"]
  BY <1>1 DEF Success, NoResult
<1>3. r \in ResultType
  BY <1>2 DEF ResultType
<1>4. ResultFits(r)
  BY <1>2 DEF ResultFits
<1> QED BY <1>1, <1>3, <1>4

(* Nothing has failed yet.                                                   *)
LEMMA NoResultType == NoResult \in ResultType
BY DEF NoResult, ResultType

-----------------------------------------------------------------------------
(* Steps *)

(* No request is out.                                                        *)
LEMMA NoErrorType ==
  NoError \in [code : {"none"} \cup ExchangeCodes, retryable : {"unset", "yes", "no"},
              from : {"provider", "transport"}]
BY DEF NoError, Error

(* The request that is none is one.                                          *)
LEMMA NoRequestType == NoRequest \in RequestType
BY NoErrorType DEF NoRequest, RequestType

(* The context ends in one of two ways.                                      *)
LEMMA ContextValues ==
  ASSUME ctx \in {"live"} \cup ContextEnds PROVE ctx \in {"live", "canceled", "deadline"}
BY EngineAssumption

(* A failure, wherever it happens, is followed by finish(): what the         *)
(* invariant asks of the loop's pc is no longer asked.                       *)
LEMMA EndsStep ==
  ASSUME Inv, pc' = "finish", result' \in ResultType, ResultFits(result'),
         UNCHANGED <<config, ctx, turns, toolCalls, totalToolOutputBytes, batch, executor>>,
         consumedTokens' \in 0..MaxInt, spent' \in Nat, usage' \in UsageType, CounterIsSpent',
         conversation' \in Seq(MessageType), request' \in RequestType
  PROVE  Inv'
<1> USE DEF batch
<1>1. TypeOK'
  BY DEF Inv, TypeOK, RequestType
<1>2. LimitInv'
  BY DEF Inv, LimitInv, TurnsFit, CallsFit, BytesFit, LaterTurn, Within
<1>3. TokenInv'
  BY DEF TokenInv, WithinBudget, AsksForTheRest
<1>4. EndInv'
  BY DEF EndInv, ResultInv, NoResultYet, ToolsInv
<1>5. ConversationInv'
  BY DEF ConversationInv
<1> QED BY <1>1, <1>2, <1>3, <1>4, <1>5 DEF Inv

(* A failure that leaves the counters and the conversation alone.            *)
LEMMA FailStep ==
  ASSUME Inv, NEW failure \in ResultType, ResultFits(failure), FailWith(failure),
         UNCHANGED <<config, ctx, counters, conversation, batch, executor>>,
         request' \in RequestType
  PROVE  Inv'
<1>1. /\ consumedTokens' \in 0..MaxInt /\ spent' \in Nat /\ usage' \in UsageType
      /\ conversation' \in Seq(MessageType) /\ CounterIsSpent'
  BY DEF Inv, TypeOK, TokenInv, CounterIsSpent, counters
<1> QED BY <1>1, EndsStep DEF FailWith, counters

(* LoadFails: main itself writes the failure.                                *)
LEMMA LoadFailsStep ==
  ASSUME Inv, LoadFails PROVE Inv'
<1> USE DEF LoadFails, batch, counters
<1>0. ctx \in {"live"} \cup ContextEnds /\ executor = "none"
  BY DEF Inv, TypeOK, EndInv, ToolsInv
<1>1. result' \in ResultType /\ ResultFits(result')
  <2>1. PICK r : r = Failure("invalid_configuration", "unset", "config")
    OBVIOUS
  <2>2. "invalid_configuration" \in ErrorCodes \ {"tool_cleanup_failed"}
    BY DEF ErrorCodes
  <2>3. r \in ResultType /\ ResultFits(r) /\ r.outcome = "Failed" /\ r.from = "config" /\ ~r.output
    <3>1. r \in ResultType /\ ResultFits(r)
      BY <1>0, <2>1, <2>2, FailureFits
    <3> QED BY <2>1, <3>1 DEF Failure
  <2>4. result' = [r EXCEPT !.exit = 2]
    BY <2>1
  <2>5. r \in ResultType
    BY <2>3
  <2>6. result' \in ResultType
    BY <2>4, <2>5 DEF ResultType
  <2>7. result'.exit = 2 /\ result'.output = r.output
    BY <2>4, <2>5 DEF ResultType
  <2> QED BY <2>3, <2>6, <2>7 DEF ResultFits
<1>2. TypeOK'
  BY <1>1 DEF Inv, TypeOK
<1>3. LimitInv'
  BY DEF Inv, LimitInv, TurnsFit, CallsFit, BytesFit, LaterTurn, Within
<1>4. TokenInv'
  BY DEF Inv, TokenInv, CounterIsSpent, WithinBudget, AsksForTheRest
<1>5. EndInv'
  BY <1>0, <1>1 DEF Inv, EndInv, ResultInv, NoResultYet, ToolsInv
<1>6. ConversationInv'
  BY DEF ConversationInv
<1> QED BY <1>2, <1>3, <1>4, <1>5, <1>6 DEF Inv

(* Inv, the request loaded.                                                *)
LEMMA LoadStep ==
  ASSUME Inv, Load PROVE Inv'
<1> USE DEF Load, batch, counters
<1>2. TypeOK'
  BY DEF Inv, TypeOK
<1>3. LimitInv'
  BY DEF Inv, LimitInv, TurnsFit, CallsFit, BytesFit, LaterTurn, Within
<1>4. TokenInv'
  BY DEF Inv, TokenInv, CounterIsSpent, WithinBudget, AsksForTheRest
<1>5. EndInv'
  BY DEF Inv, EndInv, ResultInv, NoResultYet, ToolsInv
<1>6. ConversationInv'
  BY DEF Inv, ConversationInv
<1> QED BY <1>2, <1>3, <1>4, <1>5, <1>6 DEF Inv

(* Inv, the provider built or refused.                                     *)
LEMMA ResolveProviderStep ==
  ASSUME Inv, ResolveProvider PROVE Inv'
<1> USE DEF ResolveProvider
<1>0. ctx \in {"live"} \cup ContextEnds /\ request \in RequestType
  BY DEF Inv, TypeOK, RequestType
<1>1. ASSUME NEW code \in {"unsupported_provider", "missing_provider_credentials"},
             FailWith(Failure(code, "unset", "config"))
      PROVE  Inv'
  <2>1. code \in ErrorCodes \ {"tool_cleanup_failed"}
    BY DEF ErrorCodes
  <2>2. PICK r : r = Failure(code, "unset", "config")
    OBVIOUS
  <2>3. r \in ResultType /\ ResultFits(r)
    BY <1>0, <2>1, <2>2, FailureFits
  <2> QED BY <1>0, <1>1, <2>2, <2>3, FailStep
<1>2. CASE pc' = "tools" /\ UNCHANGED result
  <2> USE <1>2 DEF batch, counters
  <2>2. TypeOK'
    BY DEF Inv, TypeOK
  <2>3. LimitInv'
    BY DEF Inv, LimitInv, TurnsFit, CallsFit, BytesFit, LaterTurn, Within
  <2>4. TokenInv'
    BY DEF Inv, TokenInv, CounterIsSpent, WithinBudget, AsksForTheRest
  <2>5. EndInv'
    BY DEF Inv, EndInv, ResultInv, NoResultYet, ToolsInv
  <2>6. ConversationInv'
    BY DEF Inv, ConversationInv
  <2> QED BY <2>2, <2>3, <2>4, <2>5, <2>6 DEF Inv
<1> QED BY <1>1, <1>2

(* Inv, the tools discovered or refused.                                   *)
LEMMA ResolveToolsStep ==
  ASSUME Inv, ResolveTools PROVE Inv'
<1> USE DEF ResolveTools
<1>0. ctx \in {"live"} \cup ContextEnds /\ request \in RequestType
  BY DEF Inv, TypeOK, RequestType
<1>1. ASSUME NEW code \in {"invalid_tool_configuration", "mcp_connection_failed"},
             FailWith(Failure(code, "unset", "config")), UNCHANGED executor
      PROVE  Inv'
  <2>1. code \in ErrorCodes \ {"tool_cleanup_failed"}
    BY DEF ErrorCodes
  <2>2. PICK r : r = Failure(code, "unset", "config")
    OBVIOUS
  <2>3. r \in ResultType /\ ResultFits(r)
    BY <1>0, <2>1, <2>2, FailureFits
  <2> QED BY <1>0, <1>1, <2>2, <2>3, FailStep
<1>2. CASE pc' = "turn" /\ executor' = "open" /\ UNCHANGED result
  <2> USE <1>2 DEF batch, counters
  <2>2. TypeOK'
    BY DEF Inv, TypeOK
  <2>3. LimitInv'
    BY DEF Inv, LimitInv, TurnsFit, CallsFit, BytesFit, LaterTurn, Within
  <2>4. TokenInv'
    BY DEF Inv, TokenInv, CounterIsSpent, WithinBudget, AsksForTheRest
  <2>5. EndInv'
    BY DEF Inv, EndInv, ResultInv, NoResultYet, ToolsInv
  <2>6. ConversationInv'
    BY DEF Inv, ConversationInv
  <2> QED BY <2>2, <2>3, <2>4, <2>5, <2>6 DEF Inv
<1> QED BY <1>1, <1>2

(* beginTurn: the turn is counted, and the request asks for what is left.    *)
LEMMA BeginTurnStep ==
  ASSUME Inv, BeginTurn PROVE Inv'
<1> USE DEF BeginTurn
<1>0. /\ ctx \in {"live"} \cup ContextEnds /\ request \in RequestType
      /\ config \in Configs /\ turns \in Nat /\ consumedTokens \in 0..MaxInt
  BY DEF Inv, TypeOK, RequestType
<1>a. config.turns \in Nat /\ config.tokens \in Nat
  BY <1>0, EngineAssumption
<1>1. CASE CheckBeforeProviderTurn # "ok"
  <2>1. CheckBeforeProviderTurn = "turn_limit_exceeded"
    BY <1>1, ChecksAreCodes
  <2>2. PICK r : r = Failure(CheckBeforeProviderTurn, "no", "limit")
    OBVIOUS
  <2>3. r \in ResultType /\ ResultFits(r)
    BY <1>0, <2>1, <2>2, LimitFailureFits
  <2>4. FailWith(r) /\ request' = request
    BY <1>1, <2>2 DEF FailLimit
  <2> QED BY <1>0, <1>1, <2>3, <2>4, FailStep DEF counters
<1>2. CASE CheckBeforeProviderTurn = "ok"
  <2>1. /\ turns' = turns + 1 /\ pc' = "waiting" /\ result' = result
        /\ request' = [ctx |-> ctx, error |-> NoError,
                       maxTokens |-> WireMaxTokens(config.api, RemainingTokenBudget)]
    BY <1>2 DEF NoRequest
  <2>2. RemainingTokenBudget \in Nat
    BY <1>0, <1>a, MaxIntAssumption DEF RemainingTokenBudget
  <2>3. WireMaxTokens(config.api, RemainingTokenBudget) \in Nat
    BY <2>2 DEF WireMaxTokens, AnthropicDefaultMaxTokens
  <2>4. request' \in RequestType
    BY <1>0, <2>1, <2>3, NoErrorType DEF RequestType
  <2>5. TypeOK'
    BY <2>1, <2>4 DEF Inv, TypeOK, batch
  <2>6. LimitInv'
    <3>1. TurnsFit'
      BY <1>0, <1>a, <1>2, <2>1 DEF CheckBeforeProviderTurn, Reached, TurnsFit, Within
    <3>2. CallsFit' /\ BytesFit' /\ LaterTurn'
      BY <2>1 DEF Inv, LimitInv, CallsFit, BytesFit, LaterTurn, Within, batch
    <3> QED BY <3>1, <3>2 DEF LimitInv
  <2>7. TokenInv'
    <3>1. AsksForTheRest'
      BY <2>1 DEF AsksForTheRest, RemainingTokenBudget
    <3>2. CounterIsSpent' /\ WithinBudget'
      BY <2>1 DEF Inv, TokenInv, CounterIsSpent, WithinBudget
    <3> QED BY <3>1, <3>2 DEF TokenInv
  <2>8. EndInv'
    BY <2>1 DEF Inv, EndInv, ResultInv, NoResultYet, ToolsInv
  <2>9. ConversationInv'
    BY <2>1 DEF Inv, ConversationInv
  <2> QED BY <2>5, <2>6, <2>7, <2>8, <2>9 DEF Inv
<1> QED BY <1>1, <1>2

(* Complete returns an error.                                                *)
LEMMA CompleteFailsStep ==
  ASSUME Inv, CompleteFails PROVE Inv'
<1> USE DEF CompleteFails, batch, counters
<1>0. ctx \in {"live"} \cup ContextEnds /\ config \in Configs /\ request \in RequestType
  BY DEF Inv, TypeOK
<1>1. PICK x \in Exchanges :
        /\ ~Returned(x).ok
        /\ request' = [request EXCEPT !.error =
              Error(Returned(x).code, Returned(x).retryable,
                    IF x.kind = "transport" /\ x.error = "canceled"
                    THEN "transport" ELSE "provider")]
  OBVIOUS
<1>2. /\ Returned(x).code \in ExchangeCodes
      /\ Returned(x).retryable \in {"unset", "yes", "no"}
  BY <1>0, <1>1, FailedExchange, ContextValues
<1>3. request' \in RequestType
  BY <1>0, <1>1, <1>2 DEF RequestType, Error
<1>4. TypeOK'
  BY <1>3 DEF Inv, TypeOK
<1>5. LimitInv'
  BY DEF Inv, LimitInv, TurnsFit, CallsFit, BytesFit, LaterTurn, Within
<1>6. TokenInv'
  BY DEF Inv, TokenInv, CounterIsSpent, WithinBudget, AsksForTheRest
<1>7. EndInv'
  BY DEF Inv, EndInv, ResultInv, NoResultYet, ToolsInv
<1>8. ConversationInv'
  BY DEF ConversationInv
<1> QED BY <1>4, <1>5, <1>6, <1>7, <1>8 DEF Inv

(* The error becomes the run's failure.                                      *)
LEMMA TurnFailsStep ==
  ASSUME Inv, TurnFails PROVE Inv'
<1> USE DEF TurnFails
<1>0. ctx \in {"live"} \cup ContextEnds /\ request \in RequestType
  BY DEF Inv, TypeOK
<1>1. PICK e : e = request.error
  OBVIOUS
<1>2. /\ e.code \in {"none"} \cup ExchangeCodes /\ e.retryable \in {"unset", "yes", "no"}
      /\ e.from \in {"provider", "transport"}
  BY <1>0, <1>1 DEF RequestType
<1>3. PICK r : r = NormalizeError(e, e.from)
  OBVIOUS
<1>4. r \in ResultType /\ ResultFits(r)
  BY <1>0, <1>2, <1>3, NormalizeErrorFits
<1>5. FailWith(r) /\ request' \in RequestType
  BY <1>1, <1>3, NoRequestType
<1> QED BY <1>4, <1>5, FailStep

(* The response fails validation.                                            *)
LEMMA InvalidResponseStep ==
  ASSUME Inv, InvalidResponse PROVE Inv'
<1> USE DEF InvalidResponse
<1>0. ctx \in {"live"} \cup ContextEnds
  BY DEF Inv, TypeOK
<1>1. PICK r : r = Failure("invalid_provider_response", "unset", "answer")
  OBVIOUS
<1>2. r \in ResultType /\ ResultFits(r)
  BY <1>0, <1>1, AnswerFailureFits
<1>3. request' \in RequestType
  BY NoRequestType
<1> QED BY <1>1, <1>2, <1>3, FailStep

-----------------------------------------------------------------------------
(* Conversations *)

(* The elements of a sequence.                                               *)
LEMMA SeqElement ==
  ASSUME NEW S, NEW s \in Seq(S), NEW i \in 1..Len(s) PROVE s[i] \in S
OBVIOUS

(* Appending a message to a conversation whose calls are all answered leaves *)
(* what was answered answered.                                               *)
LEMMA AppendKeepsAnswered ==
  ASSUME NEW messages \in Seq(MessageType), NEW m \in MessageType,
         NEW n \in 0..Len(messages), Answered(messages, n)
  PROVE  Answered(Append(messages, m), n)
<1>0. PICK all : all = Append(messages, m)
  OBVIOUS
<1>1. /\ Len(all) = Len(messages) + 1
      /\ \A i \in 1..Len(messages) : all[i] = messages[i]
  BY <1>0
<1>2. SUFFICES ASSUME NEW i \in 1..n
               PROVE  /\ all[i].calls # <<>> =>
                           /\ i + 1 <= Len(all)
                           /\ all[i + 1].results = all[i].calls
                      /\ all[i].results # <<>> =>
                           /\ i > 1
                           /\ all[i - 1].calls # <<>>
  BY <1>0 DEF Answered
<1>3. all[i] = messages[i]
  BY <1>1
<1>4. all[i].results # <<>> => i > 1 /\ all[i - 1].calls # <<>>
  <2> SUFFICES ASSUME all[i].results # <<>> PROVE i > 1 /\ all[i - 1].calls # <<>>
    OBVIOUS
  <2>1. i > 1 /\ messages[i - 1].calls # <<>>
    BY <1>3 DEF Answered
  <2>2. i - 1 \in 1..Len(messages)
    BY <2>1
  <2> QED BY <1>1, <2>1, <2>2
<1>5. CASE all[i].calls # <<>>
  <2>1. i + 1 <= Len(messages) /\ messages[i + 1].results = messages[i].calls
    BY <1>3, <1>5 DEF Answered
  <2>2. i + 1 \in 1..Len(messages)
    BY <2>1
  <2> QED BY <1>1, <1>3, <1>4, <2>1, <2>2
<1>6. CASE all[i].calls = <<>>
  BY <1>4, <1>6
<1> QED BY <1>4, <1>5, <1>6

(* A message without calls and results keeps everything answered.            *)
LEMMA PlainMessage ==
  ASSUME NEW messages \in Seq(MessageType), NEW m \in MessageType,
         Answered(messages, Len(messages)), m.calls = <<>>, m.results = <<>>
  PROVE  Answered(Append(messages, m), Len(messages) + 1)
<1>1. Len(messages) \in Nat
  OBVIOUS
<1>2. Answered(Append(messages, m), Len(messages))
  BY <1>1, AppendKeepsAnswered
<1>3. Append(messages, m)[Len(messages) + 1] = m
  OBVIOUS
<1>4. SUFFICES ASSUME NEW i \in 1..(Len(messages) + 1), i \notin 1..Len(messages)
               PROVE  /\ Append(messages, m)[i].calls = <<>>
                      /\ Append(messages, m)[i].results = <<>>
  BY <1>2 DEF Answered
<1>5. i = Len(messages) + 1
  BY <1>1, <1>4
<1> QED BY <1>3, <1>5

(* The results of a batch answer the calls of the message before them.       *)
LEMMA AnswerMessage ==
  ASSUME NEW messages \in Seq(MessageType), messages # <<>>,
         Answered(messages, Len(messages) - 1), NEW m \in MessageType,
         messages[Len(messages)].calls # <<>>, messages[Len(messages)].results = <<>>,
         m.calls = <<>>, m.results = messages[Len(messages)].calls
  PROVE  Answered(Append(messages, m), Len(messages) + 1)
<1>0. PICK all : all = Append(messages, m)
  OBVIOUS
<1>1. PICK n \in Nat : n = Len(messages) /\ n > 0
  OBVIOUS
<1>2. Answered(all, n - 1)
  <2>1. n - 1 \in 0..Len(messages) /\ Answered(messages, n - 1)
    BY <1>1
  <2> QED BY <1>0, <2>1, AppendKeepsAnswered
<1>3. Len(all) = n + 1 /\ all[n] = messages[n] /\ all[n + 1] = m
  BY <1>0, <1>1
<1>4. SUFFICES ASSUME NEW i \in 1..(n + 1), i \notin 1..(n - 1)
               PROVE  /\ all[i].calls # <<>> =>
                           /\ i + 1 <= Len(all)
                           /\ all[i + 1].results = all[i].calls
                      /\ all[i].results # <<>> =>
                           /\ i > 1
                           /\ all[i - 1].calls # <<>>
  BY <1>0, <1>1, <1>2 DEF Answered
<1>5. CASE i = n
  BY <1>1, <1>3, <1>5
<1>6. CASE i = n + 1
  BY <1>1, <1>3, <1>6
<1> QED BY <1>1, <1>4, <1>5, <1>6

-----------------------------------------------------------------------------
(* A response *)

(* The identifiers of a response's calls, in order.                          *)
LEMMA CallIdsType ==
  ASSUME NEW r, r.calls \in Seq([id : ToolCallIds, shape : {"usable", "malformed"}])
  PROVE  /\ CallIds(r) \in Seq(ToolCallIds)
         /\ Len(CallIds(r)) = Len(r.calls)
         /\ r.calls = <<>> <=> CallIds(r) = <<>>
<1>1. PICK s \in Seq([id : ToolCallIds, shape : {"usable", "malformed"}]) : s = r.calls
  OBVIOUS
<1>2. CallIds(r) = [i \in 1..Len(s) |-> s[i].id]
  BY <1>1 DEF CallIds
<1>3. \A i \in 1..Len(s) : s[i].id \in ToolCallIds
  <2>1. \A i \in 1..Len(s) : s[i] \in [id : ToolCallIds, shape : {"usable", "malformed"}]
    BY SeqElement
  <2> QED BY <2>1
<1>4. [i \in 1..Len(s) |-> s[i].id] \in Seq(ToolCallIds)
  BY <1>3
<1> QED BY <1>1, <1>2, <1>4

(* The message a response adds to the conversation.                          *)
LEMMA AssistantMessage ==
  ASSUME NEW text \in Texts, NEW ids \in Seq(ToolCallIds)
  PROVE  /\ Message("assistant", text, ids, <<>>) \in MessageType
         /\ Message("assistant", text, ids, <<>>).calls = ids
         /\ Message("assistant", text, ids, <<>>).results = <<>>
BY DEF Message, MessageType, Roles

(* What a valid response costs.                                              *)
LEMMA ResponseCounts ==
  ASSUME Inv, NEW u \in UsageType, ValidUsage(u),
         usage' = AddUsage(usage, u),
         consumedTokens' = SaturatingAdd(consumedTokens, MeasuredTokens(u)),
         spent' = spent + MeasuredTokens(u)
  PROVE  /\ consumedTokens' \in 0..MaxInt /\ spent' \in Nat /\ usage' \in UsageType
         /\ CounterIsSpent'
<1>1. PICK m \in Nat : m = MeasuredTokens(u)
  BY MeasuredIsNatural
<1>2. /\ consumedTokens \in 0..MaxInt /\ spent \in Nat /\ usage \in UsageType
      /\ consumedTokens = IF spent < MaxInt THEN spent ELSE MaxInt
  BY DEF Inv, TypeOK, TokenInv, CounterIsSpent
<1>3. /\ consumedTokens' \in 0..MaxInt
      /\ consumedTokens' = IF consumedTokens + m < MaxInt THEN consumedTokens + m ELSE MaxInt
  BY <1>1, <1>2, SaturatingAddIs
<1>4. spent' = spent + m
  BY <1>1
<1>5. CounterIsSpent'
  BY <1>2, <1>3, <1>4, MaxIntAssumption DEF CounterIsSpent
<1>6. usage' \in UsageType
  BY <1>2, AddUsageType
<1> QED BY <1>2, <1>3, <1>4, <1>5, <1>6

(* A response is counted, checked against the token budget and acted upon.   *)
LEMMA ResponseStep ==
  ASSUME Inv, Response PROVE Inv'
<1>0. /\ ctx \in {"live"} \cup ContextEnds /\ config \in Configs
      /\ conversation \in Seq(MessageType)
  BY DEF Inv, TypeOK
<1>a. config.tokens \in Nat
  BY <1>0, EngineAssumption
<1>1. PICK x \in Exchanges :
          LET r == Returned(x) IN
          /\ r.ok /\ ValidResponse(r)
          /\ usage' = AddUsage(usage, r.usage)
          /\ consumedTokens' = SaturatingAdd(consumedTokens, MeasuredTokens(r.usage))
          /\ spent' = spent + MeasuredTokens(r.usage)
          /\ IF CheckAfterResponse(consumedTokens') # "ok"
             THEN FailLimit(CheckAfterResponse(consumedTokens'))
                  /\ UNCHANGED <<batch, conversation>>
             ELSE /\ conversation' =
                        Append(conversation, Message("assistant", r.text, CallIds(r), <<>>))
                  /\ Continue(r)
  BY DEF Response
<1>2. PICK r : r = Returned(x)
  OBVIOUS
<1>3. /\ r.ok /\ ValidResponse(r)
      /\ usage' = AddUsage(usage, r.usage)
      /\ consumedTokens' = SaturatingAdd(consumedTokens, MeasuredTokens(r.usage))
      /\ spent' = spent + MeasuredTokens(r.usage)
      /\ IF CheckAfterResponse(consumedTokens') # "ok"
         THEN FailLimit(CheckAfterResponse(consumedTokens'))
              /\ UNCHANGED <<batch, conversation>>
         ELSE /\ conversation' =
                    Append(conversation, Message("assistant", r.text, CallIds(r), <<>>))
              /\ Continue(r)
  BY <1>1, <1>2
<1>4. /\ r.text \in Texts /\ r.usage \in UsageType
      /\ r.calls \in Seq([id : ToolCallIds, shape : {"usable", "malformed"}])
  BY <1>0, <1>2, <1>3, AnsweredExchange, ContextValues
<1>5. /\ consumedTokens' \in 0..MaxInt /\ spent' \in Nat /\ usage' \in UsageType
      /\ CounterIsSpent'
  BY <1>3, <1>4, ResponseCounts DEF ValidResponse
<1>6. /\ pc = "waiting" /\ request' = NoRequest /\ request' \in RequestType
      /\ UNCHANGED <<config, ctx, turns, toolCalls, totalToolOutputBytes, executor>>
  BY NoRequestType DEF Response
<1>7. CASE CheckAfterResponse(consumedTokens') # "ok"
  <2>1. CheckAfterResponse(consumedTokens') = "token_limit_exceeded"
    BY <1>7, ChecksAreCodes
  <2>2. PICK f : f = Failure(CheckAfterResponse(consumedTokens'), "no", "limit")
    OBVIOUS
  <2>3. f \in ResultType /\ ResultFits(f)
    BY <1>0, <2>1, <2>2, LimitFailureFits
  <2>4. result' = f /\ pc' = "finish" /\ UNCHANGED <<batch, conversation>>
    BY <1>3, <1>7, <2>2 DEF FailLimit, FailWith
  <2> QED BY <1>0, <1>5, <1>6, <2>3, <2>4, EndsStep
<1>8. CASE CheckAfterResponse(consumedTokens') = "ok"
  <2>1. PICK m : m = Message("assistant", r.text, CallIds(r), <<>>)
    OBVIOUS
  <2>2. /\ CallIds(r) \in Seq(ToolCallIds)
        /\ r.calls = <<>> <=> CallIds(r) = <<>>
    BY <1>4, CallIdsType
  <2>3. m \in MessageType /\ m.calls = CallIds(r) /\ m.results = <<>>
    BY <1>4, <2>1, <2>2, AssistantMessage
  <2>4. conversation' = Append(conversation, m) /\ Continue(r)
    BY <1>3, <1>8, <2>1
  <2>5. conversation' \in Seq(MessageType)
    BY <1>0, <2>3, <2>4
  <2>6. Within(config.tokens, consumedTokens')
    BY <1>8, <1>a, <1>5, MaxIntAssumption DEF CheckAfterResponse, Within
  <2>7. Answered(conversation, Len(conversation))
    BY <1>6 DEF Inv, ConversationInv
  <2>8. CASE r.calls # <<>> /\ r.stop # "tool_use"
    <3>1. PICK f : f = Failure("invalid_provider_response", "unset", "answer")
      OBVIOUS
    <3>2. f \in ResultType /\ ResultFits(f)
      BY <1>0, <3>1, AnswerFailureFits
    <3>3. result' = f /\ pc' = "finish" /\ UNCHANGED batch
      BY <2>4, <2>8, <3>1 DEF Continue, FailWith
    <3> QED BY <1>5, <1>6, <2>5, <3>2, <3>3, EndsStep
  <2>9. CASE r.calls = <<>> /\ r.stop \notin {"pause_turn", "end_turn", "stop_sequence"}
    <3>1. PICK f : f = Failure(TerminalStopCode(r.stop), "unset", "answer")
      OBVIOUS
    <3>2. TerminalStopCode(r.stop) \in
            {"invalid_provider_response", "max_tokens_reached", "content_filtered",
             "provider_refusal", "context_window_exceeded"}
      BY DEF TerminalStopCode
    <3>3. f \in ResultType /\ ResultFits(f)
      BY <1>0, <3>1, <3>2, AnswerFailureFits
    <3>4. result' = f /\ pc' = "finish" /\ UNCHANGED batch
      BY <2>4, <2>9, <3>1 DEF Continue, FailWith
    <3> QED BY <1>5, <1>6, <2>5, <3>3, <3>4, EndsStep
  <2>10. CASE r.calls = <<>> /\ r.stop \in {"end_turn", "stop_sequence"}
    <3>1. result' = Success /\ pc' = "finish" /\ UNCHANGED batch
      BY <2>4, <2>10 DEF Continue
    <3> QED BY <1>5, <1>6, <2>5, <3>1, SuccessFits, EndsStep
  <2>11. CASE r.calls = <<>> /\ r.stop = "pause_turn"
    <3>1. pc' = "turn" /\ result' = result /\ calls' = calls /\ results' = results
      BY <2>4, <2>11 DEF Continue, batch
    <3>2. TypeOK'
      BY <1>5, <1>6, <2>5, <3>1 DEF Inv, TypeOK, RequestType
    <3>3. LimitInv'
      BY <1>6, <3>1 DEF Inv, LimitInv, TurnsFit, CallsFit, BytesFit, LaterTurn, Within
    <3>4. TokenInv'
      BY <1>5, <1>6, <2>6, <3>1 DEF TokenInv, WithinBudget, AsksForTheRest
    <3>5. EndInv'
      BY <1>6, <3>1 DEF Inv, EndInv, ResultInv, NoResultYet, ToolsInv
    <3>6. ConversationInv'
      <4>1. Answered(conversation', Len(conversation) + 1)
        BY <1>0, <2>2, <2>3, <2>4, <2>7, <2>11, PlainMessage
      <4>2. Len(conversation') = Len(conversation) + 1
        BY <1>0, <2>4
      <4> QED BY <4>1, <4>2, <3>1 DEF ConversationInv
    <3> QED BY <3>2, <3>3, <3>4, <3>5, <3>6 DEF Inv
  <2>12. CASE r.calls # <<>> /\ r.stop = "tool_use"
    <3>1. pc' = "batch" /\ result' = result /\ calls' = CallIds(r) /\ results' = <<>>
      BY <2>4, <2>12 DEF Continue
    <3>2. TypeOK'
      BY <1>5, <1>6, <2>2, <2>5, <3>1 DEF Inv, TypeOK, RequestType
    <3>3. LimitInv'
      BY <1>6, <3>1 DEF Inv, LimitInv, TurnsFit, CallsFit, BytesFit, LaterTurn, Within
    <3>4. TokenInv'
      BY <1>5, <1>6, <2>6, <3>1 DEF TokenInv, WithinBudget, AsksForTheRest
    <3>5. EndInv'
      BY <1>6, <3>1 DEF Inv, EndInv, ResultInv, NoResultYet, ToolsInv
    <3>6. ConversationInv'
      <4>1. PICK n \in Nat : n = Len(conversation)
        BY <1>0
      <4>2. Len(conversation') = n + 1 /\ conversation'[n + 1] = m /\ conversation' # <<>>
        BY <1>0, <2>4, <4>1
      <4>3. Answered(conversation', n)
        BY <1>0, <2>3, <2>4, <2>7, <4>1, AppendKeepsAnswered
      <4>4. BatchIs(m, results', calls')
        BY <2>2, <2>3, <2>12, <3>1 DEF BatchIs
      <4> QED BY <3>1, <4>2, <4>3, <4>4 DEF ConversationInv
    <3> QED BY <3>2, <3>3, <3>4, <3>5, <3>6 DEF Inv
  <2> QED BY <2>8, <2>9, <2>10, <2>11, <2>12
<1> QED BY <1>7, <1>8

-----------------------------------------------------------------------------
(* A batch of tool calls *)

(* checkBeforeToolBatch: the batch fits the call limit, and a later turn can *)
(* use its results.                                                          *)
LEMMA BeginBatchStep ==
  ASSUME Inv, BeginBatch PROVE Inv'
<1> USE DEF BeginBatch
<1>0. /\ ctx \in {"live"} \cup ContextEnds /\ request \in RequestType
      /\ config \in Configs /\ turns \in Nat /\ consumedTokens \in 0..MaxInt /\ toolCalls \in Nat
      /\ calls \in Seq(ToolCallIds)
  BY DEF Inv, TypeOK, RequestType
<1>a. config.turns \in Nat /\ config.tokens \in Nat /\ config.calls \in Nat
  BY <1>0, EngineAssumption
<1>b. PICK n \in Nat : n = Len(calls)
  BY <1>0
<1>1. CASE CheckBeforeToolBatch(Len(calls)) # "ok"
  <2>1. CheckBeforeToolBatch(Len(calls)) \in
          {"turn_limit_exceeded", "token_limit_exceeded",
           "tool_call_limit_exceeded", "tool_output_limit_exceeded"}
    BY <1>1, ChecksAreCodes
  <2>2. PICK r : r = Failure(CheckBeforeToolBatch(Len(calls)), "no", "limit")
    OBVIOUS
  <2>3. r \in ResultType /\ ResultFits(r)
    BY <1>0, <2>1, <2>2, LimitFailureFits
  <2>4. FailWith(r) /\ request' = request
    BY <1>1, <2>2 DEF FailLimit
  <2> QED BY <1>0, <2>3, <2>4, FailStep
<1>2. CASE CheckBeforeToolBatch(Len(calls)) = "ok"
  <2> USE DEF batch, counters
  <2>1. pc' = "tool" /\ result' = result
    BY <1>2
  <2>2. /\ Below(config.tokens, consumedTokens) /\ Below(config.turns, turns)
        /\ Within(config.calls, toolCalls + n)
    BY <1>0, <1>a, <1>b, <1>2, MaxIntAssumption
       DEF CheckBeforeToolBatch, Reached, BatchExceeds, Below, Within
  <2>5. TypeOK'
    BY <2>1 DEF Inv, TypeOK
  <2>6. LimitInv'
    <3>1. CallsFit'
      BY <1>b, <2>1, <2>2 DEF Inv, LimitInv, CallsFit, Within
    <3>2. TurnsFit' /\ BytesFit' /\ LaterTurn'
      BY <2>1, <2>2 DEF Inv, LimitInv, TurnsFit, BytesFit, LaterTurn, Within, Below
    <3> QED BY <3>1, <3>2 DEF LimitInv
  <2>7. TokenInv'
    BY <2>1 DEF Inv, TokenInv, CounterIsSpent, WithinBudget, AsksForTheRest
  <2>8. EndInv'
    BY <2>1 DEF Inv, EndInv, ResultInv, NoResultYet, ToolsInv
  <2>9. ConversationInv'
    BY <2>1 DEF Inv, ConversationInv
  <2> QED BY <2>5, <2>6, <2>7, <2>8, <2>9 DEF Inv
<1> QED BY <1>1, <1>2

(* A call of the batch begins, unless the output limit has been reached.     *)
LEMMA BeginCallStep ==
  ASSUME Inv, BeginCall PROVE Inv'
<1> USE DEF BeginCall
<1>0. /\ ctx \in {"live"} \cup ContextEnds /\ request \in RequestType
      /\ config \in Configs /\ toolCalls \in Nat /\ calls \in Seq(ToolCallIds)
  BY DEF Inv, TypeOK, RequestType
<1>a. config.calls \in Nat
  BY <1>0, EngineAssumption
<1>b. PICK n \in Nat : n = Len(calls) /\ n > 0
  BY <1>0
<1>1. CASE CheckBeforeToolCall # "ok"
  <2>1. CheckBeforeToolCall = "tool_output_limit_exceeded"
    BY <1>1, ChecksAreCodes
  <2>2. PICK r : r = Failure(CheckBeforeToolCall, "no", "limit")
    OBVIOUS
  <2>3. r \in ResultType /\ ResultFits(r)
    BY <1>0, <2>1, <2>2, LimitFailureFits
  <2>4. FailWith(r) /\ request' = request
    BY <1>1, <2>2 DEF FailLimit
  <2> QED BY <1>0, <1>1, <2>3, <2>4, FailStep DEF counters
<1>2. CASE CheckBeforeToolCall = "ok"
  <2> USE DEF batch
  <2>1. toolCalls' = toolCalls + 1 /\ pc' = "executing" /\ result' = result
    BY <1>2
  <2>5. TypeOK'
    BY <2>1 DEF Inv, TypeOK
  <2>6. LimitInv'
    <3>1. Within(config.calls, toolCalls + n)
      BY <1>b DEF Inv, LimitInv, CallsFit
    <3>2. CallsFit'
      BY <1>0, <1>a, <1>b, <2>1, <3>1 DEF CallsFit, Within
    <3>3. TurnsFit' /\ BytesFit' /\ LaterTurn'
      BY <2>1 DEF Inv, LimitInv, TurnsFit, BytesFit, LaterTurn, Within, Below
    <3> QED BY <3>2, <3>3 DEF LimitInv
  <2>7. TokenInv'
    BY <2>1 DEF Inv, TokenInv, CounterIsSpent, WithinBudget, AsksForTheRest
  <2>8. EndInv'
    BY <2>1 DEF Inv, EndInv, ResultInv, NoResultYet, ToolsInv
  <2>9. ConversationInv'
    BY <2>1 DEF Inv, ConversationInv
  <2> QED BY <2>5, <2>6, <2>7, <2>8, <2>9 DEF Inv
<1> QED BY <1>1, <1>2

(* A call ended by the context.                                              *)
LEMMA CallFailsStep ==
  ASSUME Inv, CallFails PROVE Inv'
<1> USE DEF CallFails
<1>0. ctx \in {"live"} \cup ContextEnds /\ request \in RequestType
  BY DEF Inv, TypeOK, RequestType
<1>1. PICK e : e = [code |-> ctx, retryable |-> "unset"]
  OBVIOUS
<1>2. e.code \in ExchangeCodes /\ e.retryable \in {"unset", "yes", "no"}
  BY <1>0, <1>1, ContextValues DEF ExchangeCodes
<1>3. PICK r : r = NormalizeError(e, "tool")
  OBVIOUS
<1>4. r \in ResultType /\ ResultFits(r)
  BY <1>0, <1>2, <1>3, NormalizeErrorFits
<1>5. FailWith(r) /\ request' = request
  BY <1>1, <1>3
<1> QED BY <1>0, <1>4, <1>5, FailStep

(* A shell command holds its call.                                           *)
LEMMA CallIsHeldStep ==
  ASSUME Inv, CallIsHeld PROVE Inv'
<1> USE DEF CallIsHeld, batch, counters
<1>1. TypeOK'
  BY DEF Inv, TypeOK
<1>2. LimitInv'
  BY DEF Inv, LimitInv, TurnsFit, CallsFit, BytesFit, LaterTurn, Within
<1>3. TokenInv'
  BY DEF Inv, TokenInv, CounterIsSpent, WithinBudget, AsksForTheRest
<1>4. EndInv'
  BY DEF Inv, EndInv, ResultInv, NoResultYet, ToolsInv
<1>5. ConversationInv'
  BY DEF ConversationInv
<1> QED BY <1>1, <1>2, <1>3, <1>4, <1>5 DEF Inv

(* A call returns: its result is bounded and joins those before it.          *)
LEMMA CallReturnsStep ==
  ASSUME Inv, CallReturns PROVE Inv'
<1>0. /\ config \in Configs /\ toolCalls \in Nat /\ calls \in Seq(ToolCallIds)
      /\ totalToolOutputBytes \in Nat /\ results \in Seq([id : ToolCallIds, length : Nat])
  BY DEF Inv, TypeOK
<1>a. PICK output \in ToolOutputs :
        \E length \in BoundLengths(output, MaxResultBytes(output)) :
          /\ totalToolOutputBytes' = totalToolOutputBytes + length
          /\ results' = Append(results, [id |-> Head(calls), length |-> length])
  BY DEF CallReturns
<1>1. PICK length \in BoundLengths(output, MaxResultBytes(output)) :
          /\ totalToolOutputBytes' = totalToolOutputBytes + length
          /\ results' = Append(results, [id |-> Head(calls), length |-> length])
  BY <1>a
<1>2. /\ pc = "executing" /\ pc' = "tool" /\ calls' = Tail(calls)
      /\ UNCHANGED <<config, ctx, turns, toolCalls, consumedTokens, usage, spent, conversation,
                     request, executor, result>>
  BY DEF CallReturns
<1>3. config.calls \in Nat /\ config.total \in Nat /\ config.result \in Nat
  BY <1>0, EngineAssumption
<1>4. PICK k \in Nat : k = MaxResultBytes(output) /\ Within(config.result, k)
                       /\ Within(config.total, totalToolOutputBytes + k)
  BY <1>0, MaxResultBytesFit, EngineAssumption DEF Inv, LimitInv, BytesFit
<1>5. length \in Nat /\ length <= k
  BY <1>4, BoundLengthsFit, EngineAssumption
<1>6. calls # <<>> /\ Within(config.calls, toolCalls + Len(calls) - 1)
  BY <1>2 DEF Inv, LimitInv, CallsFit
<1>7. PICK n \in Nat : n = Len(calls) /\ n > 0
  BY <1>0, <1>6
<1>8. PICK last : last = [id |-> Head(calls), length |-> length]
  OBVIOUS
<1>9. /\ last \in [id : ToolCallIds, length : Nat] /\ last.length = length
      /\ last.id = Head(calls) /\ results' = Append(results, last)
  BY <1>0, <1>1, <1>5, <1>6, <1>8
<1>10. /\ calls' \in Seq(ToolCallIds) /\ Len(calls') = n - 1
       /\ \A j \in 1..(n - 1) : calls'[j] = calls[j + 1]
  BY <1>0, <1>2, <1>6, <1>7
<1>11. PICK p \in Nat : p = Len(results)
  BY <1>0
<1>12. /\ results' \in Seq([id : ToolCallIds, length : Nat]) /\ Len(results') = p + 1
       /\ results'[p + 1] = last /\ \A j \in 1..p : results'[j] = results[j]
  BY <1>0, <1>9, <1>11
<1>13. TypeOK'
  BY <1>0, <1>1, <1>2, <1>5, <1>10, <1>12 DEF Inv, TypeOK
<1>14. LimitInv'
  <2>1. CallsFit'
    BY <1>0, <1>2, <1>3, <1>6, <1>7, <1>10 DEF Inv, LimitInv, CallsFit, Within
  <2>2. Within(config.total, totalToolOutputBytes')
    BY <1>0, <1>1, <1>3, <1>4, <1>5 DEF Within
  <2>3. ASSUME NEW i \in DOMAIN results' PROVE Within(config.result, results'[i].length)
    <3>1. i \in 1..(p + 1)
      BY <1>12, <2>3
    <3>2. CASE i = p + 1
      BY <1>3, <1>4, <1>5, <1>9, <1>12, <3>2 DEF Within
    <3>3. CASE i \in 1..p
      <4>1. i \in DOMAIN results
        BY <1>0, <1>11, <3>3
      <4> QED BY <1>12, <3>3, <4>1 DEF Inv, LimitInv, BytesFit
    <3> QED BY <3>1, <3>2, <3>3
  <2>4. BytesFit'
    BY <1>2, <2>2, <2>3 DEF BytesFit
  <2>5. TurnsFit' /\ LaterTurn'
    BY <1>2 DEF Inv, LimitInv, TurnsFit, LaterTurn, Within, Below
  <2> QED BY <2>1, <2>4, <2>5 DEF LimitInv
<1>15. TokenInv'
  BY <1>2 DEF Inv, TokenInv, CounterIsSpent, WithinBudget, AsksForTheRest
<1>16. EndInv'
  BY <1>2 DEF Inv, EndInv, ResultInv, NoResultYet, ToolsInv
<1>17. ConversationInv'
  <2>1. PICK m : m = conversation[Len(conversation)]
    OBVIOUS
  <2>2. BatchIs(m, results, calls) /\ conversation # <<>>
        /\ Answered(conversation, Len(conversation) - 1)
    BY <1>2, <2>1 DEF Inv, ConversationInv
  <2>3. /\ m.calls # <<>> /\ m.results = <<>> /\ Len(m.calls) = p + n
        /\ \A j \in 1..p : m.calls[j] = results[j].id
        /\ \A j \in 1..n : m.calls[p + j] = calls[j]
    BY <1>7, <1>11, <2>2 DEF BatchIs
  <2>4. \A j \in 1..(p + 1) : m.calls[j] = results'[j].id
    <3>1. m.calls[p + 1] = Head(calls)
      BY <1>0, <1>6, <1>7, <2>3
    <3>2. ASSUME NEW j \in 1..(p + 1) PROVE m.calls[j] = results'[j].id
      <4>1. CASE j = p + 1
        BY <1>9, <1>12, <3>1, <4>1
      <4>2. CASE j \in 1..p
        BY <1>12, <2>3, <4>2
      <4> QED BY <4>1, <4>2
    <3> QED BY <3>2
  <2>5. \A j \in 1..(n - 1) : m.calls[p + 1 + j] = calls'[j]
    <3> SUFFICES ASSUME NEW j \in 1..(n - 1) PROVE m.calls[p + 1 + j] = calls'[j]
      OBVIOUS
    <3>1. j + 1 \in 1..n /\ p + 1 + j = p + (j + 1)
      OBVIOUS
    <3>2. m.calls[p + (j + 1)] = calls[j + 1]
      BY <2>3, <3>1
    <3> QED BY <1>10, <3>1, <3>2
  <2>6. BatchIs(m, results', calls')
    BY <1>10, <1>12, <2>3, <2>4, <2>5 DEF BatchIs
  <2> QED BY <1>2, <2>1, <2>2, <2>6 DEF ConversationInv
<1> QED BY <1>13, <1>14, <1>15, <1>16, <1>17 DEF Inv

(* The batch is over: its results become a message.                          *)
LEMMA EndBatchStep ==
  ASSUME Inv, EndBatch PROVE Inv'
<1> USE DEF EndBatch
<1>0. /\ conversation \in Seq(MessageType) /\ results \in Seq([id : ToolCallIds, length : Nat])
  BY DEF Inv, TypeOK
<1>1. PICK ids : ids = [i \in DOMAIN results |-> results[i].id]
  OBVIOUS
<1>2. PICK p \in Nat : p = Len(results)
  BY <1>0
<1>3. ids \in Seq(ToolCallIds) /\ Len(ids) = p /\ \A j \in 1..p : ids[j] = results[j].id
  <2>1. ids = [i \in 1..p |-> results[i].id]
    BY <1>0, <1>1, <1>2
  <2>2. \A i \in 1..p : results[i] \in [id : ToolCallIds, length : Nat]
    BY <1>0, <1>2, SeqElement
  <2>3. \A i \in 1..p : results[i].id \in ToolCallIds
    BY <2>2
  <2> QED BY <2>1, <2>3
<1>4. PICK m : m = Message("tool", "none", <<>>, ids)
  OBVIOUS
<1>5. m \in MessageType /\ m.calls = <<>> /\ m.results = ids
  BY <1>3, <1>4 DEF Message, MessageType, Roles, Texts
<1>6. conversation' = Append(conversation, m)
  BY <1>1, <1>4
<1>7. TypeOK'
  BY <1>0, <1>5, <1>6 DEF Inv, TypeOK, counters
<1>8. LimitInv'
  BY DEF Inv, LimitInv, TurnsFit, CallsFit, BytesFit, LaterTurn, Within, counters
<1>9. TokenInv'
  BY DEF Inv, TokenInv, CounterIsSpent, WithinBudget, AsksForTheRest, counters
<1>10. EndInv'
  BY DEF Inv, EndInv, ResultInv, NoResultYet, ToolsInv
<1>11. ConversationInv'
  <2>1. PICK last : last = conversation[Len(conversation)]
    OBVIOUS
  <2>2. /\ BatchIs(last, results, calls) /\ conversation # <<>>
        /\ Answered(conversation, Len(conversation) - 1)
    BY <2>1 DEF Inv, ConversationInv
  <2>3. /\ last.calls # <<>> /\ last.results = <<>> /\ Len(last.calls) = p
        /\ \A j \in 1..p : last.calls[j] = ids[j]
    BY <1>2, <1>3, <2>2 DEF BatchIs
  <2>4. last \in MessageType
    BY <1>0, <2>1, <2>2
  <2>5. last.calls \in Seq(ToolCallIds)
    BY <2>4 DEF MessageType
  <2>6. last.calls = ids
    BY <1>3, <2>3, <2>5
  <2>7. Answered(conversation', Len(conversation) + 1)
    BY <1>0, <1>5, <1>6, <2>1, <2>2, <2>3, <2>6, AnswerMessage
  <2>8. Len(conversation') = Len(conversation) + 1
    BY <1>0, <1>6
  <2> QED BY <2>7, <2>8 DEF ConversationInv
<1> QED BY <1>7, <1>8, <1>9, <1>10, <1>11 DEF Inv

-----------------------------------------------------------------------------
(* Ending *)

(* finish(): the executor is closed; a success whose cleanup failed becomes  *)
(* a failure that keeps its output.                                          *)
LEMMA FinishStep ==
  ASSUME Inv, Finish PROVE Inv'
<1> USE DEF Finish
<1>0. /\ ctx \in {"live"} \cup ContextEnds /\ result \in ResultType /\ ResultFits(result)
      /\ executor \in {"none", "open", "closed"}
  BY DEF Inv, TypeOK, EndInv, ResultInv
<1>1. result' \in ResultType /\ ResultFits(result')
  <2>1. CASE result' = result
    BY <1>0, <2>1
  <2>2. CASE result' # result
    <3>1. /\ result.exit = 0
          /\ result' = [Failure("tool_cleanup_failed", "unset", "cleanup")
                           EXCEPT !.output = result.output]
      BY <2>2
    <3>2. PICK r : r = result'
      OBVIOUS
    <3>3. r = [outcome |-> "Failed", code |-> "tool_cleanup_failed", retryable |-> "unset",
               output |-> result.output, exit |-> 1, from |-> "cleanup", ctx |-> ctx]
      BY <3>1, <3>2 DEF Failure
    <3>4. result.output \in BOOLEAN
      BY <1>0 DEF ResultType
    <3>5. r \in ResultType
      BY <1>0, <3>3, <3>4 DEF ResultType, ErrorCodes
    <3>6. result.output
      BY <1>0, <3>1 DEF ResultFits
    <3>7. ResultFits(r)
      BY <3>3, <3>6 DEF ResultFits
    <3> QED BY <3>2, <3>5, <3>7
  <2> QED BY <2>1, <2>2
<1>2. executor' \in {"none", "closed"}
  BY <1>0
<1>3. TypeOK'
  BY <1>1, <1>2 DEF Inv, TypeOK, batch, counters
<1>4. LimitInv'
  BY DEF Inv, LimitInv, TurnsFit, CallsFit, BytesFit, LaterTurn, Within, batch, counters
<1>5. TokenInv'
  BY DEF Inv, TokenInv, CounterIsSpent, WithinBudget, AsksForTheRest, counters
<1>6. EndInv'
  BY <1>1, <1>2 DEF EndInv, ResultInv, NoResultYet, ToolsInv
<1>7. ConversationInv'
  BY DEF ConversationInv
<1> QED BY <1>3, <1>4, <1>5, <1>6, <1>7 DEF Inv

(* The envelope line is written, or the exit code says that it was not.      *)
LEMMA WriteEnvelopeStep ==
  ASSUME Inv, WriteEnvelope PROVE Inv'
<1> USE DEF WriteEnvelope
<1>0. result \in ResultType /\ ResultFits(result)
  BY DEF Inv, TypeOK, EndInv, ResultInv
<1>1. result' \in ResultType /\ ResultFits(result')
  <2>1. CASE result' = result
    BY <1>0, <2>1
  <2>2. CASE result' = [result EXCEPT !.exit = 1]
    <3>1. result' \in ResultType
      BY <1>0, <2>2 DEF ResultType
    <3>2. /\ result'.exit = 1 /\ result'.output = result.output /\ result'.from = result.from
          /\ result'.code = result.code /\ result'.outcome = result.outcome
      BY <1>0, <2>2 DEF ResultType
    <3> QED BY <1>0, <3>1, <3>2 DEF ResultFits
  <2> QED BY <2>1, <2>2
<1>2. TypeOK'
  BY <1>1 DEF Inv, TypeOK, batch, counters
<1>3. LimitInv'
  BY DEF Inv, LimitInv, TurnsFit, CallsFit, BytesFit, LaterTurn, Within, batch, counters
<1>4. TokenInv'
  BY DEF Inv, TokenInv, CounterIsSpent, WithinBudget, AsksForTheRest, counters
<1>5. EndInv'
  BY <1>1 DEF Inv, EndInv, ResultInv, NoResultYet, ToolsInv
<1>6. ConversationInv'
  BY DEF ConversationInv
<1> QED BY <1>2, <1>3, <1>4, <1>5, <1>6 DEF Inv

(* The context ends beside the loop.                                         *)
LEMMA EndContextStep ==
  ASSUME Inv, EndContext PROVE Inv'
<1> USE DEF EndContext, batch, counters
<1>1. TypeOK'
  BY DEF Inv, TypeOK
<1>2. LimitInv'
  BY DEF Inv, LimitInv, TurnsFit, CallsFit, BytesFit, LaterTurn, Within, Below
<1>3. TokenInv'
  BY DEF Inv, TokenInv, CounterIsSpent, WithinBudget, AsksForTheRest, RemainingTokenBudget
<1>4. EndInv'
  BY DEF Inv, EndInv, ResultInv, NoResultYet, ToolsInv
<1>5. ConversationInv'
  BY DEF Inv, ConversationInv
<1> QED BY <1>1, <1>2, <1>3, <1>4, <1>5 DEF Inv

-----------------------------------------------------------------------------
(* The theorems *)

(* The invariant holds when the process starts.                              *)
LEMMA InitInv == Init => Inv
<1> SUFFICES ASSUME Init PROVE Inv
  OBVIOUS
<1> USE DEF Init
<1>0. config.turns \in Nat /\ config.calls \in Nat /\ config.total \in Nat /\ config.tokens \in Nat
  BY EngineAssumption
<1>1. PICK m : m = Message("user", "text", <<>>, <<>>)
  OBVIOUS
<1>2. m \in MessageType /\ m.calls = <<>> /\ m.results = <<>>
  BY <1>1 DEF Message, MessageType, Roles, Texts
<1>3. conversation = <<m>>
  BY <1>1
<1>4. TypeOK
  <2>1. conversation \in Seq(MessageType)
    BY <1>2, <1>3
  <2>2. request \in RequestType
    BY NoRequestType
  <2>3. usage \in UsageType
    <3>1. Unreported \in Metrics
      BY DEF Metrics
    <3> QED BY <3>1 DEF NoUsage, UsageType
  <2> QED BY <2>1, <2>2, <2>3, NoResultType, MaxIntAssumption DEF TypeOK
<1>5. LimitInv
  BY <1>0 DEF LimitInv, TurnsFit, CallsFit, BytesFit, LaterTurn, Within
<1>6. TokenInv
  BY <1>0, MaxIntAssumption DEF TokenInv, CounterIsSpent, WithinBudget, AsksForTheRest, Within
<1>7. EndInv
  BY DEF EndInv, ResultInv, NoResultYet, ToolsInv
<1>8. ConversationInv
  BY <1>2, <1>3 DEF ConversationInv, Answered
<1> QED BY <1>4, <1>5, <1>6, <1>7, <1>8 DEF Inv

(* Every step of the runtime, the provider, a tool or the context keeps it.  *)
LEMMA Invariance == Spec => []Inv
<1>1. ASSUME Inv, [Next]_vars PROVE Inv'
  <2>1. CASE UNCHANGED vars
    <3> USE <1>1, <2>1 DEF vars
    <3>1. TypeOK'
      BY DEF Inv, TypeOK
    <3>2. LimitInv'
      BY DEF Inv, LimitInv, TurnsFit, CallsFit, BytesFit, LaterTurn, Within, Below
    <3>3. TokenInv'
      BY DEF Inv, TokenInv, CounterIsSpent, WithinBudget, AsksForTheRest, RemainingTokenBudget
    <3>4. EndInv'
      BY DEF Inv, EndInv, ResultInv, NoResultYet, ToolsInv
    <3>5. ConversationInv'
      BY DEF Inv, ConversationInv
    <3> QED BY <3>1, <3>2, <3>3, <3>4, <3>5 DEF Inv
  <2>2. CASE Own
    BY <2>2, <1>1, LoadFailsStep, LoadStep, ResolveProviderStep, ResolveToolsStep, BeginTurnStep,
       TurnFailsStep, BeginBatchStep, BeginCallStep, EndBatchStep, FinishStep, WriteEnvelopeStep DEF Own
  <2>3. CASE Complete
    BY <2>3, <1>1, CompleteFailsStep, InvalidResponseStep, ResponseStep DEF Complete
  <2>4. CASE Execute
    BY <2>4, <1>1, CallIsHeldStep, CallFailsStep, CallReturnsStep DEF Execute
  <2>5. CASE EndContext
    BY <2>5, <1>1, EndContextStep
  <2> QED BY <1>1, <2>1, <2>2, <2>3, <2>4, <2>5 DEF Next
<1> QED BY <1>1, InitInv, PTL DEF Spec

(* The loop's state is well typed; in particular no token counter leaves the *)
(* int64 range (limits.go saturatingAdd).                                    *)
THEOREM TypeCorrect == Spec => []TypeOK
<1>1. Inv => TypeOK
  BY DEF Inv
<1> QED BY <1>1, Invariance, PTL

(* No limit of turns, tool calls or output bytes is ever overrun, whatever   *)
(* the provider asks for and the tools return (limits.go, loop.go).          *)
THEOREM LimitsAlwaysHold == Spec => []LimitsHold
<1>1. Inv => LimitsHold
  BY DEF Inv, LimitInv, TurnsFit, CallsFit, BytesFit, LaterTurn, LimitsHold
<1> QED BY <1>1, Invariance, PTL

(* A request is only out while the tokens spent are within the budget, and   *)
(* it asks for no more than is left (remainingTokenBudget).                  *)
THEOREM SpendingAlwaysStops == Spec => []SpendingStops
<1>1. Inv => SpendingStops
  <2> SUFFICES ASSUME Inv, pc = "waiting", config.tokens # 0, config.tokens < MaxInt
               PROVE  /\ spent <= config.tokens
                      /\ request.maxTokens >= 1
                      /\ request.maxTokens = 1 \/ request.maxTokens + spent <= config.tokens
    BY DEF SpendingStops
  <2>1. PICK t \in Nat : t = config.tokens /\ t # 0 /\ t < MaxInt
    BY EngineAssumption DEF Inv, TypeOK
  <2>2. consumedTokens \in 0..MaxInt /\ spent \in Nat
    BY DEF Inv, TypeOK
  <2>3. consumedTokens <= t
    BY <2>1 DEF Inv, TokenInv, WithinBudget, Within
  <2>4. consumedTokens = spent
    BY <2>1, <2>2, <2>3, MaxIntAssumption DEF Inv, TokenInv, CounterIsSpent
  <2>5. RemainingTokenBudget = IF t - spent < 1 THEN 1 ELSE t - spent
    BY <2>1, <2>4 DEF RemainingTokenBudget
  <2>6. request.maxTokens = RemainingTokenBudget
    <3>1. RemainingTokenBudget # 0
      BY <2>1, <2>2, <2>5
    <3> QED BY <3>1 DEF Inv, TokenInv, AsksForTheRest, WireMaxTokens
  <2> QED BY <2>1, <2>2, <2>3, <2>4, <2>5, <2>6
<1> QED BY <1>1, Invariance, PTL

(* The error that came back with a request: only a context that has ended    *)
(* made it a deadline, only that or the transport a cancellation, and the    *)
(* transport's cancellation is one while the context is live.                *)
ErrorFits ==
    pc = "failed" =>
        /\ request.error.code = "deadline" => ctx = "deadline"
        /\ request.error.code = "canceled" =>
              ctx = "canceled" \/ request.error.from = "transport"
        /\ (request.error.from = "transport" /\ ctx = "live") =>
              request.error.code = "canceled"

BlameInv == ErrorFits /\ ContextIsBlamed

(* normalizeError on an error that fits blames what it should.               *)
LEMMA NormalizeErrorBlames ==
  ASSUME ctx \in {"live", "canceled", "deadline"}, NEW error,
         error.code \in {"none"} \cup ExchangeCodes,
         NEW from \in {"provider", "transport", "tool"},
         error.code = "deadline" => ctx = "deadline",
         error.code = "canceled" => ctx = "canceled" \/ from = "transport",
         (from = "transport" /\ ctx = "live") => error.code = "canceled",
         result' = NormalizeError(error, from)
  PROVE  ContextIsBlamed'
<1>1. CASE ctx = "deadline"
  <2>1. result' = Failure("deadline_exceeded", "yes", from)
    BY <1>1 DEF NormalizeError
  <2> QED BY <1>1, <2>1 DEF Failure, ContextIsBlamed
<1>2. CASE ctx = "canceled"
  <2>1. result' = Failure("cancelled", "yes", from)
    BY <1>2 DEF NormalizeError
  <2> QED BY <1>2, <2>1 DEF Failure, ContextIsBlamed
<1>3. CASE ctx = "live" /\ error.code = "canceled"
  <2>1. result' = Failure("cancelled", "yes", from) /\ from = "transport"
    BY <1>3 DEF NormalizeError
  <2> QED BY <1>3, <2>1 DEF Failure, ContextIsBlamed
<1>4. CASE ctx = "live" /\ error.code # "canceled"
  <2>1. result' = Failure(error.code, error.retryable, from) /\ from # "transport"
    BY <1>4 DEF NormalizeError
  <2>2. error.code \notin {"cancelled", "deadline_exceeded"}
    BY DEF ExchangeCodes
  <2> QED BY <1>4, <2>1, <2>2 DEF Failure, ContextIsBlamed
<1> QED BY <1>1, <1>2, <1>3, <1>4

(* A result that neither a provider nor a tool failed with blames nothing.   *)
LEMMA OthersBlameNothing ==
  ASSUME result'.from \in {"config", "limit", "answer", "cleanup"}
  PROVE  ContextIsBlamed'
BY DEF ContextIsBlamed

(* The steps that make no failure of a provider or a tool.                   *)
LEMMA OtherStepsBlame ==
  ASSUME Inv, BlameInv, Next, ~CompleteFails, ~TurnFails, ~CallFails
  PROVE  BlameInv'
<1>1. result' = result \/ result'.from \in {"config", "limit", "answer", "cleanup"}
      \/ (WriteEnvelope /\ result' = [result EXCEPT !.exit = 1])
  <2>1. CASE Own
    <3>1. CASE LoadFails
      <4>1. PICK r : r = Failure("invalid_configuration", "unset", "config")
        OBVIOUS
      <4>2. result' = [r EXCEPT !.exit = 2]
        BY <3>1, <4>1 DEF LoadFails
      <4> QED BY <4>1, <4>2 DEF Failure
    <3>2. CASE Load \/ ResolveProvider \/ ResolveTools
      BY <3>2 DEF Load, ResolveProvider, ResolveTools, FailWith, Failure
    <3>3. CASE BeginTurn \/ BeginBatch \/ BeginCall \/ EndBatch
      BY <3>3 DEF BeginTurn, BeginBatch, BeginCall, EndBatch, FailLimit, FailWith, Failure
    <3>4. CASE Finish
      BY <3>4 DEF Finish, Failure
    <3>5. CASE WriteEnvelope
      BY <3>5 DEF WriteEnvelope
    <3> QED BY <2>1, <3>1, <3>2, <3>3, <3>4, <3>5 DEF Own
  <2>2. CASE InvalidResponse
    BY <2>2 DEF InvalidResponse, FailWith, Failure
  <2>3. CASE Response
    <3>1. PICK r : \/ FailLimit(CheckAfterResponse(consumedTokens'))
                   \/ Continue(r)
      BY <2>3, Zenon DEF Response
    <3>2. CASE FailLimit(CheckAfterResponse(consumedTokens'))
      BY <3>2 DEF FailLimit, FailWith, Failure
    <3>3. CASE Continue(r)
      <4>1. Success.from = "answer"
        BY DEF Success, NoResult
      <4>2. \/ result' = result \/ result' = Success
            \/ \E code : result' = Failure(code, "unset", "answer")
        BY <3>3, Zenon DEF Continue, FailWith
      <4> QED BY <4>1, <4>2 DEF Failure
    <3> QED BY <3>1, <3>2, <3>3
  <2>4. CASE CallIsHeld \/ CallReturns \/ EndContext
    BY <2>4 DEF CallIsHeld, CallReturns, EndContext
  <2> QED BY <2>1, <2>2, <2>3, <2>4 DEF Next, Complete, Execute
<1>2. ContextIsBlamed'
  <2>1. CASE WriteEnvelope /\ result' = [result EXCEPT !.exit = 1]
    <3>1. result \in ResultType
      BY DEF Inv, TypeOK
    <3>2. /\ result'.from = result.from /\ result'.code = result.code
          /\ result'.ctx = result.ctx
      BY <2>1, <3>1 DEF ResultType
    <3> QED BY <3>2 DEF BlameInv, ContextIsBlamed
  <2>2. CASE result' = result
    BY <2>2 DEF BlameInv, ContextIsBlamed
  <2> QED BY <1>1, <2>1, <2>2, OthersBlameNothing
<1>3. ErrorFits'
  <2>1. CASE EndContext
    <3>1. ctx = "live" /\ ctx' \in ContextEnds /\ pc' = pc /\ request' = request
      BY <2>1 DEF EndContext
    <3>2. ctx' # "live"
      BY <3>1, EngineAssumption
    <3> QED BY <3>1, <3>2 DEF BlameInv, ErrorFits
  <2>2. CASE ~EndContext
    <3>1. pc' # "failed"
      <4>1. CASE Own
        BY <4>1 DEF Own, LoadFails, Load, ResolveProvider, ResolveTools, BeginTurn, BeginBatch,
           BeginCall, EndBatch, Finish, WriteEnvelope, FailLimit, FailWith
      <4>2. CASE InvalidResponse
        BY <4>2 DEF InvalidResponse, FailWith
      <4>3. CASE Response
        <5>1. PICK r : \/ FailLimit(CheckAfterResponse(consumedTokens'))
                       \/ Continue(r)
          BY <4>3, Zenon DEF Response
        <5> QED BY <5>1 DEF FailLimit, FailWith, Continue
      <4>4. CASE CallIsHeld \/ CallReturns
        BY <4>4 DEF CallIsHeld, CallReturns
      <4> QED BY <2>2, <4>1, <4>2, <4>3, <4>4 DEF Next, Complete, Execute
    <3> QED BY <3>1 DEF ErrorFits
  <2> QED BY <2>1, <2>2
<1> QED BY <1>2, <1>3 DEF BlameInv

(* Every step keeps the blame where it belongs.                              *)
LEMMA BlameStep ==
  ASSUME Inv, BlameInv, [Next]_vars PROVE BlameInv'
<1>0. /\ ctx \in {"live", "canceled", "deadline"} /\ config \in Configs
      /\ request \in RequestType
  BY ContextValues DEF Inv, TypeOK
<1>1. CASE UNCHANGED vars
  BY <1>1 DEF vars, BlameInv, ErrorFits, ContextIsBlamed
<1>2. CASE CompleteFails
  <2>1. PICK x \in Exchanges :
          /\ ~Returned(x).ok
          /\ request' = [request EXCEPT !.error =
                Error(Returned(x).code, Returned(x).retryable,
                      IF x.kind = "transport" /\ x.error = "canceled"
                      THEN "transport" ELSE "provider")]
    BY <1>2 DEF CompleteFails
  <2>2. UNCHANGED <<ctx, result>>
    BY <1>2 DEF CompleteFails
  <2>3. /\ Returned(x).code = "deadline" => ctx = "deadline"
        /\ Returned(x).code = "canceled" =>
              ctx = "canceled" \/ (x.kind = "transport" /\ x.error = "canceled")
        /\ (x.kind = "transport" /\ x.error = "canceled" /\ ctx = "live") =>
              Returned(x).code = "canceled"
    BY <1>0, <2>1, FailedExchange
  <2>4. /\ request'.error.code = Returned(x).code
        /\ request'.error.from = IF x.kind = "transport" /\ x.error = "canceled"
                                 THEN "transport" ELSE "provider"
    BY <1>0, <2>1 DEF Error, RequestType
  <2> QED BY <2>2, <2>3, <2>4 DEF BlameInv, ErrorFits, ContextIsBlamed
<1>3. CASE TurnFails
  <2>1. PICK e : e = request.error
    OBVIOUS
  <2>2. /\ e.code \in {"none"} \cup ExchangeCodes /\ e.from \in {"provider", "transport", "tool"}
    BY <1>0, <2>1 DEF RequestType
  <2>3. pc = "failed" /\ pc' = "finish" /\ result' = NormalizeError(e, e.from)
    BY <1>3, <2>1 DEF TurnFails, FailWith
  <2>4. ContextIsBlamed'
    BY <1>0, <2>1, <2>2, <2>3, NormalizeErrorBlames DEF BlameInv, ErrorFits
  <2> QED BY <2>3, <2>4 DEF BlameInv, ErrorFits
<1>4. CASE CallFails
  <2>1. PICK e : e = [code |-> ctx, retryable |-> "unset"]
    OBVIOUS
  <2>2. ctx # "live" /\ pc' = "finish" /\ result' = NormalizeError(e, "tool")
    BY <1>4, <2>1 DEF CallFails, FailWith
  <2>3. e.code = ctx /\ e.code \in {"none"} \cup ExchangeCodes
    BY <1>0, <2>1, <2>2 DEF ExchangeCodes
  <2>4. ContextIsBlamed'
    BY <1>0, <2>2, <2>3, NormalizeErrorBlames
  <2> QED BY <2>2, <2>4 DEF BlameInv, ErrorFits
<1> QED BY <1>1, <1>2, <1>3, <1>4, OtherStepsBlame

(* A failure of a provider or a tool is put down to the run's deadline       *)
(* exactly when that had passed, and called cancelled exactly when the run   *)
(* was cancelled or, under a live context, the transport reported a          *)
(* cancellation: whatever came back, and however the context ended between   *)
(* the error and the report (normalizeRequestError, normalizeError).         *)
THEOREM ContextAlwaysBlamed == Spec => []ContextIsBlamed
<1>1. Init => BlameInv
  BY DEF Init, BlameInv, ErrorFits, ContextIsBlamed, NoResult
<1>2. Inv /\ BlameInv /\ [Next]_vars => BlameInv'
  BY BlameStep
<1>3. BlameInv => ContextIsBlamed
  BY DEF BlameInv
<1> QED BY <1>1, <1>2, <1>3, Invariance, PTL DEF Spec

(* From the result on, an output is that of the final answer.                *)
AnswerInv ==
    (pc \in {"finish", "write", "exited"} /\ result.output) => FinalAnswer

(* Every step keeps it: only a final answer makes an output.                 *)
LEMMA AnswerStep ==
  ASSUME Inv, AnswerInv, [Next]_vars PROVE AnswerInv'
<1>0. /\ conversation \in Seq(MessageType) /\ config \in Configs /\ result \in ResultType
      /\ ctx \in {"live", "canceled", "deadline"}
  BY ContextValues DEF Inv, TypeOK
<1>1. CASE UNCHANGED vars \/ EndContext
  BY <1>1 DEF vars, counters, EndContext, AnswerInv, FinalAnswer, Within
<1>2. CASE Finish \/ WriteEnvelope
  <2>1. result'.output => result.output
    <3>1. CASE Finish
      BY <1>0, <3>1 DEF Finish, Failure, ResultType
    <3>2. CASE WriteEnvelope
      BY <1>0, <3>2 DEF WriteEnvelope, ResultType
    <3> QED BY <1>2, <3>1, <3>2
  <2>2. pc \in {"finish", "write"} /\ UNCHANGED <<config, consumedTokens, conversation>>
    BY <1>2 DEF Finish, WriteEnvelope, counters
  <2> QED BY <2>1, <2>2 DEF AnswerInv, FinalAnswer, Within
<1>3. CASE Response
  <2>1. PICK x \in Exchanges :
          LET r == Returned(x) IN
          /\ r.ok /\ ValidResponse(r)
          /\ consumedTokens' = SaturatingAdd(consumedTokens, MeasuredTokens(r.usage))
          /\ IF CheckAfterResponse(consumedTokens') # "ok"
             THEN FailLimit(CheckAfterResponse(consumedTokens'))
                  /\ UNCHANGED <<batch, conversation>>
             ELSE /\ conversation' =
                        Append(conversation, Message("assistant", r.text, CallIds(r), <<>>))
                  /\ Continue(r)
    BY <1>3, Zenon DEF Response
  <2>2. PICK r : r = Returned(x)
    OBVIOUS
  <2>3. /\ r.calls \in Seq([id : ToolCallIds, shape : {"usable", "malformed"}])
        /\ r.text \in Texts
    BY <1>0, <2>1, <2>2, AnsweredExchange
  <2>4. config' = config
    BY <1>3 DEF Response
  <2>5. CASE CheckAfterResponse(consumedTokens') # "ok"
    <3>1. FailLimit(CheckAfterResponse(consumedTokens'))
      BY <2>1, <2>5
    <3> QED BY <3>1 DEF FailLimit, FailWith, Failure, AnswerInv
  <2>6. CASE CheckAfterResponse(consumedTokens') = "ok"
    <3>1. /\ conversation' =
                Append(conversation, Message("assistant", r.text, CallIds(r), <<>>))
          /\ Continue(r)
      BY <2>1, <2>2, <2>6
    <3>2. CASE ~(r.calls = <<>> /\ r.stop \in {"end_turn", "stop_sequence"})
      BY <3>1, <3>2 DEF Continue, FailWith, Failure, AnswerInv
    <3>3. CASE r.calls = <<>> /\ r.stop \in {"end_turn", "stop_sequence"}
      <4>1. PICK m : m = Message("assistant", r.text, CallIds(r), <<>>)
        OBVIOUS
      <4>2. m.role = "assistant" /\ m.calls = <<>>
        BY <2>3, <3>3, <4>1, CallIdsType DEF Message
      <4>3. conversation'[Len(conversation')] = m
        BY <1>0, <3>1, <4>1
      <4>4. Within(config'.tokens, consumedTokens')
        <5>1. config.tokens \in Nat /\ consumedTokens' \in Int
          <6>1. consumedTokens' \in 0..MaxInt
            BY <1>3, ResponseStep DEF Inv, TypeOK
          <6> QED BY <1>0, <6>1, EngineAssumption
        <5> QED BY <2>4, <2>6, <5>1 DEF CheckAfterResponse, Within
      <4> QED BY <4>2, <4>3, <4>4 DEF AnswerInv, FinalAnswer
    <3> QED BY <3>2, <3>3
  <2> QED BY <2>5, <2>6
<1>4. CASE LoadFails
  <2>1. PICK r : r = Failure("invalid_configuration", "unset", "config")
    OBVIOUS
  <2>2. result' = [r EXCEPT !.exit = 2]
    BY <1>4, <2>1 DEF LoadFails
  <2>3. ~result'.output
    BY <2>1, <2>2 DEF Failure
  <2> QED BY <2>3 DEF AnswerInv
<1>5. CASE Load \/ ResolveProvider \/ ResolveTools \/ BeginTurn \/ BeginBatch \/ BeginCall
           \/ EndBatch
  BY <1>5 DEF Load, ResolveProvider, ResolveTools, BeginTurn, BeginBatch, BeginCall, EndBatch,
     FailLimit, FailWith, Failure, AnswerInv
<1>6. CASE CompleteFails \/ InvalidResponse \/ CallIsHeld \/ CallReturns
  <2>1. CASE InvalidResponse
    BY <2>1 DEF InvalidResponse, FailWith, Failure, AnswerInv
  <2>2. CASE CompleteFails \/ CallIsHeld \/ CallReturns
    <3>1. pc' \notin {"finish", "write", "exited"}
      BY <2>2 DEF CompleteFails, CallIsHeld, CallReturns
    <3> QED BY <3>1 DEF AnswerInv
  <2> QED BY <1>6, <2>1, <2>2
<1>7. CASE TurnFails \/ CallFails
  BY <1>7 DEF TurnFails, CallFails, NormalizeError, FailWith, Failure, AnswerInv
<1> QED BY <1>1, <1>2, <1>3, <1>4, <1>5, <1>6, <1>7 DEF Next, Own, Complete, Execute

(* The process ends with its tools closed, exit code 0 is a success with an  *)
(* output, and an output is that of a final answer within the budget, beside *)
(* a failure only when the cleanup after it failed (finish, run in main.go). *)
THEOREM ExitAlwaysAgrees == Spec => []ExitAgrees
<1>1. Init => AnswerInv
  BY DEF Init, AnswerInv
<1>2. Inv /\ AnswerInv /\ [Next]_vars => AnswerInv'
  BY AnswerStep
<1>3. Inv /\ AnswerInv => ExitAgrees
  BY DEF Inv, EndInv, ResultInv, ToolsInv, ResultFits, AnswerInv, ExitAgrees
<1> QED BY <1>1, <1>2, <1>3, Invariance, PTL DEF Spec

(* When a request is out every message of the conversation that makes tool   *)
(* calls is followed by the message with their results, one for one and in   *)
(* order (executeToolBatch): what CallsAreAnswered then says of the wire.    *)
ConversationIsAnswered == pc = "waiting" => Answered(conversation, Len(conversation))

(* Spec => []ConversationIsAnswered: every request of the engine answers all its calls. *)
THEOREM ConversationAnswered == Spec => []ConversationIsAnswered
<1>1. Inv => ConversationIsAnswered
  BY DEF Inv, ConversationInv, ConversationIsAnswered
<1> QED BY <1>1, Invariance, PTL

-----------------------------------------------------------------------------
(* Flattening, by induction on the number of parts *)

(* Every set of natural numbers that is not empty has a least element. *)
LEMMA LeastNumber ==
  ASSUME NEW S, S \subseteq Nat, S # {}
  PROVE  \E m \in S : \A n \in S : m <= n
<1> DEFINE R == {ss \in Nat \X Nat : ss[1] < ss[2]}
<1>0. IsWellFoundedOn(R, Nat)
  BY NatLessThanWellFounded, Zenon DEF OpToRel
<1>1. PICK x \in S : \A y \in S : ~ (<<y, x>> \in R)
  <2> HIDE DEF R
  <2> QED BY <1>0, WFMin
<1>2. ASSUME NEW y \in S PROVE x <= y
  <2>1. x \in Nat /\ y \in Nat
    OBVIOUS
  <2>2. ASSUME y < x PROVE <<y, x>> \in R
    BY <2>1, <2>2
  <2>3. <<y, x>> \notin R
    <3> HIDE DEF R
    <3> QED BY <1>1
  <2> HIDE DEF R
  <2> QED BY <2>1, <2>2, <2>3
<1> QED BY <1>2

(* Induction up to n: a set that has 0 and, with each number below n, the    *)
(* next has all of them.                                                     *)
LEMMA InductionUpTo ==
  ASSUME NEW n \in Nat, NEW P, 0 \in P, \A k \in 0..n : k \in P /\ k < n => k + 1 \in P
  PROVE  \A k \in 0..n : k \in P
<1> DEFINE S == {k \in 0..n : k \notin P}
<1> SUFFICES ASSUME S # {} PROVE FALSE
  OBVIOUS
<1>1. S \subseteq Nat
  OBVIOUS
<1>2. PICK m \in S : \A k \in S : m <= k
  <2> HIDE DEF S
  <2> QED BY <1>1, LeastNumber
<1>3. m \in 1..n /\ m \notin P
  OBVIOUS
<1>4. m - 1 \in 0..n /\ m - 1 \in P
  BY <1>2, <1>3
<1> QED BY <1>3, <1>4

(* f is flatten, the recursive function of FlattenSeq, on its first n parts. *)
Flattens(f, s, n) ==
    f = [i \in 1..n |-> IF i = 1 THEN s[i] ELSE f[i - 1] \o s[i]]

(* flatten at one index. *)
LEMMA FlattensAt ==
  ASSUME NEW s, NEW n \in Nat, NEW f, Flattens(f, s, n), NEW i \in 1..n
  PROVE  f[i] = IF i = 1 THEN s[i] ELSE f[i - 1] \o s[i]
<1> DEFINE g == [k \in 1..n |-> IF k = 1 THEN s[k] ELSE f[k - 1] \o s[k]]
<1>1. f = g
  BY Zenon DEF Flattens
<1>2. g[i] = IF i = 1 THEN s[i] ELSE f[i - 1] \o s[i]
  BY Zenon
<1> HIDE DEF g
<1> QED BY <1>1, <1>2, Zenon

(* Each step of flatten appends the next part. *)
LEMMA FlattensNext ==
  ASSUME NEW s, NEW n \in Nat, NEW f, Flattens(f, s, n), NEW k \in 1..n, k + 1 \in 1..n
  PROVE  f[k + 1] = f[k] \o s[k + 1]
<1>1. PICK i \in 1..n : i = k + 1
  OBVIOUS
<1>2. f[i] = IF i = 1 THEN s[i] ELSE f[i - 1] \o s[i]
  <2>1. i \in 1..n /\ Flattens(f, s, n) /\ n \in Nat
    OBVIOUS
  <2> QED BY <2>1, FlattensAt
<1>3. i # 1 /\ i - 1 = k
  BY <1>1
<1>4. f[i] = f[k] \o s[i]
  BY <1>2, <1>3, Zenon
<1> QED BY <1>1, <1>4, Zenon

(* There is such a function: it is built one index after the other. *)
LEMMA FlattensExists ==
  ASSUME NEW s, NEW n \in Nat
  PROVE  \E f : Flattens(f, s, n)
<1> DEFINE P == {k \in 0..n : \E f : Flattens(f, s, k)}
<1>1. 0 \in P
  <2> DEFINE f == [i \in 1..0 |-> s]
  <2>1. Flattens(f, s, 0)
    BY DEF Flattens
  <2> QED BY <2>1
<1>2. ASSUME NEW k \in 0..n, k \in P, k < n PROVE k + 1 \in P
  <2>1. PICK f : Flattens(f, s, k)
    BY <1>2
  <2> DEFINE g == [i \in 1..(k + 1) |-> IF i <= k THEN f[i]
                                        ELSE IF i = 1 THEN s[i] ELSE f[i - 1] \o s[i]]
             h == [i \in 1..(k + 1) |-> IF i = 1 THEN s[i] ELSE g[i - 1] \o s[i]]
  <2>2. ASSUME NEW i \in 1..(k + 1) PROVE g[i] = h[i]
    <3>1. CASE i = 1
      <4>1. f[1] = s[1] \/ k < 1
        BY <2>1, FlattensAt
      <4> QED BY <3>1, <4>1
    <3>2. CASE i # 1
      <4>1. g[i - 1] = f[i - 1]
        BY <3>2
      <4>2. i <= k => f[i] = f[i - 1] \o s[i]
        <5> SUFFICES ASSUME i <= k PROVE f[i] = f[i - 1] \o s[i]
          OBVIOUS
        <5> DEFINE l == i - 1
        <5>1. l \in 1..k /\ l + 1 \in 1..k /\ k \in Nat /\ l + 1 = i
          BY <3>2
        <5> HIDE DEF l
        <5>2. f[l + 1] = f[l] \o s[l + 1]
          BY <2>1, <5>1, FlattensNext
        <5>3. f[i] = f[l] \o s[i]
          BY <5>1, <5>2, Zenon
        <5> QED BY <5>3, Zenon DEF l
      <4> QED BY <3>2, <4>1, <4>2
    <3> QED BY <3>1, <3>2
  <2>3. g = h
    BY <2>2
  <2>4. Flattens(g, s, k + 1)
    BY <2>3 DEF Flattens
  <2>5. \E e : Flattens(e, s, k + 1)
    <3> HIDE DEF g
    <3> QED BY <2>4
  <2> QED BY <2>5, <1>2
<1>3. \A k \in 0..n : k \in P
  <2> HIDE DEF P
  <2> QED BY <1>1, <1>2, InductionUpTo
<1> QED BY <1>3

(* FlattenSeq takes the last value of such a function. *)
LEMMA FlattenSeqIs ==
  ASSUME NEW s, Len(s) \in Nat, Len(s) # 0
  PROVE  \E f : Flattens(f, s, Len(s)) /\ FlattenSeq(s) = f[Len(s)]
<1> DEFINE F(f) == f = [i \in 1..Len(s) |-> IF i = 1 THEN s[i] ELSE f[i - 1] \o s[i]]
           c == CHOOSE f : F(f)
<1>1. \E f : F(f)
  BY FlattensExists DEF Flattens
<1>2. F(c)
  <2> HIDE DEF F
  <2> QED BY <1>1
<1>3. FlattenSeq(s) = c[Len(s)]
  BY Zenon DEF FlattenSeq
<1> QED BY <1>2, <1>3 DEF Flattens

(* Where the parts of a flattened sequence are: the first n are a sequence,  *)
(* part i begins after the parts before it, and each position is in a part.  *)
Offset(f, i) == IF i = 1 THEN 0 ELSE Len(f[i - 1])

Placed(f, s, S, n) ==
    /\ f[n] \in Seq(S)
    /\ \A i \in 1..n : /\ Offset(f, i) \in Nat
                       /\ \A j \in 1..Len(s[i]) :
                             /\ Offset(f, i) + j \in 1..Len(f[n])
                             /\ f[n][Offset(f, i) + j] = s[i][j]
    /\ \A x \in 1..Len(f[n]) :
          \E i \in 1..n : \E j \in 1..Len(s[i]) : x = Offset(f, i) + j

(* One more part is placed after the ones before. *)
LEMMA PlacedStep ==
  ASSUME NEW S, NEW s \in Seq(Seq(S)), NEW f, Flattens(f, s, Len(s)),
         NEW k \in 1..Len(s), k < Len(s), Placed(f, s, S, k)
  PROVE  Placed(f, s, S, k + 1) /\ Len(f[k + 1]) = Len(f[k]) + Len(s[k + 1])
<1>0. Len(s) \in Nat /\ k \in Nat /\ k + 1 \in 1..Len(s) /\ k + 1 # 1 /\ k + 1 - 1 = k
  OBVIOUS
<1>1. PICK a \in Seq(S) : a = f[k]
  BY DEF Placed
<1>2. PICK b \in Seq(S) : b = s[k + 1]
  BY <1>0
<1>3. f[k + 1] = a \o b
  <2>1. f[k + 1] = f[k] \o s[k + 1]
    BY <1>0, FlattensNext
  <2> QED BY <1>1, <1>2, <2>1, Zenon
<1>4. PICK c \in Seq(S) : c = f[k + 1] /\ c = a \o b
  BY <1>3, ConcatProperties, Zenon
<1>5. /\ Len(a) \in Nat /\ Len(b) \in Nat /\ Len(c) = Len(a) + Len(b)
      /\ \A x \in 1..Len(a) : c[x] = a[x]
      /\ \A j \in 1..Len(b) : c[Len(a) + j] = b[j]
  BY <1>4
<1>6. Offset(f, k + 1) = Len(a)
  BY <1>0, <1>1 DEF Offset
<1>7. ASSUME NEW i \in 1..(k + 1)
      PROVE  /\ Offset(f, i) \in Nat
             /\ \A j \in 1..Len(s[i]) : /\ Offset(f, i) + j \in 1..Len(c)
                                        /\ c[Offset(f, i) + j] = s[i][j]
  <2>1. CASE i = k + 1
    <3>1. s[i] = b /\ Offset(f, i) = Len(a)
      BY <1>2, <1>6, <2>1
    <3>2. /\ Len(a) \in Nat
          /\ \A j \in 1..Len(b) : Len(a) + j \in 1..Len(c) /\ c[Len(a) + j] = b[j]
      BY <1>5
    <3> QED BY <3>1, <3>2, Zenon
  <2>2. CASE i # k + 1
    <3>1. i \in 1..k
      BY <2>2
    <3>2. /\ Offset(f, i) \in Nat
          /\ \A j \in 1..Len(s[i]) : /\ Offset(f, i) + j \in 1..Len(a)
                                     /\ a[Offset(f, i) + j] = s[i][j]
      BY <1>1, <3>1 DEF Placed
    <3>3. 1..Len(a) \subseteq 1..Len(c)
      BY <1>5
    <3> QED BY <1>5, <3>2, <3>3, Zenon
  <2> QED BY <2>1, <2>2
<1>8. ASSUME NEW x \in 1..Len(c)
      PROVE  \E i \in 1..(k + 1) : \E j \in 1..Len(s[i]) : x = Offset(f, i) + j
  <2>1. CASE x <= Len(a)
    <3>1. x \in 1..Len(a)
      BY <1>5, <2>1
    <3>2. PICK i \in 1..k : \E j \in 1..Len(s[i]) : x = Offset(f, i) + j
      BY <1>1, <3>1 DEF Placed
    <3>3. i \in 1..(k + 1)
      OBVIOUS
    <3> QED BY <3>2, <3>3
  <2>2. CASE x > Len(a)
    <3> DEFINE j == x - Len(a)
    <3>1. j \in 1..Len(b) /\ x = Len(a) + j
      BY <1>5, <2>2
    <3> HIDE DEF j
    <3>3. j \in 1..Len(s[k + 1]) /\ x = Offset(f, k + 1) + j
      BY <1>2, <1>6, <3>1, Zenon
    <3>2. k + 1 \in 1..(k + 1)
      OBVIOUS
    <3> QED BY <3>2, <3>3, Zenon
  <2>3. x \in Nat /\ Len(a) \in Nat
    BY <1>5
  <2> QED BY <2>1, <2>2, <2>3
<1>9. Placed(f, s, S, k + 1)
  BY <1>4, <1>7, <1>8 DEF Placed
<1> QED BY <1>1, <1>2, <1>4, <1>5, <1>9

(* All parts are placed. *)
LEMMA AllPlaced ==
  ASSUME NEW S, NEW s \in Seq(Seq(S)), NEW f, Flattens(f, s, Len(s))
  PROVE  \A k \in 1..Len(s) : Placed(f, s, S, k)
<1> DEFINE n == Len(s)
           P == {k \in 0..n : k = 0 \/ Placed(f, s, S, k)}
<1>0. n \in Nat
  OBVIOUS
<1>1. 0 \in P
  OBVIOUS
<1>2. ASSUME NEW k \in 0..n, k \in P, k < n PROVE k + 1 \in P
  <2>1. CASE k = 0
    <3>1. 1 \in 1..n
      BY <1>2, <2>1
    <3>2. f[1] = s[1]
      BY <1>0, <3>1, FlattensAt
    <3>3. PICK a \in Seq(S) : a = f[1] /\ a = s[1]
      BY <3>1, <3>2
    <3>4. Offset(f, 1) = 0
      BY DEF Offset
    <3>5. ASSUME NEW x \in 1..Len(a)
          PROVE  \E i \in 1..1 : \E j \in 1..Len(s[i]) : x = Offset(f, i) + j
      BY <3>3, <3>4
    <3>6. Placed(f, s, S, 1)
      BY <3>3, <3>4, <3>5 DEF Placed
    <3> QED BY <2>1, <3>1, <3>6
  <2>2. CASE k # 0
    <3>1. k \in 1..Len(s) /\ Placed(f, s, S, k)
      BY <1>2, <2>2
    <3>2. Placed(f, s, S, k + 1)
      BY <1>2, <3>1, PlacedStep
    <3> QED BY <1>2, <3>2
  <2> QED BY <2>1, <2>2
<1>3. \A k \in 0..n : k \in P
  <2> HIDE DEF P, n
  <2> QED BY <1>0, <1>1, <1>2, InductionUpTo
<1>4. ASSUME NEW k \in 1..n PROVE Placed(f, s, S, k)
  <2>1. k \in 0..n /\ k # 0
    BY <1>0
  <2> QED BY <1>3, <2>1
<1> QED BY <1>4

(* w is the parts of s one after the other, and nothing else: part i comes   *)
(* after off[i] elements.                                                    *)
PartsAt(off, s, w) ==
    /\ \A i \in 1..Len(s) : i + 1 \in 1..Len(s) => off[i + 1] = off[i] + Len(s[i])
    /\ \A i \in 1..Len(s) : \A j \in 1..Len(s[i]) :
          off[i] + j \in 1..Len(w) /\ w[off[i] + j] = s[i][j]
    /\ \A x \in 1..Len(w) : \E i \in 1..Len(s) : \E j \in 1..Len(s[i]) : x = off[i] + j

(* What FlattenSeq returns. *)
LEMMA FlattenSeqParts ==
  ASSUME NEW S, NEW s \in Seq(Seq(S))
  PROVE  /\ FlattenSeq(s) \in Seq(S)
         /\ \E off \in [1..Len(s) -> Nat] : PartsAt(off, s, FlattenSeq(s))
<1>0. Len(s) \in Nat
  OBVIOUS
<1>1. CASE Len(s) = 0
  <2>1. s = <<>> /\ FlattenSeq(s) = s
    BY <1>1 DEF FlattenSeq
  <2> DEFINE off == [i \in 1..Len(s) |-> 0]
  <2>2. off \in [1..Len(s) -> Nat]
    OBVIOUS
  <2>3. 1..Len(s) = {} /\ 1..Len(FlattenSeq(s)) = {}
    BY <1>1, <2>1
  <2>4. FlattenSeq(s) \in Seq(S)
    <3>1. <<>> \in Seq(S)
      OBVIOUS
    <3> QED BY <2>1, <3>1, Zenon
  <2> HIDE DEF off
  <2> QED BY <2>2, <2>3, <2>4, Zenon DEF PartsAt
<1>2. CASE Len(s) # 0
  <2>1. PICK f : Flattens(f, s, Len(s)) /\ FlattenSeq(s) = f[Len(s)]
    BY <1>0, <1>2, FlattenSeqIs
  <2>2. \A k \in 1..Len(s) : Placed(f, s, S, k)
    BY <2>1, AllPlaced
  <2>3. Len(s) \in 1..Len(s)
    BY <1>0, <1>2
  <2>4. Placed(f, s, S, Len(s))
    BY <2>2, <2>3
  <2> DEFINE off == [i \in 1..Len(s) |-> Offset(f, i)]
  <2>5. off \in [1..Len(s) -> Nat]
    BY <2>4 DEF Placed
  <2>6. \A i \in 1..Len(s) : off[i] = Offset(f, i)
    OBVIOUS
  <2> HIDE DEF off
  <2>7. ASSUME NEW i \in 1..Len(s), i + 1 \in 1..Len(s)
        PROVE  off[i + 1] = off[i] + Len(s[i])
    <3>1. off[i + 1] = Len(f[i])
      <4>1. i + 1 # 1 /\ i + 1 - 1 = i
        OBVIOUS
      <4> QED BY <2>6, <2>7, <4>1 DEF Offset
    <3>2. CASE i = 1
      <4>1. f[1] = s[1]
        BY <1>0, <2>1, <3>2, FlattensAt
      <4>2. off[i] = 0 /\ Len(s[1]) \in Nat
        BY <2>6, <3>2 DEF Offset
      <4> QED BY <3>1, <3>2, <4>1, <4>2
    <3>3. CASE i # 1
      <4> DEFINE k == i - 1
      <4>1. k \in 1..Len(s) /\ k < Len(s) /\ k + 1 = i
        BY <3>3
      <4>2. Placed(f, s, S, k)
        BY <2>2, <4>1
      <4>3. Len(f[k + 1]) = Len(f[k]) + Len(s[k + 1])
        <5> HIDE DEF k
        <5> QED BY <2>1, <4>1, <4>2, PlacedStep
      <4>4. off[i] = Len(f[k])
        BY <2>6, <3>3 DEF Offset
      <4> QED BY <3>1, <4>1, <4>3, <4>4
    <3> QED BY <3>2, <3>3
  <2>8. /\ FlattenSeq(s) \in Seq(S)
        /\ \A i \in 1..Len(s) : \A j \in 1..Len(s[i]) :
              /\ off[i] + j \in 1..Len(FlattenSeq(s))
              /\ FlattenSeq(s)[off[i] + j] = s[i][j]
        /\ \A x \in 1..Len(FlattenSeq(s)) :
              \E i \in 1..Len(s) : \E j \in 1..Len(s[i]) : x = off[i] + j
    BY <2>1, <2>4, <2>6 DEF Placed
  <2> QED BY <2>5, <2>7, <2>8 DEF PartsAt
<1> QED BY <1>1, <1>2

(* Flattening a sequence's elements, one by one, yields the sequence. *)
LEMMA FlattenSingletons ==
  ASSUME NEW S, NEW c \in Seq(S)
  PROVE  FlattenSeq([j \in 1..Len(c) |-> <<c[j]>>]) = c
<1> DEFINE s == [j \in 1..Len(c) |-> <<c[j]>>]
           n == Len(c)
<1>0. n \in Nat
  OBVIOUS
<1>1. Len(s) = n /\ \A j \in 1..n : s[j] = <<c[j]>> /\ c[j] \in S
  OBVIOUS
<1>2. CASE n = 0
  <2>1. s = <<>> /\ c = <<>>
    BY <1>1, <1>2
  <2> HIDE DEF s
  <2> QED BY <1>1, <1>2, <2>1 DEF FlattenSeq, s
<1>3. CASE n # 0
  <2> HIDE DEF s
  <2>1. PICK f : Flattens(f, s, n) /\ FlattenSeq(s) = f[n]
    BY <1>0, <1>1, <1>3, FlattenSeqIs
  <2> DEFINE Q(k) == f[k] \in Seq(S) /\ Len(f[k]) = k /\ \A j \in 1..k : f[k][j] = c[j]
             P == {k \in 0..n : k = 0 \/ Q(k)}
  <2>2. 0 \in P
    BY <1>0
  <2>3. ASSUME NEW k \in 0..n, k \in P, k < n PROVE k + 1 \in P
    <3>1. k + 1 \in 1..n
      BY <2>3
    <3>2. CASE k = 0
      <4>1. f[1] = s[1]
        BY <1>0, <2>1, <3>1, <3>2, FlattensAt
      <4>2. f[1] = <<c[1]>> /\ c[1] \in S
        BY <1>1, <3>1, <3>2, <4>1
      <4>3. Q(1)
        BY <4>2
      <4> QED BY <3>1, <3>2, <4>3
    <3>3. CASE k # 0
      <4>1. Q(k)
        BY <2>3, <3>3
      <4>2. PICK a \in Seq(S) : a = f[k]
        BY <4>1
      <4>3. f[k + 1] = a \o <<c[k + 1]>>
        <5>1. k \in 1..n
          BY <3>3
        <5>2. f[k + 1] = f[k] \o s[k + 1]
          BY <1>0, <2>1, <3>1, <5>1, FlattensNext
        <5> QED BY <1>1, <3>1, <4>2, <5>2, Zenon
      <4>4. c[k + 1] \in S
        BY <1>1, <3>1
      <4>5. PICK b \in Seq(S) : b = f[k + 1] /\ b = a \o <<c[k + 1]>>
        <5>1. <<c[k + 1]>> \in Seq(S)
          BY <4>4
        <5> QED BY <4>3, <5>1, ConcatProperties, Zenon
      <4>6. Len(a) = k /\ \A j \in 1..k : a[j] = c[j]
        BY <4>1, <4>2
      <4>7. Len(b) = k + 1 /\ (\A j \in 1..k : b[j] = a[j]) /\ b[k + 1] = c[k + 1]
        BY <4>4, <4>5, <4>6
      <4>8. \A j \in 1..(k + 1) : b[j] = c[j]
        BY <4>6, <4>7
      <4>9. Q(k + 1)
        BY <4>5, <4>7, <4>8
      <4> HIDE DEF Q
      <4> QED BY <3>1, <4>9
    <3> QED BY <3>2, <3>3
  <2>4. \A k \in 0..n : k \in P
    <3> HIDE DEF P, n
    <3> QED BY <1>0, <2>2, <2>3, InductionUpTo
  <2>5. n \in 0..n
    BY <1>0
  <2>6. Q(n)
    <3> HIDE DEF Q
    <3> QED BY <1>3, <2>4, <2>5
  <2>7. f[n] = c
    BY <2>6
  <2> QED BY <2>1, <2>7 DEF s
<1> QED BY <1>2, <1>3

(* No parts make nothing. *)
LEMMA FlattenNone ==
  ASSUME NEW s, Len(s) = 0
  PROVE  FlattenSeq(s) = s
BY DEF FlattenSeq

(* One part makes itself. *)
LEMMA FlattenOne ==
  ASSUME NEW s, Len(s) = 1
  PROVE  FlattenSeq(s) = s[1]
<1>1. PICK f : Flattens(f, s, 1) /\ FlattenSeq(s) = f[1]
  <2>1. Len(s) \in Nat /\ Len(s) # 0
    OBVIOUS
  <2> QED BY <2>1, FlattenSeqIs
<1>2. f[1] = s[1]
  BY <1>1, FlattensAt
<1> QED BY <1>1, <1>2, Zenon

-----------------------------------------------------------------------------
(* The wire *)

(* What CallsAreAnswered says of one wire message, the i-th. *)
WireAnswered(api, wire, i) ==
    LET n == Len(wire[i].calls)
        next == IF api = "anthropic" /\ n > 0 THEN 1 ELSE n IN
    /\ i + next <= Len(wire)
    /\ wire[i].calls = FlattenSeq([j \in 1..next |-> wire[i + j].results])
    /\ wire[i].results # <<>> => \E k \in 1..(i - 1) : wire[k].calls # <<>>

(* Only messages of role tool carry results, and they make no calls. *)
RolesAgree(messages) ==
    \A i \in 1..Len(messages) :
        IF messages[i].role = "tool" THEN messages[i].calls = <<>>
                                     ELSE messages[i].results = <<>>

(* A wire message without calls needs no results after it. *)
LEMMA NothingToAnswer ==
  ASSUME NEW api, NEW wire \in Seq(MessageType), NEW i \in 1..Len(wire),
         wire[i].calls = <<>>,
         wire[i].results # <<>> => \E k \in 1..(i - 1) : wire[k].calls # <<>>
  PROVE  WireAnswered(api, wire, i)
<1> DEFINE s == [j \in 1..0 |-> wire[i + j].results]
<1>1. Len(wire[i].calls) = 0
  OBVIOUS
<1>2. s = <<>> /\ Len(s) = 0
  OBVIOUS
<1>3. FlattenSeq(s) = <<>>
  <2> HIDE DEF s
  <2> QED BY <1>2, FlattenNone
<1>4. i + 0 <= Len(wire)
  OBVIOUS
<1> DEFINE n == Len(wire[i].calls)
           next == IF api = "anthropic" /\ n > 0 THEN 1 ELSE n
<1>5. next = 0
  BY <1>1
<1>6. /\ i + next <= Len(wire)
      /\ wire[i].calls = FlattenSeq([j \in 1..next |-> wire[i + j].results])
  <2> HIDE DEF next
  <2> QED BY <1>3, <1>4, <1>5, Zenon
<1> QED BY <1>6, Zenon DEF WireAnswered

(* Anthropic: the results of a message's calls are the next message. *)
LEMMA AnthropicAnswered ==
  ASSUME NEW messages \in Seq(MessageType), Answered(messages, Len(messages)),
         NEW i \in DOMAIN AnthropicMessages(messages)
  PROVE  WireAnswered("anthropic", AnthropicMessages(messages), i)
<1> DEFINE w == AnthropicMessages(messages)
<1>1. /\ w \in Seq(MessageType) /\ Len(w) = Len(messages)
      /\ \A k \in 1..Len(messages) : /\ w[k].calls = messages[k].calls
                                     /\ w[k].results = messages[k].results
  <2>1. ASSUME NEW k \in 1..Len(messages)
        PROVE  /\ w[k] \in MessageType /\ w[k].calls = messages[k].calls
               /\ w[k].results = messages[k].results
    <3>1. PICK m \in MessageType : m = messages[k]
      OBVIOUS
    <3> DEFINE role == IF m.role = "tool" THEN "user" ELSE m.role
    <3>2. w[k] = [m EXCEPT !.role = role]
      <4>1. k \in DOMAIN messages
        OBVIOUS
      <4>2. w[k] = [messages[k] EXCEPT !.role = IF messages[k].role = "tool" THEN "user"
                                                ELSE messages[k].role]
        BY <4>1, Zenon DEF AnthropicMessages
      <4> QED BY <3>1, <4>2, Zenon
    <3>3. role \in Roles
      BY DEF MessageType, Roles
    <3> HIDE DEF w, role
    <3> QED BY <3>1, <3>2, <3>3 DEF MessageType
  <2>2. w = [k \in 1..Len(messages) |-> w[k]]
    BY DEF AnthropicMessages
  <2> HIDE DEF w
  <2> QED BY <2>1, <2>2
<1>2. i \in 1..Len(messages)
  BY DEF AnthropicMessages
<1> HIDE DEF w
<1>3. PICK m \in MessageType : m = messages[i]
  BY <1>2
<1>4. messages[i].results # <<>> => \E k \in 1..(i - 1) : w[k].calls # <<>>
  <2> SUFFICES ASSUME messages[i].results # <<>> PROVE \E k \in 1..(i - 1) : w[k].calls # <<>>
    OBVIOUS
  <2>1. i > 1 /\ messages[i - 1].calls # <<>>
    BY <1>2 DEF Answered
  <2>2. i - 1 \in 1..(i - 1) /\ i - 1 \in 1..Len(messages)
    BY <1>2, <2>1
  <2> QED BY <1>1, <2>1, <2>2
<1>5. CASE m.calls = <<>>
  BY <1>1, <1>2, <1>3, <1>4, <1>5, NothingToAnswer DEF w
<1>6. CASE m.calls # <<>>
  <2> DEFINE s == [j \in 1..1 |-> w[i + j].results]
  <2>1. i + 1 \in 1..Len(messages) /\ messages[i + 1].results = m.calls
    BY <1>2, <1>3, <1>6 DEF Answered
  <2>2. Len(s) = 1 /\ s[1] = w[i + 1].results
    OBVIOUS
  <2>3. FlattenSeq(s) = m.calls
    <3> HIDE DEF s
    <3>1. FlattenSeq(s) = s[1]
      BY <2>2, FlattenOne
    <3> QED BY <1>1, <2>1, <2>2, <3>1, Zenon
  <2>4. w[i].calls = m.calls /\ Len(w[i].calls) > 0 /\ i + 1 <= Len(w)
    <3>1. m.calls \in Seq(ToolCallIds)
      BY DEF MessageType
    <3> QED BY <1>1, <1>2, <1>3, <1>6, <2>1, <3>1
  <2>5. w[i].results # <<>> => \E k \in 1..(i - 1) : w[k].calls # <<>>
    BY <1>1, <1>2, <1>4
  <2>6. WireAnswered("anthropic", w, i)
    BY <2>3, <2>4, <2>5, Zenon DEF WireAnswered
  <2> QED BY <2>6 DEF w
<1> QED BY <1>5, <1>6

(* What OpenAIMessages flattens: the wire messages of each message. *)
OpenAIParts(messages) ==
    [i \in DOMAIN messages |->
        IF messages[i].role = "tool"
        THEN [j \in DOMAIN messages[i].results |->
                 Message("tool", "text", <<>>, <<messages[i].results[j]>>)]
        ELSE <<messages[i]>>]

(* A message of role tool becomes one for each result, any other itself. *)
LEMMA OpenAIPart ==
  ASSUME NEW messages \in Seq(MessageType), NEW i \in 1..Len(messages)
  PROVE  /\ OpenAIParts(messages)[i] \in Seq(MessageType)
         /\ messages[i].role # "tool" => OpenAIParts(messages)[i] = <<messages[i]>>
         /\ messages[i].role = "tool" =>
              /\ Len(OpenAIParts(messages)[i]) = Len(messages[i].results)
              /\ \A j \in 1..Len(messages[i].results) :
                    /\ OpenAIParts(messages)[i][j].calls = <<>>
                    /\ OpenAIParts(messages)[i][j].results = <<messages[i].results[j]>>
<1>1. PICK m \in MessageType : m = messages[i]
  OBVIOUS
<1> DEFINE part == [j \in DOMAIN m.results |-> Message("tool", "text", <<>>, <<m.results[j]>>)]
<1>2. OpenAIParts(messages)[i] = IF m.role = "tool" THEN part ELSE <<m>>
  <2>1. i \in DOMAIN messages
    OBVIOUS
  <2> QED BY <1>1, <2>1, Zenon DEF OpenAIParts
<1>3. PICK r \in Seq(ToolCallIds) : r = m.results
  BY DEF MessageType
<1>4. ASSUME NEW j \in 1..Len(r)
      PROVE  /\ part[j] \in MessageType /\ part[j].calls = <<>>
             /\ part[j].results = <<r[j]>>
  <2>1. part[j] = [role |-> "tool", text |-> "text", calls |-> <<>>, results |-> <<r[j]>>]
    BY <1>3 DEF Message
  <2>2. <<r[j]>> \in Seq(ToolCallIds) /\ <<>> \in Seq(ToolCallIds)
    OBVIOUS
  <2> HIDE DEF part
  <2> QED BY <2>1, <2>2 DEF MessageType, Roles, Texts
<1>5. part = [j \in 1..Len(r) |-> part[j]]
  BY <1>3
<1> HIDE DEF part
<1>6. part \in Seq(MessageType) /\ Len(part) = Len(r)
  BY <1>4, <1>5
<1>7. <<m>> \in Seq(MessageType)
  OBVIOUS
<1> QED BY <1>1, <1>2, <1>3, <1>4, <1>6, <1>7

(* OpenAI: the results of a message's calls are the next messages, one each. *)
LEMMA OpenAIAnswered ==
  ASSUME NEW api, api # "anthropic", NEW messages \in Seq(MessageType),
         Answered(messages, Len(messages)), RolesAgree(messages),
         NEW x \in DOMAIN OpenAIMessages(messages)
  PROVE  WireAnswered(api, OpenAIMessages(messages), x)
<1> DEFINE s == OpenAIParts(messages)
           w == OpenAIMessages(messages)
<1>1. Len(s) = Len(messages) /\ s \in Seq(Seq(MessageType))
  <2>1. \A i \in 1..Len(messages) : s[i] \in Seq(MessageType)
    BY OpenAIPart
  <2>2. s = [i \in 1..Len(messages) |-> s[i]]
    BY DEF OpenAIParts
  <2> HIDE DEF s
  <2> QED BY <2>1, <2>2
<1>2. w = FlattenSeq(s)
  BY Zenon DEF OpenAIMessages, OpenAIParts
<1> HIDE DEF s, w
<1>3. w \in Seq(MessageType)
  BY <1>1, <1>2, FlattenSeqParts
<1>4. PICK off \in [1..Len(s) -> Nat] : PartsAt(off, s, w)
  BY <1>1, <1>2, FlattenSeqParts
<1>5. x \in 1..Len(w)
  BY <1>3 DEF w
<1>6. PICK i \in 1..Len(s) : \E j \in 1..Len(s[i]) : x = off[i] + j
  BY <1>4, <1>5 DEF PartsAt
<1>7. PICK j \in 1..Len(s[i]) : x = off[i] + j
  BY <1>6
<1>8. PICK o \in Nat : o = off[i]
  BY <1>4
<1>9. i \in 1..Len(messages) /\ Len(messages) \in Nat /\ w[x] = s[i][j]
  BY <1>1, <1>4, <1>7 DEF PartsAt
<1>10. PICK m \in MessageType : m = messages[i]
  BY <1>9
<1>11. m.calls \in Seq(ToolCallIds) /\ m.results \in Seq(ToolCallIds)
  BY DEF MessageType
<1>12. CASE m.role = "tool"
  <2>1. /\ Len(s[i]) = Len(m.results) /\ w[x].calls = <<>>
    BY <1>7, <1>9, <1>10, <1>12, OpenAIPart DEF s
  <2>2. m.results # <<>>
    BY <1>7, <1>11, <2>1
  <2>3. i > 1 /\ messages[i - 1].calls # <<>>
    BY <1>9, <1>10, <2>2 DEF Answered
  <2>4. PICK h \in 1..Len(messages) : h = i - 1 /\ h + 1 = i
    BY <1>9, <2>3
  <2>5. messages[h].role # "tool" /\ s[h] = <<messages[h]>>
    BY <2>3, <2>4, OpenAIPart DEF RolesAgree, s
  <2>6. Len(s[h]) = 1 /\ s[h][1] = messages[h] /\ 1 \in 1..Len(s[h])
    BY <2>5
  <2>7. /\ off[h] + 1 \in 1..Len(w) /\ w[off[h] + 1] = messages[h]
        /\ off[i] = off[h] + 1
    <3>1. h \in 1..Len(s) /\ h + 1 \in 1..Len(s)
      BY <1>1, <1>9, <2>4
    <3> QED BY <1>4, <2>4, <2>6, <3>1 DEF PartsAt
  <2>8. off[h] + 1 \in 1..(x - 1)
    BY <1>7, <1>8, <1>9, <2>1, <1>11, <2>7
  <2>9. \E k \in 1..(x - 1) : w[k].calls # <<>>
    BY <2>3, <2>4, <2>7, <2>8
  <2>10. WireAnswered(api, w, x)
    BY <1>3, <1>5, <2>1, <2>9, NothingToAnswer
  <2> QED BY <2>10 DEF w
<1>13. CASE m.role # "tool"
  <2>1. s[i] = <<m>> /\ m.results = <<>>
    BY <1>9, <1>10, <1>13, OpenAIPart DEF RolesAgree, s
  <2>2. Len(s[i]) = 1 /\ s[i][1] = m
    BY <2>1
  <2>3. j = 1 /\ w[x] = m /\ x = o + 1
    BY <1>7, <1>8, <1>9, <2>2
  <2>4. CASE m.calls = <<>>
    <3>1. WireAnswered(api, w, x)
      BY <1>3, <1>5, <2>1, <2>3, <2>4, NothingToAnswer
    <3> QED BY <3>1 DEF w
  <2>5. CASE m.calls # <<>>
    <3>1. PICK h \in 1..Len(messages) : h = i + 1 /\ messages[h].results = m.calls
      BY <1>9, <1>10, <2>5 DEF Answered
    <3>2. messages[h].role = "tool"
      BY <2>5, <3>1 DEF RolesAgree
    <3>3. PICK n \in Nat : n = Len(m.calls) /\ n > 0
      BY <1>11, <2>5
    <3>4. /\ Len(s[h]) = n
          /\ \A k \in 1..n : s[h][k].results = <<m.calls[k]>>
      BY <3>1, <3>2, <3>3, OpenAIPart DEF s
    <3>5. off[h] = x
      <4>1. i + 1 \in 1..Len(s)
        BY <1>1, <3>1
      <4>2. off[i + 1] = off[i] + Len(s[i])
        BY <1>4, <4>1 DEF PartsAt
      <4> QED BY <1>8, <2>2, <2>3, <3>1, <4>2
    <3>6. \A k \in 1..n : x + k \in 1..Len(w) /\ w[x + k] = s[h][k]
      <4>1. h \in 1..Len(s)
        BY <1>1
      <4> QED BY <1>4, <3>4, <3>5, <4>1 DEF PartsAt
    <3>7. x + n <= Len(w)
      <4>1. n \in 1..n
        BY <3>3
      <4> QED BY <3>6, <4>1, <1>3
    <3>8. [k \in 1..n |-> w[x + k].results] = [k \in 1..Len(m.calls) |-> <<m.calls[k]>>]
      <4>1. \A k \in 1..n : w[x + k].results = <<m.calls[k]>>
        BY <3>4, <3>6
      <4> QED BY <3>3, <4>1
    <3>9. FlattenSeq([k \in 1..n |-> w[x + k].results]) = m.calls
      <4>1. FlattenSeq([k \in 1..Len(m.calls) |-> <<m.calls[k]>>]) = m.calls
        BY <1>11, FlattenSingletons
      <4> QED BY <3>8, <4>1, Zenon
    <3>10. Len(w[x].calls) = n /\ w[x].calls = m.calls /\ w[x].results = <<>>
      BY <2>1, <2>3, <3>3
    <3>11. WireAnswered(api, w, x)
      BY <3>7, <3>9, <3>10, Zenon DEF WireAnswered
    <3> QED BY <3>11 DEF w
  <2> QED BY <2>4, <2>5
<1> QED BY <1>12, <1>13

-----------------------------------------------------------------------------
(* The roles of the conversation, and what follows for the wire *)

RolesInv == RolesAgree(conversation)

(* A message that keeps to its role may be appended. *)
LEMMA AppendKeepsRoles ==
  ASSUME NEW messages \in Seq(MessageType), RolesAgree(messages), NEW m \in MessageType,
         IF m.role = "tool" THEN m.calls = <<>> ELSE m.results = <<>>
  PROVE  RolesAgree(Append(messages, m))
<1> DEFINE all == Append(messages, m)
<1>1. /\ Len(all) = Len(messages) + 1 /\ Len(messages) \in Nat
      /\ \A i \in 1..Len(messages) : all[i] = messages[i]
      /\ all[Len(messages) + 1] = m
  OBVIOUS
<1> HIDE DEF all
<1>2. ASSUME NEW i \in 1..Len(all)
      PROVE  IF all[i].role = "tool" THEN all[i].calls = <<>> ELSE all[i].results = <<>>
  <2>1. CASE i = Len(messages) + 1
    BY <1>1, <2>1
  <2>2. CASE i # Len(messages) + 1
    <3>1. i \in 1..Len(messages)
      BY <1>1, <2>2
    <3> QED BY <1>1, <3>1 DEF RolesAgree
  <2> QED BY <2>1, <2>2
<1> QED BY <1>2 DEF RolesAgree, all

(* Only a response and the end of a batch append to the conversation, an     *)
(* assistant's message with calls and one of role tool with results.         *)
LEMMA RolesStep ==
  ASSUME Inv, Inv', RolesInv, [Next]_vars
  PROVE  RolesInv'
<1>1. \/ conversation' = conversation
      \/ \E m : /\ conversation' = Append(conversation, m)
                /\ \/ \E text, ids : m = Message("assistant", text, ids, <<>>)
                   \/ \E ids : m = Message("tool", "none", <<>>, ids)
  <2>1. CASE Response
    <3>1. PICK r : \/ conversation' = conversation
                   \/ conversation' =
                        Append(conversation, Message("assistant", r.text, CallIds(r), <<>>))
      BY <2>1, Zenon DEF Response
    <3> QED BY <3>1, Zenon
  <2>2. CASE EndBatch
    BY <2>2, Zenon DEF EndBatch
  <2>3. CASE ~Response /\ ~EndBatch
    <3>1. CASE Own
      BY <2>3, <3>1 DEF Own, LoadFails, Load, ResolveProvider, ResolveTools, BeginTurn,
         TurnFails, BeginBatch, BeginCall, Finish, WriteEnvelope
    <3>2. CASE Complete
      BY <2>3, <3>2 DEF Complete, CompleteFails, InvalidResponse
    <3>3. CASE Execute \/ EndContext
      BY <3>3 DEF Execute, CallIsHeld, CallFails, CallReturns, EndContext
    <3>4. CASE UNCHANGED vars
      BY <3>4 DEF vars
    <3> QED BY <3>1, <3>2, <3>3, <3>4 DEF Next
  <2> QED BY <2>1, <2>2, <2>3
<1>2. CASE conversation' = conversation
  BY <1>2 DEF RolesInv
<1>3. ASSUME NEW m, conversation' = Append(conversation, m),
             \/ \E text, ids : m = Message("assistant", text, ids, <<>>)
             \/ \E ids : m = Message("tool", "none", <<>>, ids)
      PROVE  RolesInv'
  <2>1. conversation \in Seq(MessageType) /\ conversation' \in Seq(MessageType)
    BY DEF Inv, TypeOK
  <2>2. m \in MessageType
    <3>1. Len(conversation) + 1 \in 1..Len(conversation')
          /\ conversation'[Len(conversation) + 1] = m
      BY <1>3, <2>1
    <3> QED BY <2>1, <3>1
  <2>3. IF m.role = "tool" THEN m.calls = <<>> ELSE m.results = <<>>
    BY <1>3 DEF Message
  <2> QED BY <1>3, <2>1, <2>2, <2>3, AppendKeepsRoles DEF RolesInv
<1> QED BY <1>1, <1>2, <1>3

(* In every conversation calls and results keep to their roles. *)
LEMMA RolesAlwaysAgree == Spec => []RolesInv
<1>1. Init => RolesInv
  <2> SUFFICES ASSUME Init PROVE RolesInv
    OBVIOUS
  <2>1. conversation = <<Message("user", "text", <<>>, <<>>)>>
    BY DEF Init
  <2> QED BY <2>1 DEF RolesInv, RolesAgree, Message
<1>2. Inv /\ Inv' /\ RolesInv /\ [Next]_vars => RolesInv'
  BY RolesStep
<1> QED BY <1>1, <1>2, Invariance, PTL DEF Spec

(* When a request is out, every tool call of the conversation is answered on *)
(* the wire by exactly one result, in order and in the message or messages   *)
(* that follow it, on either API, for conversations and batches of any       *)
(* length (executeToolBatch, openAIRequest, anthropicRequest).               *)
THEOREM CallsAlwaysAnswered == Spec => []CallsAreAnswered
<1>1. Inv /\ RolesInv => CallsAreAnswered
  <2> SUFFICES ASSUME Inv, RolesInv, pc = "waiting",
                      NEW i \in DOMAIN WireMessages(config.api, conversation)
               PROVE  WireAnswered(config.api, WireMessages(config.api, conversation), i)
    BY Zenon DEF CallsAreAnswered, WireAnswered
  <2>1. conversation \in Seq(MessageType)
    BY DEF Inv, TypeOK
  <2>2. Answered(conversation, Len(conversation))
    BY DEF Inv, ConversationInv
  <2>3. CASE config.api = "anthropic"
    <3>1. WireMessages(config.api, conversation) = AnthropicMessages(conversation)
      BY <2>3 DEF WireMessages
    <3> QED BY <2>1, <2>2, <2>3, <3>1, AnthropicAnswered
  <2>4. CASE config.api # "anthropic"
    <3>1. WireMessages(config.api, conversation) = OpenAIMessages(conversation)
      BY <2>4 DEF WireMessages
    <3> QED BY <2>1, <2>2, <2>4, <3>1, OpenAIAnswered DEF RolesInv
  <2> QED BY <2>3, <2>4
<1> QED BY <1>1, Invariance, RolesAlwaysAgree, PTL
=============================================================================
