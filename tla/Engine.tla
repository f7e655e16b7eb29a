------------------------------- MODULE Engine -------------------------------
(***************************************************************************)
(* The reference runtime: load the configuration, resolve the provider and  *)
(* the tools, then alternate provider turns and batches of tool calls until *)
(* a final answer or a failure, close the tools and write the one result    *)
(* envelope.  The loop is one thread; the run's context may end at any      *)
(* moment beside it, also while a request or a tool call is out.            *)
(* Limits are numbers with 0 for "not set", as in the environment variables *)
(* they come from.                                                          *)
(***************************************************************************)
EXTENDS Provider, FiniteSets

CONSTANTS
    Configs,      \* configurations: [api, tokens, turns, calls, result, total]
    Exchanges,    \* what may come of one HTTP exchange with the provider
    ToolOutputs,  \* what a tool may return: [length, utf8]
    ContextEnds,  \* how the run's context may end: "canceled", "deadline"
    TurnBound     \* cap on provider turns while the context is live

ASSUME EngineAssumption ==
    /\ \A c \in Configs : /\ c.api \in {"anthropic", "openai"}
                          /\ c.tokens \in Nat /\ c.turns \in Nat /\ c.calls \in Nat
                          /\ c.result \in Nat /\ c.total \in Nat
    /\ Exchanges \subseteq ExchangeType
    /\ \A o \in ToolOutputs : o.length \in Nat /\ o.utf8 \in BOOLEAN
    /\ ContextEnds \subseteq {"canceled", "deadline"}
    /\ TurnBound \in Nat

VARIABLES
    config,        \* the loaded configuration
    pc,            \* where the runtime is
    ctx,           \* "live", or how the run's context ended
    turns, toolCalls, consumedTokens, totalToolOutputBytes, usage,  \* loopState
    conversation,  \* the messages so far
    request,       \* the request: when it was sent, with which limit, its error
    calls,         \* tool calls of the batch still to be run
    results,       \* results of the batch so far: [id, length]
    executor,      \* the tool executor: "none", "open", "closed"
    result,        \* what finish() returns
    spent          \* tokens measured so far, without saturation (history)

counters == <<turns, toolCalls, consumedTokens, totalToolOutputBytes, usage, spent>>
batch == <<calls, results>>
vars == <<config, pc, ctx, turns, toolCalls, consumedTokens, totalToolOutputBytes, usage,
          conversation, request, calls, results, executor, result, spent>>

-----------------------------------------------------------------------------
(* limits.go *)

Mut_AddWraps(left, right) ==
    IF left > MaxInt - right THEN left + right - 2 * (MaxInt + 1) ELSE left + right

SaturatingAdd(left, right) ==
    IF right > 0 /\ left > MaxInt - right THEN MaxInt
    ELSE IF right < 0 /\ left < -MaxInt - 1 - right THEN -MaxInt - 1
    ELSE left + right

MeasuredTokens(u) ==
    LET parts == SaturatingAdd(Reported(u.input), Reported(u.output)) IN
    IF u.total # Unreported /\ u.total > parts THEN u.total ELSE parts

AddMetric(total, current) ==
    IF current = Unreported THEN total
    ELSE IF total = Unreported THEN current ELSE SaturatingAdd(total, current)

AddUsage(total, current) ==
    [m \in {"input", "output", "total", "reasoning"} |-> AddMetric(total[m], current[m])]

Reached(limit, value) == limit # 0 /\ value >= limit

Mut_BatchFromReached(limit, consumed, requested) == Reached(limit, consumed)

BatchExceeds(limit, consumed, requested) == limit # 0 /\ requested > limit - consumed

CheckBeforeProviderTurn ==
    IF Reached(config.turns, turns) THEN "turn_limit_exceeded" ELSE "ok"

CheckAfterResponse(consumed) ==
    IF config.tokens # 0 /\ consumed > config.tokens THEN "token_limit_exceeded" ELSE "ok"

CheckBeforeToolCall ==
    IF Reached(config.total, totalToolOutputBytes) THEN "tool_output_limit_exceeded" ELSE "ok"

CheckBeforeToolBatch(requested) ==
    IF Reached(config.tokens, consumedTokens) THEN "token_limit_exceeded"
    ELSE IF Reached(config.turns, turns) THEN "turn_limit_exceeded"
    ELSE IF BatchExceeds(config.calls, toolCalls, requested) THEN "tool_call_limit_exceeded"
    ELSE CheckBeforeToolCall

(* 0 for no limit, else at least 1. *)
RemainingTokenBudget ==
    IF config.tokens = 0 THEN 0
    ELSE IF config.tokens - consumedTokens < 1 THEN 1 ELSE config.tokens - consumedTokens

(* tooloutput.Bound: the lengths the bounded content may have.  A value that *)
(* is too long or no UTF-8 becomes {"partial":"..."} holding a prefix, or    *)
(* the shortest JSON value that fits.                                        *)
EmptyPartialBytes == 14

BoundLengths(output, maxBytes) ==
    IF output.utf8 /\ output.length <= maxBytes THEN {output.length}
    ELSE IF maxBytes <= 0 THEN {0}
    ELSE IF maxBytes = 1 THEN {1}
    ELSE IF maxBytes < EmptyPartialBytes THEN {2}
    ELSE EmptyPartialBytes..maxBytes

(* applyToolOutput: the bytes one result may have. *)
MaxResultBytes(output) ==
    LET single == IF config.result # 0 /\ config.result < output.length
                  THEN config.result ELSE output.length
        remaining == config.total - totalToolOutputBytes
        least == IF config.total # 0 /\ remaining < single THEN remaining ELSE single
    IN IF least < 0 THEN 0 ELSE least

-----------------------------------------------------------------------------
(* engine.go and envelope.go: results *)

NoResult == [outcome |-> "none", code |-> "none", retryable |-> "unset", output |-> FALSE,
             exit |-> 0, from |-> "none", ctx |-> "live"]

(* from and ctx are history: what failed, and the context when it did. *)
Failure(code, retryable, from) ==
    [outcome |-> "Failed", code |-> code, retryable |-> retryable, output |-> FALSE,
     exit |-> 1, from |-> from, ctx |-> ctx]

Success ==
    [NoResult EXCEPT !.outcome = "Succeeded", !.output = TRUE, !.from = "answer"]

Mut_ErrorAlone(error, from) ==
    CASE error.code = "deadline" -> Failure("deadline_exceeded", "yes", from)
      [] error.code = "canceled" -> Failure("cancelled", "yes", from)
      [] OTHER -> Failure(error.code, error.retryable, from)

(* normalizeError: the run's context, then the error itself. *)
NormalizeError(error, from) ==
    IF ctx = "deadline" \/ error.code = "deadline"
    THEN Failure("deadline_exceeded", "yes", from)
    ELSE IF ctx = "canceled" \/ error.code = "canceled"
    THEN Failure("cancelled", "yes", from)
    ELSE Failure(error.code, error.retryable, from)

TerminalStopCode(stop) ==
    CASE stop = "max_tokens" -> "max_tokens_reached"
      [] stop = "content_filter" -> "content_filtered"
      [] stop = "refusal" -> "provider_refusal"
      [] stop = "model_context_window_exceeded" -> "context_window_exceeded"
      [] OTHER -> "invalid_provider_response"

(* fail: the result is made, and finish() comes next. *)
FailWith(failure) ==
    /\ result' = failure
    /\ pc' = "finish"

FailLimit(code) == FailWith(Failure(code, "no", "limit"))

(* The error Complete returned; from tells a cancellation that the transport *)
(* reported of its own from everything else.                                 *)
Error(code, retryable, from) == [code |-> code, retryable |-> retryable, from |-> from]

NoError == Error("none", "unset", "provider")
NoRequest == [ctx |-> "none", maxTokens |-> 0, error |-> NoError]

MessageType ==
    [role : Roles, text : Texts, calls : Seq(ToolCallIds), results : Seq(ToolCallIds)]

ExchangeCodes ==
    {"deadline", "canceled", "provider_error", "invalid_provider_endpoint",
     "provider_timeout", "provider_network_error", "provider_response_read_failed",
     "authentication_failed", "rate_limited", "provider_endpoint_error",
     "provider_request_rejected", "invalid_provider_response"}

RequestType ==
    [ctx : {"none", "live"} \cup ContextEnds, maxTokens : Nat,
     error : [code : {"none"} \cup ExchangeCodes, retryable : {"unset", "yes", "no"},
              from : {"provider", "transport"}]]

ErrorCodes ==
    {"invalid_configuration", "unsupported_provider", "missing_provider_credentials",
     "invalid_tool_configuration", "mcp_connection_failed", "turn_limit_exceeded",
     "token_limit_exceeded", "tool_call_limit_exceeded", "tool_output_limit_exceeded",
     "deadline_exceeded", "cancelled", "provider_timeout", "provider_network_error",
     "provider_response_read_failed", "authentication_failed", "rate_limited",
     "provider_endpoint_error", "provider_request_rejected", "invalid_provider_response",
     "max_tokens_reached", "content_filtered", "provider_refusal", "context_window_exceeded",
     "provider_error", "invalid_provider_endpoint", "tool_cleanup_failed"}

ResultType ==
    [outcome : {"none", "Succeeded", "Failed"}, code : {"none"} \cup ErrorCodes,
     retryable : {"unset", "yes", "no"}, output : BOOLEAN, exit : 0..2,
     from : {"none", "config", "limit", "provider", "transport", "tool", "answer", "cleanup"},
     ctx : {"live"} \cup ContextEnds]

TypeOK ==
    /\ config \in Configs
    /\ pc \in {"load", "provider", "tools", "turn", "waiting", "failed", "batch", "tool",
               "executing", "held", "finish", "write", "exited"}
    /\ ctx \in {"live"} \cup ContextEnds
    /\ turns \in Nat /\ toolCalls \in Nat /\ consumedTokens \in 0..MaxInt
    /\ totalToolOutputBytes \in Nat /\ spent \in Nat
    /\ usage \in UsageType
    /\ conversation \in Seq(MessageType)
    /\ request \in RequestType
    /\ calls \in Seq(ToolCallIds)
    /\ results \in Seq([id : ToolCallIds, length : Nat])
    /\ executor \in {"none", "open", "closed"}
    /\ result \in ResultType

Init ==
    /\ config \in Configs
    /\ pc = "load"
    /\ ctx = "live"
    /\ turns = 0 /\ toolCalls = 0 /\ consumedTokens = 0 /\ totalToolOutputBytes = 0
    /\ usage = NoUsage /\ spent = 0
    /\ conversation = <<Message("user", "text", <<>>, <<>>)>>
    /\ request = NoRequest
    /\ calls = <<>> /\ results = <<>>
    /\ executor = "none"
    /\ result = NoResult

-----------------------------------------------------------------------------
(* Starting *)

(* An invalid environment: main writes the failure and exits with 2, whether *)
(* or not the line could be written.                                         *)
LoadFails ==
    /\ pc = "load"
    /\ pc' = "exited"
    /\ result' = [Failure("invalid_configuration", "unset", "config") EXCEPT !.exit = 2]
    /\ UNCHANGED <<config, ctx, counters, conversation, request, batch, executor>>

Load ==
    /\ pc = "load"
    /\ pc' = "provider"
    /\ UNCHANGED <<config, ctx, counters, conversation, request, batch, executor, result>>

ResolveProvider ==
    /\ pc = "provider"
    /\ \/ pc' = "tools" /\ UNCHANGED result
       \/ \E code \in {"unsupported_provider", "missing_provider_credentials"} :
            FailWith(Failure(code, "unset", "config"))
    /\ UNCHANGED <<config, ctx, counters, conversation, request, batch, executor>>

(* A resolver that fails has cleaned up after itself and returns no executor. *)
ResolveTools ==
    /\ pc = "tools"
    /\ \/ pc' = "turn" /\ executor' = "open" /\ UNCHANGED result
       \/ /\ \E code \in {"invalid_tool_configuration", "mcp_connection_failed"} :
               FailWith(Failure(code, "unset", "config"))
          /\ UNCHANGED executor
    /\ UNCHANGED <<config, ctx, counters, conversation, request, batch>>

-----------------------------------------------------------------------------
(* A provider turn *)

BeginTurn ==
    /\ pc = "turn"
    /\ turns < TurnBound \/ ctx # "live" \/ CheckBeforeProviderTurn # "ok"
    /\ IF CheckBeforeProviderTurn # "ok"
       THEN FailLimit(CheckBeforeProviderTurn) /\ UNCHANGED <<turns, request>>
       ELSE /\ turns' = turns + 1
            /\ request' = [NoRequest EXCEPT
                  !.ctx = ctx, !.maxTokens = WireMaxTokens(config.api, RemainingTokenBudget)]
            /\ pc' = "waiting"
            /\ UNCHANGED result
    /\ UNCHANGED <<config, ctx, toolCalls, consumedTokens, totalToolOutputBytes, usage, spent,
                   conversation, batch, executor>>

(* What Complete returns.  A request made after the context has ended fails  *)
(* in transport; one that was out when it ended may still be answered.       *)
Returned(x) == CompleteJSON(config.api, ctx, x)

Mut_CompleteRetries ==
    /\ pc = "waiting"
    /\ request' = [request EXCEPT !.ctx = ctx]
    /\ UNCHANGED <<config, pc, ctx, counters, conversation, batch, executor, result>>

CompleteFails ==
    /\ pc = "waiting"
    /\ pc' = "failed"
    /\ \E x \in Exchanges :
          /\ request.ctx # "live" => x.kind \in {"not encoded", "bad endpoint", "transport"}
          /\ ~Returned(x).ok
          /\ request' = [request EXCEPT !.error =
                Error(Returned(x).code, Returned(x).retryable,
                      IF x.kind = "transport" /\ x.error = "canceled"
                      THEN "transport" ELSE "provider")]
    /\ UNCHANGED <<config, ctx, counters, conversation, batch, executor, result>>

(* The context is looked at once more: it may have ended since the error was *)
(* made.                                                                     *)
TurnFails ==
    /\ pc = "failed"
    /\ FailWith(NormalizeError(request.error, request.error.from))
    /\ request' = NoRequest
    /\ UNCHANGED <<config, ctx, counters, conversation, batch, executor>>

(* A response that fails validation is not counted. *)
InvalidResponse ==
    /\ pc = "waiting" /\ request.ctx = "live"
    /\ \E x \in Exchanges : Returned(x).ok /\ ~ValidResponse(Returned(x))
    /\ FailWith(Failure("invalid_provider_response", "unset", "answer"))
    /\ request' = NoRequest
    /\ UNCHANGED <<config, ctx, counters, conversation, batch, executor>>

CallIds(r) == [i \in DOMAIN r.calls |-> r.calls[i].id]

(* What follows a response that is valid and within the token budget. *)
Continue(r) ==
    IF r.calls # <<>>
    THEN IF r.stop # "tool_use"
         THEN /\ FailWith(Failure("invalid_provider_response", "unset", "answer"))
              /\ UNCHANGED batch
         ELSE pc' = "batch" /\ calls' = CallIds(r) /\ results' = <<>> /\ UNCHANGED result
    ELSE /\ UNCHANGED batch
         /\ IF r.stop = "pause_turn" THEN pc' = "turn" /\ UNCHANGED result
            ELSE IF r.stop \notin {"end_turn", "stop_sequence"}
            THEN FailWith(Failure(TerminalStopCode(r.stop), "unset", "answer"))
            ELSE pc' = "finish" /\ result' = Success

Response ==
    /\ pc = "waiting" /\ request.ctx = "live"
    /\ \E x \in Exchanges :
          LET r == Returned(x) IN
          /\ r.ok /\ ValidResponse(r)
          /\ usage' = AddUsage(usage, r.usage)
          /\ consumedTokens' = SaturatingAdd(consumedTokens, MeasuredTokens(r.usage))
          /\ spent' = spent + MeasuredTokens(r.usage)
          /\ IF CheckAfterResponse(consumedTokens') # "ok"
             THEN FailLimit(CheckAfterResponse(consumedTokens'))
                  /\ UNCHANGED <<batch, conversation>>
             ELSE /\ conversation' =
                        Append(conversation, Message("assistant", r.text, CallIds(r), <<>>))
                  /\ Continue(r)
    /\ request' = NoRequest
    /\ UNCHANGED <<config, ctx, turns, toolCalls, totalToolOutputBytes, executor>>

-----------------------------------------------------------------------------
(* A batch of tool calls *)

BeginBatch ==
    /\ pc = "batch"
    /\ IF CheckBeforeToolBatch(Len(calls)) # "ok"
       THEN FailLimit(CheckBeforeToolBatch(Len(calls)))
       ELSE pc' = "tool" /\ UNCHANGED result
    /\ UNCHANGED <<config, ctx, counters, conversation, request, batch, executor>>

BeginCall ==
    /\ pc = "tool" /\ calls # <<>>
    /\ IF CheckBeforeToolCall # "ok"
       THEN FailLimit(CheckBeforeToolCall) /\ UNCHANGED toolCalls
       ELSE toolCalls' = toolCalls + 1 /\ pc' = "executing" /\ UNCHANGED result
    /\ UNCHANGED <<config, ctx, turns, consumedTokens, totalToolOutputBytes, usage, spent,
                   conversation, request, batch, executor>>

(* A shell command that has to be terminated is waited for without a limit:  *)
(* a process that left its group keeps the pipes open, and the call waiting. *)
CallIsHeld ==
    /\ pc = "executing" /\ ctx # "live"
    /\ pc' = "held"
    /\ UNCHANGED <<config, ctx, counters, conversation, request, batch, executor, result>>

(* Registry.Execute: what goes wrong in a tool is a result; only the end of  *)
(* the context is an error.                                                  *)
CallFails ==
    /\ pc \in {"executing", "held"} /\ ctx # "live"
    /\ FailWith(NormalizeError([code |-> ctx, retryable |-> "unset"], "tool"))
    /\ UNCHANGED <<config, ctx, counters, conversation, request, batch, executor>>

CallReturns ==
    /\ pc = "executing"
    /\ \E output \in ToolOutputs :
          \E length \in BoundLengths(output, MaxResultBytes(output)) :
             /\ totalToolOutputBytes' = totalToolOutputBytes + length
             /\ results' = Append(results, [id |-> Head(calls), length |-> length])
    /\ calls' = Tail(calls)
    /\ pc' = "tool"
    /\ UNCHANGED <<config, ctx, turns, toolCalls, consumedTokens, usage, spent, conversation,
                   request, executor, result>>

EndBatch ==
    /\ pc = "tool" /\ calls = <<>>
    /\ conversation' = Append(conversation,
           Message("tool", "none", <<>>, [i \in DOMAIN results |-> results[i].id]))
    /\ results' = <<>>
    /\ pc' = "turn"
    /\ UNCHANGED <<config, ctx, counters, calls, request, executor, result>>

-----------------------------------------------------------------------------
(* Ending *)

Mut_FinishClosesSuccess ==
    /\ pc = "finish"
    /\ pc' = "write"
    /\ executor' = IF result.exit = 0 THEN "closed" ELSE executor
    /\ UNCHANGED <<config, ctx, counters, conversation, request, batch, result>>

(* Close has a context of its own; if it fails a success becomes a failure   *)
(* that keeps its output, and a failure stays what it was.                   *)
Finish ==
    /\ pc = "finish"
    /\ pc' = "write"
    /\ IF executor = "none"
       THEN UNCHANGED <<executor, result>>
       ELSE /\ executor' = "closed"
            /\ \/ UNCHANGED result
               \/ result' = IF result.exit = 0
                            THEN [Failure("tool_cleanup_failed", "unset", "cleanup")
                                     EXCEPT !.output = result.output]
                            ELSE result
    /\ UNCHANGED <<config, ctx, counters, conversation, request, batch>>

(* The envelope line; when it cannot be written the exit code says so. *)
WriteEnvelope ==
    /\ pc = "write"
    /\ pc' = "exited"
    /\ result' \in {result, [result EXCEPT !.exit = 1]}
    /\ UNCHANGED <<config, ctx, counters, conversation, request, batch, executor>>

(* SIGTERM, or the caller's deadline. *)
EndContext ==
    /\ pc # "exited" /\ ctx = "live"
    /\ ctx' \in ContextEnds
    /\ UNCHANGED <<config, pc, counters, conversation, request, batch, executor, result>>

Own == LoadFails \/ Load \/ ResolveProvider \/ ResolveTools \/ BeginTurn \/ TurnFails
       \/ BeginBatch \/ BeginCall \/ EndBatch \/ Finish \/ WriteEnvelope
Complete == CompleteFails \/ InvalidResponse \/ Response
Execute == CallIsHeld \/ CallFails \/ CallReturns

Next == Own \/ Complete \/ Execute \/ EndContext

Spec == Init /\ [][Next]_vars

(* Start-up, a provider or a tool may take for ever while the context is     *)
(* live.  Once it has ended they return, but for a shell command: its call   *)
(* returns or is held, and nothing promises that a held one is let go.       *)
FairSpec ==
    /\ Spec
    /\ WF_vars(ctx # "live" /\ (Own \/ Complete))
    /\ WF_vars(ctx # "live" /\ pc = "executing" /\ Execute)

-----------------------------------------------------------------------------
(* Properties *)

Within(limit, value) == limit = 0 \/ value <= limit
Below(limit, value) == limit = 0 \/ value < limit

(* No limit is ever overrun: turns, tool calls, the bytes of each result and *)
(* of all results stay within theirs (loop.go 66-183, limits.go), a batch    *)
(* under way still has the calls it needs, and a tool only runs while a      *)
(* later turn can still use its result (checkBeforeToolBatch).               *)
LimitsHold ==
    /\ Within(config.turns, turns)
    /\ Within(config.calls, toolCalls)
    /\ Within(config.total, totalToolOutputBytes)
    /\ \A i \in DOMAIN results : Within(config.result, results[i].length)
    /\ pc \in {"tool", "executing"} =>
          Below(config.turns, turns) /\ Below(config.tokens, consumedTokens)

(* A request is only made while the tokens really measured, counted without  *)
(* saturation, are within the budget, and asks for no more than is left of   *)
(* it, or for one token when nothing is (checkAfterResponse,                 *)
(* remainingTokenBudget).  The largest budget is the exception: the counter  *)
(* stops there, and cannot exceed it.                                        *)
SpendingStops ==
    (pc = "waiting" /\ config.tokens # 0 /\ config.tokens < MaxInt) =>
        /\ spent <= config.tokens
        /\ request.maxTokens >= 1
        /\ request.maxTokens = 1 \/ request.maxTokens + spent <= config.tokens

(* When a request is out every tool call the provider made has been answered *)
(* by exactly one result, in the message or messages that follow it and in   *)
(* order, on either API's wire (executeToolBatch, openAIRequest,             *)
(* anthropicRequest).                                                        *)
CallsAreAnswered ==
    pc = "waiting" =>
        LET wire == WireMessages(config.api, conversation) IN
        \A i \in DOMAIN wire :
            LET n == Len(wire[i].calls)
                next == IF config.api = "anthropic" /\ n > 0 THEN 1 ELSE n IN
            /\ i + next <= Len(wire)
            /\ wire[i].calls =
                 FlattenSeq([j \in 1..next |-> wire[i + j].results])
            /\ wire[i].results # <<>> => \E k \in 1..(i - 1) : wire[k].calls # <<>>

(* A failure of a provider or a tool is put down to the run's deadline       *)
(* exactly when that had passed, also when it passed after the error was     *)
(* made, and never because the transport had a deadline of its own.  A       *)
(* cancelled run is always called cancelled; another one only if the         *)
(* transport itself reported a cancellation, which the code passes on        *)
(* (normalizeError, normalizeRequestError).                                  *)
ContextIsBlamed ==
    result.from \in {"provider", "transport", "tool"} =>
        /\ (result.code = "deadline_exceeded") <=> (result.ctx = "deadline")
        /\ (result.code = "cancelled") <=>
              \/ result.ctx = "canceled"
              \/ result.ctx = "live" /\ result.from = "transport"

(* The answer a run ends with: it calls no tool and is within the budget.    *)
FinalAnswer ==
    LET last == conversation[Len(conversation)] IN
    /\ last.role = "assistant" /\ last.calls = <<>>
    /\ Within(config.tokens, consumedTokens)

(* The process ends with the tools closed and an exit code that agrees with  *)
(* the envelope: 0 only for a success, which has an output.  An output is    *)
(* that of a final answer, and a failure has one only when all that failed   *)
(* was the cleanup after such an answer (finish, run in main.go).            *)
ExitAgrees ==
    pc = "exited" =>
        /\ executor # "open"
        /\ result.exit = 0 => result.outcome = "Succeeded" /\ result.output
        /\ result.output =>
              /\ FinalAnswer
              /\ result.outcome = "Succeeded" \/ result.code = "tool_cleanup_failed"

(* Once the context has ended the runtime closes its tools and exits, from   *)
(* wherever it was (main.go 20-24), unless a shell command it has to         *)
(* terminate holds it for good (shell.go 136-142); if the command lets go,   *)
(* the run ends as well.                                                     *)
EndedContextEndsRun == ctx # "live" ~> (pc = "exited" \/ [](pc = "held"))
=============================================================================
