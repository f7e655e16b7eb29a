------------------------------ MODULE Provider ------------------------------
(***************************************************************************)
(* The reference runtime's model providers as operators: how a conversation *)
(* is put on the wire for the Anthropic and the OpenAI-compatible APIs, how *)
(* an HTTP exchange is classified, and how the answer is normalised and     *)
(* validated.  One exchange is one record of Exchanges; the providers never *)
(* retry.  Texts are abstracted to "text", "blank" (only white space) and   *)
(* "none"; tool calls keep their identifier.                                *)
(***************************************************************************)
EXTENDS Integers, Sequences, SequencesExt

CONSTANTS
    MaxInt,       \* math.MaxInt64
    ToolCallIds   \* identifiers a provider may give its tool calls

ASSUME MaxIntAssumption == MaxInt \in Nat \ {0}

-----------------------------------------------------------------------------
(* Conversations and requests *)

Roles == {"user", "assistant", "tool"}

(* A message: its text, the identifiers of the tool calls in it and the      *)
(* identifiers of the calls whose results it carries, in order.              *)
Message(role, text, calls, results) ==
    [role |-> role, text |-> text, calls |-> calls, results |-> results]

Mut_OpenAIOneResult(messages) ==
    [i \in DOMAIN messages |->
        IF messages[i].role = "tool"
        THEN Message("tool", "text", <<>>, <<messages[i].results[1]>>)
        ELSE messages[i]]

(* One wire message of role tool per result; the other messages one to one.  *)
OpenAIMessages(messages) ==
    FlattenSeq([i \in DOMAIN messages |->
        IF messages[i].role = "tool"
        THEN [j \in DOMAIN messages[i].results |->
                 Message("tool", "text", <<>>, <<messages[i].results[j]>>)]
        ELSE <<messages[i]>>])

(* Tool results travel in a message of role user. *)
AnthropicMessages(messages) ==
    [i \in DOMAIN messages |->
        [messages[i] EXCEPT !.role = IF @ = "tool" THEN "user" ELSE @]]

WireMessages(api, messages) ==
    IF api = "anthropic" THEN AnthropicMessages(messages)
                         ELSE OpenAIMessages(messages)

(* The completion limit on the wire: 0 says there is none. *)
AnthropicDefaultMaxTokens == 4096

WireMaxTokens(api, maxTokens) ==
    IF api = "anthropic" /\ maxTokens = 0
    THEN AnthropicDefaultMaxTokens
    ELSE maxTokens

-----------------------------------------------------------------------------
(* Usage *)

Counts == (-MaxInt - 1)..MaxInt        \* a JSON number that fits an int64
Unreported == -MaxInt - 2              \* a count that is not there
Metrics == Counts \cup {Unreported}
UsageType == [input : Metrics, output : Metrics, total : Metrics, reasoning : Metrics]

NoUsage == [input |-> Unreported, output |-> Unreported,
            total |-> Unreported, reasoning |-> Unreported]

Reported(n) == IF n = Unreported THEN 0 ELSE n

ValidUsage(u) ==
    /\ \A count \in {u.input, u.output, u.total, u.reasoning} : Reported(count) >= 0
    /\ Reported(u.input) <= MaxInt - Reported(u.output)
    /\ u.total # Unreported => Reported(u.input) + Reported(u.output) <= u.total
    /\ (u.output # Unreported /\ u.reasoning # Unreported) => u.reasoning <= u.output

-----------------------------------------------------------------------------
(* Responses *)

StopReasons == {"end_turn", "max_tokens", "stop_sequence", "tool_use", "content_filter",
                "pause_turn", "refusal", "model_context_window_exceeded"}

AnthropicStops == StopReasons \ {"content_filter"}

OpenAIStops == [stop           |-> "end_turn",
                length         |-> "max_tokens",
                tool_calls     |-> "tool_use",
                content_filter |-> "content_filter",
                refusal        |-> "refusal"]

Invalid(retryable) ==
    [ok |-> FALSE, code |-> "invalid_provider_response", retryable |-> retryable]

(* A wire call is usable, has an unknown type, or arguments that are no JSON. *)
NormalizeAnthropic(wire) ==
    IF wire.role # "assistant" \/ wire.unknownBlock \/ wire.stop \notin AnthropicStops
    THEN Invalid("no")
    ELSE [ok    |-> TRUE,
          text  |-> wire.text,
          calls |-> wire.calls,
          stop  |-> wire.stop,
          usage |-> [wire.usage EXCEPT !.total = Unreported, !.reasoning = Unreported]]

NormalizeOpenAI(wire) ==
    IF \/ wire.unknownBlock                      \* no choices, or a call of another type
       \/ wire.role # "assistant"
       \/ \E i \in DOMAIN wire.calls : wire.calls[i].shape = "malformed"
       \/ wire.stop \notin DOMAIN OpenAIStops
    THEN Invalid("no")
    ELSE [ok    |-> TRUE,
          text  |-> IF "text" \in {wire.text, wire.refusal} THEN "text" ELSE "none",
          calls |-> wire.calls,
          stop  |-> OpenAIStops[wire.stop],
          usage |-> wire.usage]

(* runtimeapi.ValidateResponse, on what the providers can return. *)
ValidResponse(r) ==
    /\ (r.text = "none" /\ r.calls = <<>>) => r.stop \in {"content_filter", "refusal"}
    /\ r.text # "blank"
    /\ \A i \in DOMAIN r.calls : r.calls[i].shape = "usable"
    /\ r.stop \in StopReasons
    /\ ValidUsage(r.usage)

-----------------------------------------------------------------------------
(* One HTTP exchange *)

Texts == {"text", "blank", "none"}

WireType ==
    [role : Roles, unknownBlock : BOOLEAN, text : Texts, refusal : Texts,
     calls : Seq([id : ToolCallIds, shape : {"usable", "malformed"}]),
     stop : AnthropicStops \cup DOMAIN OpenAIStops \cup {"other"}, usage : UsageType]

(* What the transport may report: a deadline or a timeout of its own, a       *)
(* cancellation (of the run, or one of its own), or something else.          *)
TransportErrors == {"deadline", "timeout", "canceled", "other"}

ExchangeType ==
    [kind : {"not encoded", "bad endpoint"}]
    \cup [kind : {"transport"}, error : TransportErrors]
    \cup [kind : {"cut off", "oversized", "not JSON"}]
    \cup [kind : {"status"}, status : Nat]
    \cup [kind : {"answer"}, wire : WireType]

(* Classification of a request that got no response: the run's own context   *)
(* is looked at before the transport's error, whose cancellation is passed on *)
(* as one, but whose deadline is the provider's timeout.                     *)
NormalizeRequestError(ctx, error) ==
    CASE ctx = "deadline"  -> [ok |-> FALSE, code |-> "deadline", retryable |-> "unset"]
      [] ctx = "canceled"  -> [ok |-> FALSE, code |-> "canceled", retryable |-> "unset"]
      [] ctx = "live" /\ error \in {"deadline", "timeout"} ->
            [ok |-> FALSE, code |-> "provider_timeout", retryable |-> "yes"]
      [] ctx = "live" /\ error = "canceled" ->
            [ok |-> FALSE, code |-> "canceled", retryable |-> "unset"]
      [] ctx = "live" /\ error = "other" ->
            [ok |-> FALSE, code |-> "provider_network_error", retryable |-> "yes"]

ProviderHTTPError(status) ==
    CASE status \in {401, 403} ->
            [ok |-> FALSE, code |-> "authentication_failed", retryable |-> "no"]
      [] status \in {408, 504} ->
            [ok |-> FALSE, code |-> "provider_timeout", retryable |-> "yes"]
      [] status = 429 ->
            [ok |-> FALSE, code |-> "rate_limited", retryable |-> "yes"]
      [] status >= 500 /\ status # 504 ->
            [ok |-> FALSE, code |-> "provider_endpoint_error", retryable |-> "yes"]
      [] status >= 400 /\ status < 500 /\ status \notin {401, 403, 408, 429} ->
            [ok |-> FALSE, code |-> "provider_request_rejected", retryable |-> "no"]
      [] OTHER ->
            [ok |-> FALSE, code |-> "provider_endpoint_error", retryable |-> "no"]

(* sendJSON: a request cannot be put together or has no usable endpoint, and *)
(* is not sent; or it fails in transport, while its body is read, by a body  *)
(* over the limit, by its status, by a body that is no JSON; or it brings a  *)
(* wire answer, which is normalised.                                         *)
CompleteJSON(api, ctx, x) ==
    CASE x.kind = "not encoded" ->
            [ok |-> FALSE, code |-> "provider_error", retryable |-> "unset"]
      [] x.kind = "bad endpoint" ->
            [ok |-> FALSE, code |-> "invalid_provider_endpoint", retryable |-> "unset"]
      [] x.kind = "transport" -> NormalizeRequestError(ctx, x.error)
      [] x.kind = "cut off" ->
            [ok |-> FALSE, code |-> "provider_response_read_failed", retryable |-> "yes"]
      [] x.kind = "oversized" -> Invalid("no")
      [] x.kind = "status" -> ProviderHTTPError(x.status)
      [] x.kind = "not JSON" -> Invalid("no")
      [] x.kind = "answer" ->
            IF api = "anthropic" THEN NormalizeAnthropic(x.wire) ELSE NormalizeOpenAI(x.wire)
=============================================================================
