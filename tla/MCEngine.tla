------------------------------ MODULE MCEngine ------------------------------
(* Engine for TLC: a handful of configurations, and exchanges of every kind. *)
EXTENDS Engine

Config(api, tokens, turnLimit, callLimit, resultBytes, totalBytes) ==
    [api |-> api, tokens |-> tokens, turns |-> turnLimit, calls |-> callLimit,
     result |-> resultBytes, total |-> totalBytes]

MCConfigs ==
    {Config(api, l[1], l[2], l[3], l[4], l[5]) :
        api \in {"anthropic", "openai"},
        l \in {<<4, 0, 0, 2, 3>>, <<7, 3, 2, 0, 16>>, <<0, 2, 3, 15, 30>>}}

Usage(input, output, total, reasoning) ==
    [input |-> input, output |-> output, total |-> total, reasoning |-> reasoning]

None == Unreported
Usages == {NoUsage, Usage(2, 0, 4, None), Usage(3, 4, None, 1)}
BadUsages == {Usage(-1, 1, None, None), Usage(5, 4, None, None), Usage(1, 2, 2, None),
              Usage(0, 1, None, 2)}

Call(id, shape) == [id |-> id, shape |-> shape]

Wire(text, wireCalls, stop, u) ==
    [role |-> "assistant", unknownBlock |-> FALSE, text |-> text, refusal |-> "none",
     calls |-> wireCalls, stop |-> stop, usage |-> u]

Answers ==
    LET plain == Wire("text", <<>>, "end_turn", NoUsage)
        tools == Wire("none", <<Call("a", "usable")>>, "tool_use", NoUsage) IN
    {[plain EXCEPT !.usage = u, !.stop = s] :
        u \in Usages, s \in {"end_turn", "stop", "pause_turn", "stop_sequence"}}
    \cup {[tools EXCEPT !.usage = u, !.stop = s, !.calls = c] :
        u \in Usages, s \in {"tool_use", "tool_calls", "end_turn", "stop"},
        c \in {<<Call("a", "usable")>>, <<Call("b", "usable"), Call("a", "usable")>>}}
    \cup {[plain EXCEPT !.usage = u, !.stop = s] : u \in BadUsages, s \in {"end_turn", "stop"}}
    \cup {[plain EXCEPT !.stop = s] :
        s \in {"max_tokens", "length", "content_filter", "tool_use", "tool_calls", "other",
               "model_context_window_exceeded"}}
    \cup {[plain EXCEPT !.text = "none", !.refusal = t, !.stop = "refusal"] : t \in Texts}
    \cup {[plain EXCEPT !.text = t, !.stop = s] : t \in {"none", "blank"}, s \in {"end_turn", "stop"}}
    \cup {[tools EXCEPT !.calls = <<Call("a", "malformed")>>, !.stop = s] :
        s \in {"tool_use", "tool_calls"}}
    \cup {[plain EXCEPT !.role = "user"], [plain EXCEPT !.unknownBlock = TRUE]}

MCExchanges ==
    {[kind |-> "transport", error |-> e] : e \in TransportErrors}
    \cup {[kind |-> k] : k \in {"not encoded", "bad endpoint", "cut off", "oversized", "not JSON"}}
    \cup {[kind |-> "status", status |-> s] : s \in {302, 400, 401, 408, 429, 503, 504}}
    \cup {[kind |-> "answer", wire |-> w] : w \in Answers}

MCToolOutputs == [length : {1, 20}, utf8 : {TRUE}] \cup [length : {2}, utf8 : {FALSE}]

MCContextEnds == {"canceled", "deadline"}
=============================================================================
