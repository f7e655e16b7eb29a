------------------------- MODULE MCAgentRunDelivery -------------------------
(* Small instances of AgentRunDelivery for TLC.  One and two seconds of    *)
(* backoff stand for the code's four steps.                                *)
EXTENDS AgentRunDelivery

MCBackoffTable == <<[after |-> 0, delay |-> 1], [after |-> 2, delay |-> 2]>>

MCIps == {1}
MCLimits == {BadLimit, 1}
=============================================================================
