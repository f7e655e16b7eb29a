--------------------------- MODULE MCAgentRunPod ---------------------------
(* Small instances of AgentRunPod for TLC.                                  *)
EXTENDS AgentRunPod

Plain == [wallclock |-> NoLimit, buildable |-> TRUE, warm |-> FALSE]
Timed == [Plain EXCEPT !.wallclock = 1]

MCPlainSpecs == {Plain}
MCTimedSpecs == {Timed}
MCWarmSpecs == {[Timed EXCEPT !.warm = TRUE]}
MCAllSpecs == {Timed, [Plain EXCEPT !.wallclock = BadLimit],
               [Plain EXCEPT !.buildable = FALSE], [Plain EXCEPT !.warm = TRUE]}

Done(exit, payload, output) == [exit |-> exit, payload |-> payload, output |-> output]

MCSuccess == {Done(0, "succeeded", TRUE)}
MCOneOfEach == {Done(0, "succeeded", TRUE), Done(1, "succeeded", TRUE)}
MCTerminations ==
    {Done(0, "succeeded", TRUE), Done(0, "failed", TRUE), Done(0, "malformed", FALSE),
     Done(1, "succeeded", TRUE)}
=============================================================================
