-------------------------- MODULE MCScheduledAgent --------------------------
(* Small instances of ScheduledAgent for TLC.                               *)
EXTENDS ScheduledAgent

Every(first, period) == {first + k * period : k \in 0..MaxTime + 1}

Daily == [valid |-> TRUE, slots |-> Every(0, 1), forbid |-> FALSE, deadline |-> 1,
          suspend |-> FALSE, keepSucceeded |-> 1, keepFailed |-> 1]
Forbidding == [Daily EXCEPT !.forbid = TRUE]
Sparse == [Daily EXCEPT !.slots = Every(1, 2), !.deadline = 0]

MCSpecs == {Forbidding, [Sparse EXCEPT !.suspend = TRUE], [Daily EXCEPT !.valid = FALSE]}
=============================================================================
