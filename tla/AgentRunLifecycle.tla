------------------------- MODULE AgentRunLifecycle -------------------------
(***************************************************************************)
(* What an AgentRun promises to those that watch its status (the Agent     *)
(* controller, kubectl wait, the evaluation harness): an incarnation moves *)
(* between the active phases as it likes, reaches a terminal phase at most *)
(* once, is stamped with its completion in the same write, and is frozen   *)
(* from then on.  A deleted run may be created again under the same name,  *)
(* as another incarnation with an empty status.                            *)
(***************************************************************************)
EXTENDS Integers

CONSTANTS TerminalPhases, ActivePhases

VARIABLES
    uid,         \* the incarnation, 0 when the name is free
    phase,
    completed,   \* is the completion time set?
    conditions   \* the phase that the conditions describe

vars == <<uid, phase, completed, conditions>>

Fresh == phase = "unset" /\ conditions = "unset" /\ completed = FALSE

\* The name is free, or its first run has just been created.
Init == uid \in {0, 1} /\ Fresh

Progress ==
    /\ uid # 0
    /\ phase \notin TerminalPhases
    /\ phase' \in ActivePhases
    /\ completed' = FALSE
    /\ conditions' = phase'
    /\ uid' = uid

Complete ==
    /\ uid # 0
    /\ phase \notin TerminalPhases
    /\ phase' \in TerminalPhases
    /\ completed' = TRUE
    /\ conditions' = phase'
    /\ uid' = uid

Delete == uid # 0 /\ uid' = 0 /\ Fresh'

Create == uid = 0 /\ uid' > 0 /\ Fresh'

Next == Progress \/ Complete \/ Delete \/ Create

Spec == Init /\ [][Next]_vars
=============================================================================
