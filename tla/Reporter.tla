------------------------------ MODULE Reporter ------------------------------
(***************************************************************************)
(* The stdout reporter: it starts the agent as the leader of a process      *)
(* group, copies its output to the log and to a capture, forwards signals   *)
(* to the group, and when the agent has ended kills the group, reaps every  *)
(* process that is left, waits for the copies and writes the result         *)
(* envelope to the termination log.  Beside it run the agent, its           *)
(* descendants (which may leave the group, keep the output pipe open or     *)
(* withstand SIGKILL for long), the copying goroutine and the goroutine     *)
(* that forwards signals.                                                   *)
(***************************************************************************)
EXTENDS Envelope, Sequences, FiniteSets

CONSTANTS
    Descendants,      \* processes the agent may start
    Lines,            \* lines a process may write: [kind, bytes, payload]
    MaxCaptureBytes,  \* capture limit for one line
    ExitCodes,        \* exit codes of the agent
    Faults,           \* calls that may fail, one of them before the exit:
                      \* "start", "log", "signal", "kill", "write"
    MaxLines,         \* lines written in all
    MaxSignals        \* signals sent to the reporter

(* A line of the output, with what the capture would keep of it: the message *)
(* it holds once the prefix is cut off.                                      *)
LineType ==
    [kind : {"blank", "text", "prefixed"}, bytes : Nat,
     payload : [kind : MessageKinds, bytes : Nat, envelope : EnvelopeType]]

ASSUME ReporterAssumption ==
    /\ Lines \subseteq LineType
    /\ MaxCaptureBytes \in Nat /\ MaxCaptureBytes >= MaxMessageBytes   \* parseConfig
    /\ 0 \in ExitCodes /\ MaxLines \in Nat /\ MaxSignals \in Nat
    /\ Faults \subseteq {"start", "log", "signal", "kill", "write"}

Main == "agent"
Processes == {Main} \cup Descendants

VARIABLES
    format,      \* "last-line" or "kontext-envelope"
    stuck,       \* descendants that SIGKILL does not end in time
    process,     \* each process: [state, inGroup, holdsPipe]
    exitStatus,  \* the agent's exit code
    pipe,        \* lines written and not yet read
    written,     \* how many lines were written
    captured,    \* what the capture holds
    seen,        \* how many lines it has seen
    copier,      \* "off", "reading", "closed", "ended", "failed"
    forwarder,   \* "off", "selecting", "ended"
    signals,     \* signals in the channel, of capacity 2
    sent,        \* signals sent to the reporter
    signalled,   \* has a signal reached the group?
    errors,      \* what failed so far
    pc,          \* where runReporter is
    message,     \* the termination message
    exitCode     \* the reporter's exit code, or -1

child == <<process, exitStatus>>
output == <<pipe, written>>
capturing == <<captured, seen, copier>>
signalling == <<forwarder, signals, sent, signalled>>
vars == <<format, stuck, process, exitStatus, pipe, written, captured, seen, copier,
          forwarder, signals, sent, signalled, errors, pc, message, exitCode>>

Unborn == [state |-> "unborn", inGroup |-> FALSE, holdsPipe |-> FALSE]
NoMessage == [kind |-> "empty", bytes |-> 0, envelope |-> EmptyEnvelope("Succeeded", 0)]
NothingCaptured == [found |-> FALSE, truncated |-> FALSE, line |-> NoMessage]
ChannelSize == 2
ReporterFailure == 125
ChildStartFailure == 126

ProcessType ==
    [state : {"unborn", "alive", "killed", "zombie", "reaped"},
     inGroup : BOOLEAN, holdsPipe : BOOLEAN]

TypeOK ==
    /\ process \in [Processes -> ProcessType]
    /\ exitStatus \in ExitCodes \cup {-1, 137}
    /\ copier \in {"off", "reading", "closed", "ended", "failed"}
    /\ forwarder \in {"off", "selecting", "ended"}
    /\ Len(signals) <= ChannelSize /\ sent \in 0..MaxSignals
    /\ errors \subseteq {"log", "signal", "kill", "reap", "read"}
    /\ exitCode \in ExitCodes \cup {-1, 137, ReporterFailure, ChildStartFailure}

Init ==
    /\ format \in {"last-line", "kontext-envelope"}
    /\ stuck \in SUBSET Descendants
    /\ process = [p \in Processes |-> Unborn]
    /\ exitStatus = -1
    /\ pipe = <<>> /\ written = 0
    /\ captured = NothingCaptured /\ seen = 0 /\ copier = "off"
    /\ forwarder = "off" /\ signals = <<>> /\ sent = 0 /\ signalled = FALSE
    /\ errors = {}
    /\ pc = "start"
    /\ message = NoMessage /\ exitCode = -1

Running(p) == process[p].state \in {"alive", "killed"}
MayFail(call) == call \in Faults /\ errors = {}
MainEnded == process[Main].state \in {"zombie", "reaped"}

-----------------------------------------------------------------------------
(* The agent and its descendants (external) *)

Fork ==
    /\ \E parent \in Processes, p \in Descendants, holds \in BOOLEAN :
          /\ process[parent].state = "alive" /\ process[p].state = "unborn"
          /\ holds => process[parent].holdsPipe
          /\ process' = [process EXCEPT
                ![p] = [state |-> "alive", inGroup |-> process[parent].inGroup,
                        holdsPipe |-> holds]]
    /\ UNCHANGED <<format, stuck, exitStatus, output, capturing, signalling, errors, pc,
                   message, exitCode>>

(* setsid *)
LeaveGroup ==
    /\ \E p \in Descendants :
          /\ process[p].state = "alive" /\ process[p].inGroup
          /\ process' = [process EXCEPT ![p].inGroup = FALSE]
    /\ UNCHANGED <<format, stuck, exitStatus, output, capturing, signalling, errors, pc,
                   message, exitCode>>

WriteLine ==
    /\ written < MaxLines
    /\ \E p \in Processes : process[p].state = "alive" /\ process[p].holdsPipe
    /\ copier \in {"off", "reading"}              \* else the write fails with EPIPE
    /\ \E line \in Lines : pipe' = Append(pipe, line)
    /\ written' = written + 1
    /\ UNCHANGED <<format, stuck, child, capturing, signalling, errors, pc, message, exitCode>>

(* A process ends by itself, or by SIGKILL; the reporter, a subreaper, then  *)
(* has it as a zombie.                                                       *)
Die(p) ==
    /\ Running(p)
    /\ process[p].state = "killed" => p \notin stuck
    /\ process' = [process EXCEPT ![p].state = "zombie"]
    /\ exitStatus' \in IF p # Main THEN {exitStatus}
                       ELSE IF process[p].state = "killed" THEN {137} ELSE ExitCodes
    /\ UNCHANGED <<format, stuck, output, capturing, signalling, errors, pc, message, exitCode>>

(* SIGTERM or SIGINT to the reporter: Notify drops it when the channel is full. *)
SendSignal ==
    /\ sent < MaxSignals /\ pc # "exited"
    /\ sent' = sent + 1
    /\ signals' = IF Len(signals) < ChannelSize THEN Append(signals, "TERM") ELSE signals
    /\ UNCHANGED <<format, stuck, child, output, capturing, forwarder, signalled, errors, pc,
                   message, exitCode>>

-----------------------------------------------------------------------------
(* capture.go *)

(* completeLine: the last line that is not blank, or the last one with the   *)
(* prefix.  A line of just the limit counts as cut off when a read ends      *)
(* before its newline, since appendCurrent then finds no room.               *)
CompleteLine(line, newlineApart) ==
    IF \/ format = "last-line" /\ line.kind # "blank"
       \/ format = "kontext-envelope" /\ line.kind = "prefixed"
    THEN [found |-> TRUE, line |-> line.payload,
          truncated |-> \/ line.bytes > MaxCaptureBytes
                        \/ line.bytes = MaxCaptureBytes /\ newlineApart]
    ELSE captured

(* streamForwarder.Write: the capture, then the log; an error of the log is  *)
(* kept and the pipe drained all the same.                                   *)
CopyLine ==
    /\ copier = "reading" /\ pipe # <<>>
    /\ \E newlineApart \in BOOLEAN : captured' = CompleteLine(Head(pipe), newlineApart)
    /\ seen' = seen + 1
    /\ pipe' = Tail(pipe)
    /\ \/ UNCHANGED errors
       \/ MayFail("log") /\ errors' = errors \cup {"log"}
    /\ UNCHANGED <<format, stuck, child, written, copier, signalling, pc, message, exitCode>>

(* io.Copy ends at EOF, or with an error once the pipe has been closed. *)
CopyEnds ==
    /\ \/ /\ copier = "reading" /\ pipe = <<>>
          /\ \A p \in Processes : Running(p) => ~process[p].holdsPipe
          /\ copier' = "ended" /\ UNCHANGED errors
       \/ /\ copier = "closed"
          /\ copier' = "failed" /\ errors' = errors \cup {"read"}
    /\ UNCHANGED <<format, stuck, child, output, captured, seen, signalling, pc, message, exitCode>>

-----------------------------------------------------------------------------
(* supervisor.go *)

(* Start; the goroutines follow. *)
StartChild ==
    /\ pc = "start"
    /\ pc' = "wait"
    /\ process' = [process EXCEPT ![Main] = [state |-> "alive", inGroup |-> TRUE,
                                             holdsPipe |-> TRUE]]
    /\ copier' = "reading" /\ forwarder' = "selecting"
    /\ UNCHANGED <<format, stuck, exitStatus, output, captured, seen, signals, sent, signalled,
                   errors, message, exitCode>>

(* forwardSignals: one signal; a group that is gone counts as signalled. *)
ForwardSignal ==
    /\ forwarder = "selecting" /\ signals # <<>>
    /\ signals' = Tail(signals)
    /\ \/ /\ signalled' = (signalled \/ \E p \in Processes : Running(p) /\ process[p].inGroup)
          /\ UNCHANGED errors
       \/ /\ MayFail("signal")
          /\ errors' = errors \cup {"signal"} /\ UNCHANGED signalled
    /\ UNCHANGED <<format, stuck, child, output, capturing, forwarder, sent, pc, message,
                   exitCode>>

Mut_StopForwardingEarly ==
    /\ forwarder = "selecting" /\ pc \in {"wait", "join"}
    /\ forwarder' = "ended"
    /\ UNCHANGED <<format, stuck, child, output, capturing, signals, sent, signalled, errors,
                   pc, message, exitCode>>

(* done is closed, and the select takes that branch. *)
StopForwarding ==
    /\ forwarder = "selecting" /\ pc = "join"
    /\ forwarder' = "ended"
    /\ UNCHANGED <<format, stuck, child, output, capturing, signals, sent, signalled, errors,
                   pc, message, exitCode>>

(* waitForMainProcess: Wait4(-1) also reaps orphans. *)
WaitForMainProcess ==
    /\ pc = "wait"
    /\ \E p \in Processes :
          /\ process[p].state = "zombie"
          /\ process' = [process EXCEPT ![p].state = "reaped"]
          /\ pc' = IF p = Main THEN "join" ELSE "wait"
    /\ UNCHANGED <<format, stuck, exitStatus, output, capturing, signalling, errors, message,
                   exitCode>>

(* cleanupProcessGroup, after <-forwardingDone *)
CleanupProcessGroup ==
    /\ pc = "join" /\ forwarder = "ended"
    /\ pc' = "reap"
    /\ \/ /\ process' = [p \in Processes |->
                IF process[p].state = "alive" /\ process[p].inGroup
                THEN [process[p] EXCEPT !.state = "killed"] ELSE process[p]]
          /\ UNCHANGED errors
       \/ /\ MayFail("kill")
          /\ errors' = errors \cup {"kill"} /\ UNCHANGED process
    /\ UNCHANGED <<format, stuck, exitStatus, output, capturing, signalling, message, exitCode>>

(* reapRemainingProcesses: until there is no child left, or for two seconds. *)
ReapOne ==
    /\ pc = "reap"
    /\ \E p \in Descendants :
          /\ process[p].state = "zombie"
          /\ process' = [process EXCEPT ![p].state = "reaped"]
    /\ UNCHANGED <<format, stuck, exitStatus, output, capturing, signalling, errors, pc, message,
                   exitCode>>

Mut_PipesStayOpen(failed) == UNCHANGED copier

(* waitForStreamCopies closes the pipes before it waits if anything is left. *)
ClosePipes(failed) ==
    copier' = IF failed /\ copier = "reading" THEN "closed" ELSE copier

ReapEnds ==
    /\ pc = "reap"
    /\ pc' = "copies"
    /\ \/ /\ \A p \in Processes : process[p].state \in {"unborn", "reaped"}
          /\ UNCHANGED errors
       \/ /\ \E p \in Processes : Running(p)
          /\ errors' = errors \cup {"reap"}
    /\ ClosePipes(errors' \cap {"kill", "reap"} # {})
    /\ UNCHANGED <<format, stuck, child, output, captured, seen, signalling, message, exitCode>>

-----------------------------------------------------------------------------
(* reporter.go *)

FailureEnvelope == EmptyEnvelope("Failed", ShortErrorBytes)

(* Every result_... and agent_process_exit failure has the same shape. *)
EnvelopeFromPrefixedCandidate ==
    IF captured.found /\ ~captured.truncated /\ ParseVersioned(captured.line)
    THEN captured.line.envelope
    ELSE FailureEnvelope

EnvelopeFromLastLine ==
    IF captured.truncated
    THEN [EmptyEnvelope("Succeeded", 0) EXCEPT
             !.output = MarkerBytes, !.marker = TRUE, !.truncated = TRUE, !.lost = {"output"}]
    ELSE [EmptyEnvelope("Succeeded", 0) EXCEPT !.output = captured.line.bytes]

EnvelopeFromCapture ==
    LET e == IF format = "last-line" THEN EnvelopeFromLastLine
             ELSE EnvelopeFromPrefixedCandidate IN
    IF exitStatus # 0 /\ e.outcome # "Failed"
    THEN [e EXCEPT !.outcome = "Failed", !.error = ShortErrorBytes]
    ELSE e

MessageOf(e) == [kind |-> "envelope", bytes |-> Size(Compact(e)), envelope |-> Compact(e)]

(* writeEnvelope and the exit; if it fails the termination log stays empty. *)
Exit(e, code, codeIfUnwritten) ==
    /\ pc' = "exited"
    /\ \/ message' = MessageOf(e) /\ exitCode' = code
       \/ "write" \in Faults /\ exitCode' = codeIfUnwritten /\ UNCHANGED message

(* parseConfig fails: nothing has been set up, and nothing is written. *)
ConfigFails ==
    /\ pc = "start" /\ sent = 0
    /\ pc' = "exited" /\ exitCode' = ReporterFailure
    /\ UNCHANGED <<format, stuck, child, output, capturing, signalling, errors, message>>

(* prepareProcessSupervisor fails, or the pipes or Start do. *)
StartFails ==
    /\ pc = "start" /\ "start" \in Faults
    /\ \E code \in {ReporterFailure, ChildStartFailure} : Exit(FailureEnvelope, code, code)
    /\ UNCHANGED <<format, stuck, child, output, capturing, signalling, errors>>

Mut_ReportAtOnce ==
    /\ pc = "copies"
    /\ IF errors # {}
       THEN Exit(FailureEnvelope, ReporterFailure, ReporterFailure)
       ELSE Exit(EnvelopeFromCapture, exitStatus, ReporterFailure)
    /\ UNCHANGED <<format, stuck, child, output, capturing, signalling, errors>>

Report ==
    /\ pc = "copies" /\ copier \in {"ended", "failed"}
    /\ IF errors # {}
       THEN Exit(FailureEnvelope, ReporterFailure, ReporterFailure)
       ELSE Exit(EnvelopeFromCapture, exitStatus, ReporterFailure)
    /\ UNCHANGED <<format, stuck, child, output, capturing, signalling, errors>>

-----------------------------------------------------------------------------
Supervise == ConfigFails \/ StartChild \/ StartFails \/ WaitForMainProcess \/ CleanupProcessGroup \/ ReapOne
             \/ ReapEnds \/ Report
Copy == CopyLine \/ CopyEnds
Forward == ForwardSignal \/ StopForwarding
Outside == Fork \/ LeaveGroup \/ WriteLine \/ SendSignal \/ \E p \in Processes : Die(p)

(* When the reporter, the container's first process, exits, all end with it. *)
Next == pc # "exited" /\ (Supervise \/ Copy \/ Forward \/ Outside)

Spec == Init /\ [][Next]_vars

(* The reporter's goroutines run, and a select with both channels ready      *)
(* cannot take the signal for ever: signals are finitely many.  Nothing is   *)
(* asked of the agent, its descendants or the kernel's SIGKILL.              *)
FairSpec ==
    /\ Spec
    /\ WF_vars(pc # "exited" /\ Supervise)
    /\ WF_vars(pc # "exited" /\ Copy)
    /\ WF_vars(pc # "exited" /\ Forward)

-----------------------------------------------------------------------------
(* Properties *)

(* A normal exit reports what happened: nothing failed on the way and no     *)
(* process is left, the exit code is the agent's, every line written was     *)
(* seen before the result was taken, and the message is a valid envelope     *)
(* that fits and says Succeeded exactly if the agent ended with 0 and, where *)
(* an envelope is asked for, its last complete envelope says so              *)
(* (runReporter, runChild, envelopeFromCapture, waitForStreamCopies,         *)
(* Compact).                                                                 *)
ReportIsFaithful ==
    (pc = "exited" /\ exitCode \notin {ReporterFailure, ChildStartFailure}) =>
        /\ errors = {} /\ \A p \in Processes : ~Running(p)
        /\ exitCode = exitStatus
        /\ seen = written
        /\ message.bytes <= MaxMessageBytes
        /\ Parse(message).ok
        /\ (message.envelope.outcome = "Succeeded") <=>
              /\ exitStatus = 0
              /\ format = "kontext-envelope" =>
                    /\ captured.found /\ ~captured.truncated /\ captured.line.kind = "envelope"
                    /\ Valid(captured.line.envelope)
                    /\ captured.line.envelope.outcome = "Succeeded"

(* Once the agent has ended the reporter exits, even if a descendant still   *)
(* holds the pipe or cannot be killed (waitForStreamCopies,                  *)
(* reapRemainingProcesses).                                                  *)
AgentEndEndsReporter == []<>(~MainEnded \/ pc = "exited")

(* A signal sent to the reporter, at whatever moment, reaches the agent's    *)
(* group unless the agent has ended or the call fails (execute,              *)
(* forwardSignals).                                                          *)
SignalArrives ==
    []<>(sent = 0 \/ signalled \/ MainEnded \/ "signal" \in errors \/ pc = "exited")
=============================================================================
