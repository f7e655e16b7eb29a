--------------------------- MODULE Reporter_proofs ---------------------------
(***************************************************************************)
(* What Compact guarantees for every envelope and every choice of sizes,    *)
(* and from it that a normal exit of the reporter is a faithful report, for *)
(* any number of descendants, lines, signals and faults.                    *)
(***************************************************************************)
EXTENDS Reporter, TLAPS

-----------------------------------------------------------------------------
(* The envelope *)

(* The flags of a truncation record take at most three times one flag. *)
LEMMA FlagsBounded ==
    ASSUME NEW e \in EnvelopeType
    PROVE  Flags(e) \in Nat /\ Flags(e) <= 3 * FlagBytes
BY EnvelopeAssumption DEF Flags, EnvelopeType

(* The size of an envelope is a number. *)
LEMMA SizeIsNat ==
    ASSUME NEW e \in EnvelopeType
    PROVE  Size(e) \in Nat
BY FlagsBounded, EnvelopeAssumption DEF Size, EnvelopeType

(* The last resort of Compact is an envelope, fits, and keeps validity and   *)
(* outcome.                                                                  *)
LEMMA MinimalFits ==
    ASSUME NEW e \in EnvelopeType
    PROVE  /\ Minimal(e) \in EnvelopeType
           /\ Fits(Minimal(e))
           /\ Valid(Minimal(e))
           /\ Minimal(e).outcome = e.outcome
<1> DEFINE m == Minimal(e)
<1>1. /\ m.outcome = e.outcome /\ m.wellFormed = TRUE /\ m.output = 0 /\ m.artifacts = 0
      /\ m.extensions = 0 /\ m.usage = 0 /\ m.meta = 0 /\ m.truncated = TRUE /\ m.lost = e.lost
      /\ m.error = IF e.outcome = "Failed" THEN ShortErrorBytes ELSE 0
  BY DEF Minimal, EmptyEnvelope, EnvelopeType
<1>2. m \in EnvelopeType
  BY EnvelopeAssumption DEF Minimal, EmptyEnvelope, EnvelopeType
<1>3. Fits(m)
  <2>1. Flags(m) \in Nat /\ Flags(m) <= 3 * FlagBytes
    BY <1>2, FlagsBounded
  <2>2. Size(m) <= BaseBytes + ShortErrorBytes + TruncationBytes + Flags(m)
    BY <1>1, <2>1, EnvelopeAssumption DEF Size
  <2> QED BY <1>2, <2>1, <2>2, SizeIsNat, EnvelopeAssumption DEF Fits
<1>4. Valid(m)
  BY <1>1, EnvelopeAssumption DEF Valid, EnvelopeType
<1> QED BY <1>1, <1>2, <1>3, <1>4

(* Whatever Compact drops, the envelope stays one, as valid as it was and    *)
(* with its outcome.                                                         *)
LEMMA DroppingKeepsOutcome ==
    ASSUME NEW e \in EnvelopeType, Valid(e),
           NEW d \in {DropExtensions(e), DropArtifacts(e), MarkOutput(e), DropDetails(e),
                      [e EXCEPT !.truncated = TRUE, !.lost = {}]}
    PROVE  d \in EnvelopeType /\ Valid(d) /\ d.outcome = e.outcome
<1>1. CASE d = DropExtensions(e)
  BY <1>1 DEF DropExtensions, Valid, EnvelopeType, Parts
<1>2. CASE d = DropArtifacts(e)
  BY <1>2 DEF DropArtifacts, Valid, EnvelopeType, Parts
<1>3. CASE d = MarkOutput(e)
  BY <1>3, EnvelopeAssumption DEF MarkOutput, Valid, EnvelopeType, Parts
<1>4. CASE d = DropDetails(e)
  <2> DEFINE err == IF e.error > 0 THEN ShortErrorBytes ELSE 0
  <2>1. err \in Nat /\ (err > 0 <=> e.error > 0)
    BY EnvelopeAssumption DEF EnvelopeType
  <2>2. d = [e EXCEPT !.error = err, !.meta = 0]
    BY <1>4 DEF DropDetails
  <2> HIDE DEF err
  <2> QED BY <2>1, <2>2 DEF Valid, EnvelopeType
<1>5. CASE d = [e EXCEPT !.truncated = TRUE, !.lost = {}]
  BY <1>5 DEF Valid, EnvelopeType, Parts
<1> QED BY <1>1, <1>2, <1>3, <1>4, <1>5

(* Compact (compact.go) turns every valid envelope, of whatever size, into a *)
(* valid one with the same outcome that fits in a termination message.       *)
THEOREM CompactFits ==
    ASSUME NEW e \in EnvelopeType, Valid(e)
    PROVE  /\ Compact(e) \in EnvelopeType
           /\ Fits(Compact(e))
           /\ Valid(Compact(e))
           /\ Compact(e).outcome = e.outcome
<1> DEFINE Good(d) == d \in EnvelopeType /\ Valid(d) /\ d.outcome = e.outcome
           e0 == [e EXCEPT !.truncated = TRUE, !.lost = {}]
           e1 == IF e.extensions > 0 THEN DropExtensions(e0) ELSE e0
           e2 == IF e.artifacts > 0 THEN DropArtifacts(e1) ELSE e1
           e3 == IF e.output > 0 THEN MarkOutput(e2) ELSE e2
           e4 == DropDetails(e3)
<1>0. Good(e0)
  BY DroppingKeepsOutcome
<1>1. Good(e1)
  <2> HIDE DEF e0
  <2> QED BY <1>0, DroppingKeepsOutcome
<1>2. Good(e2)
  <2> HIDE DEF e1
  <2> QED BY <1>1, DroppingKeepsOutcome
<1>3. Good(e3)
  <2> HIDE DEF e2
  <2> QED BY <1>2, DroppingKeepsOutcome
<1>4. Good(e4)
  <2> HIDE DEF e3
  <2> QED BY <1>3, DroppingKeepsOutcome
<1>5. Good(Minimal(e4)) /\ Fits(Minimal(e4))
  <2> HIDE DEF e4
  <2> QED BY <1>4, MinimalFits
<1>6. Compact(e) = IF Fits(e) THEN e
                   ELSE IF e.extensions > 0 /\ Fits(e1) THEN e1
                   ELSE IF e.artifacts > 0 /\ Fits(e2) THEN e2
                   ELSE IF e.output > 0 /\ Fits(e3) THEN e3
                   ELSE IF Fits(e4) THEN e4
                   ELSE Minimal(e4)
  BY DEF Compact
<1>7. Good(Compact(e)) /\ Fits(Compact(e))
  <2> HIDE DEF e0, e1, e2, e3, e4
  <2> QED BY <1>1, <1>2, <1>3, <1>4, <1>5, <1>6
<1> QED BY <1>7

-----------------------------------------------------------------------------
(* The reporter's invariant *)

MessageType == [kind : MessageKinds, bytes : Nat, envelope : EnvelopeType]

(* What the types leave out of TypeOK: the data on its way to the message. *)
DataInv ==
    /\ format \in {"last-line", "kontext-envelope"}
    /\ pipe \in Seq(LineType) /\ signals \in Seq({"TERM"})
    /\ captured \in [found : BOOLEAN, truncated : BOOLEAN, line : MessageType]
    /\ seen \in Nat /\ written \in Nat

(* A line is in the pipe until it has been seen. *)
CountInv == written = seen + Len(pipe)

(* The copy ended at EOF only if nobody can write any more, and otherwise    *)
(* with an error that was kept.                                              *)
CopierInv ==
    /\ copier = "ended" => /\ pipe = <<>>
                           /\ \A p \in Processes : Running(p) => ~process[p].holdsPipe
    /\ copier = "failed" => "read" \in errors
    /\ pc = "start" => copier = "off"

(* Past the reaping, either every process is gone for good or an error says  *)
(* that one may be left.                                                     *)
ReapInv ==
    pc = "copies" /\ errors = {} =>
        \A p \in Processes : process[p].state \in {"unborn", "reaped"}

IInv ==
    /\ TypeOK /\ DataInv /\ CountInv /\ CopierInv /\ ReapInv
    /\ ReportIsFaithful

-----------------------------------------------------------------------------
(* The envelope of a report *)

(* An empty envelope is valid if it has an error exactly if it failed. *)
LEMMA EmptyEnvelopeValid ==
    ASSUME NEW o \in {"Succeeded", "Failed"}, NEW b \in Nat, o = "Failed" <=> b > 0
    PROVE  /\ EmptyEnvelope(o, b) \in EnvelopeType /\ Valid(EmptyEnvelope(o, b))
           /\ EmptyEnvelope(o, b).outcome = o
BY DEF EmptyEnvelope, EnvelopeType, Valid, Parts

(* The envelope of a failure is valid, and failed. *)
LEMMA FailureEnvelopeValid ==
    /\ FailureEnvelope \in EnvelopeType /\ Valid(FailureEnvelope)
    /\ FailureEnvelope.outcome = "Failed"
BY EmptyEnvelopeValid, EnvelopeAssumption DEF FailureEnvelope

(* A versioned message is an envelope, and a valid one. *)
LEMMA VersionedIsValid ==
    ASSUME NEW m \in MessageType
    PROVE  ParseVersioned(m) <=> m.kind = "envelope" /\ Valid(m.envelope)
<1>1. CASE m.kind = "envelope"
  BY <1>1 DEF ParseVersioned, Parse
<1>2. CASE m.kind # "envelope"
  <2>1. Parse(m).versioned = FALSE
    BY <1>2 DEF Parse, MessageType, MessageKinds
  <2> QED BY <1>2, <2>1 DEF ParseVersioned
<1> QED BY <1>1, <1>2

(* Output and a truncation record do not change that. *)
LEMMA OutputKeepsValid ==
    ASSUME NEW e \in EnvelopeType, Valid(e), NEW n \in Nat
    PROVE  LET w == [e EXCEPT !.output = n]
               t == [e EXCEPT !.output = n, !.marker = TRUE, !.truncated = TRUE,
                              !.lost = {"output"}] IN
           /\ w \in EnvelopeType /\ Valid(w) /\ w.outcome = e.outcome
           /\ t \in EnvelopeType /\ Valid(t) /\ t.outcome = e.outcome
<1> DEFINE w == [e EXCEPT !.output = n]
           t == [e EXCEPT !.output = n, !.marker = TRUE, !.truncated = TRUE,
                          !.lost = {"output"}]
<1>1. w \in EnvelopeType /\ Valid(w) /\ w.outcome = e.outcome
  BY DEF EnvelopeType, Valid
<1>2. t \in EnvelopeType
  BY DEF EnvelopeType, Parts
<1>3. Valid(t) /\ t.outcome = e.outcome
  BY DEF EnvelopeType, Valid
<1> QED BY <1>1, <1>2, <1>3

(* An envelope made to fail is valid. *)
LEMMA FailingKeepsValid ==
    ASSUME NEW e \in EnvelopeType, Valid(e)
    PROVE  LET f == [e EXCEPT !.outcome = "Failed", !.error = ShortErrorBytes] IN
           f \in EnvelopeType /\ Valid(f) /\ f.outcome = "Failed"
<1> DEFINE f == [e EXCEPT !.outcome = "Failed", !.error = ShortErrorBytes]
<1>1. ShortErrorBytes \in Nat /\ ShortErrorBytes > 0
  BY EnvelopeAssumption
<1>2. f \in EnvelopeType
  BY <1>1 DEF EnvelopeType
<1>3. f.wellFormed = e.wellFormed /\ f.outcome = "Failed" /\ f.error = ShortErrorBytes
  BY DEF EnvelopeType
<1> HIDE DEF f
<1>4. Valid(f) /\ f.outcome = "Failed"
  BY <1>1, <1>3 DEF Valid
<1> QED BY <1>2, <1>4 DEF f

(* What the last line says is always a success. *)
LEMMA LastLineEnvelope ==
    ASSUME DataInv
    PROVE  /\ EnvelopeFromLastLine \in EnvelopeType /\ Valid(EnvelopeFromLastLine)
           /\ EnvelopeFromLastLine.outcome = "Succeeded"
<1>1. captured.line.bytes \in Nat
  BY DEF DataInv, MessageType
<1> DEFINE e == EmptyEnvelope("Succeeded", 0)
<1>2. e \in EnvelopeType /\ Valid(e) /\ e.outcome = "Succeeded"
  BY EmptyEnvelopeValid
<1>3. EnvelopeFromLastLine =
        IF captured.truncated
        THEN [e EXCEPT !.output = MarkerBytes, !.marker = TRUE, !.truncated = TRUE,
                       !.lost = {"output"}]
        ELSE [e EXCEPT !.output = captured.line.bytes]
  BY DEF EnvelopeFromLastLine
<1> HIDE DEF e
<1> QED BY <1>1, <1>2, <1>3, OutputKeepsValid, EnvelopeAssumption

(* The candidate is taken as it is if it is whole and valid. *)
LEMMA PrefixedEnvelope ==
    ASSUME DataInv
    PROVE  LET e == EnvelopeFromPrefixedCandidate IN
           /\ e \in EnvelopeType /\ Valid(e)
           /\ (e.outcome = "Succeeded") <=>
                 /\ captured.found /\ ~captured.truncated /\ captured.line.kind = "envelope"
                 /\ Valid(captured.line.envelope)
                 /\ captured.line.envelope.outcome = "Succeeded"
<1> DEFINE whole == captured.found /\ ~captured.truncated /\ ParseVersioned(captured.line)
<1>0. captured.line \in MessageType /\ captured.line.envelope \in EnvelopeType
  BY DEF DataInv, MessageType
<1>1. ParseVersioned(captured.line)
         <=> captured.line.kind = "envelope" /\ Valid(captured.line.envelope)
  BY <1>0, VersionedIsValid
<1>2. CASE whole
  BY <1>0, <1>1, <1>2 DEF EnvelopeFromPrefixedCandidate
<1>3. CASE ~whole
  <2>1. EnvelopeFromPrefixedCandidate = FailureEnvelope
    BY <1>3 DEF EnvelopeFromPrefixedCandidate
  <2> QED BY <1>1, <1>3, <2>1, FailureEnvelopeValid
<1> QED BY <1>2, <1>3

(* Whatever was captured and however the agent ended, the envelope is valid  *)
(* and succeeds only if both do.                                             *)
LEMMA CaptureEnvelope ==
    ASSUME DataInv
    PROVE  LET e == EnvelopeFromCapture IN
           /\ e \in EnvelopeType /\ Valid(e)
           /\ (e.outcome = "Succeeded") <=>
                 /\ exitStatus = 0
                 /\ format = "kontext-envelope" =>
                       /\ captured.found /\ ~captured.truncated
                       /\ captured.line.kind = "envelope"
                       /\ Valid(captured.line.envelope)
                       /\ captured.line.envelope.outcome = "Succeeded"
<1> DEFINE e == IF format = "last-line" THEN EnvelopeFromLastLine
                ELSE EnvelopeFromPrefixedCandidate
           f == [e EXCEPT !.outcome = "Failed", !.error = ShortErrorBytes]
           Claimed == format = "kontext-envelope" =>
                         /\ captured.found /\ ~captured.truncated
                         /\ captured.line.kind = "envelope"
                         /\ Valid(captured.line.envelope)
                         /\ captured.line.envelope.outcome = "Succeeded"
<1>1. format \in {"last-line", "kontext-envelope"}
  BY DEF DataInv
<1>2. e \in EnvelopeType /\ Valid(e) /\ (e.outcome = "Succeeded" <=> Claimed)
  BY <1>1, LastLineEnvelope, PrefixedEnvelope
<1>3. EnvelopeFromCapture = IF exitStatus # 0 /\ e.outcome # "Failed" THEN f ELSE e
  BY DEF EnvelopeFromCapture
<1> HIDE DEF e, Claimed
<1>4. f \in EnvelopeType /\ Valid(f) /\ f.outcome = "Failed"
  BY <1>2, FailingKeepsValid
<1>5. e.outcome \in {"Succeeded", "Failed"}
  BY <1>2 DEF EnvelopeType
<1> HIDE DEF f
<1>6. /\ EnvelopeFromCapture \in EnvelopeType /\ Valid(EnvelopeFromCapture)
      /\ EnvelopeFromCapture.outcome = "Succeeded" <=> exitStatus = 0 /\ Claimed
  BY <1>2, <1>3, <1>4, <1>5
<1> QED BY <1>6 DEF Claimed

(* The message made of a valid envelope fits, parses and has its outcome. *)
LEMMA MessageOfValid ==
    ASSUME NEW e \in EnvelopeType, Valid(e)
    PROVE  /\ MessageOf(e).bytes <= MaxMessageBytes /\ Parse(MessageOf(e)).ok
           /\ MessageOf(e).envelope.outcome = e.outcome
<1>1. Fits(Compact(e)) /\ Valid(Compact(e)) /\ Compact(e).outcome = e.outcome
  BY CompactFits
<1> HIDE DEF Compact
<1>2. /\ MessageOf(e).kind = "envelope" /\ MessageOf(e).bytes = Size(Compact(e))
      /\ MessageOf(e).envelope = Compact(e)
  BY DEF MessageOf
<1> QED BY <1>1, <1>2 DEF Fits, Parse

-----------------------------------------------------------------------------
(* The initial state *)

(* Before the agent is started there is nothing to report. *)
LEMMA InitIInv == Init => IInv
<1> SUFFICES ASSUME Init PROVE IInv
  OBVIOUS
<1>1. NoMessage \in MessageType
  <2>1. EmptyEnvelope("Succeeded", 0) \in EnvelopeType
    BY EmptyEnvelopeValid
  <2> QED BY <2>1 DEF NoMessage, MessageType, MessageKinds
<1>2. TypeOK
  BY ReporterAssumption
  DEF Init, TypeOK, Unborn, ProcessType, ChannelSize
<1>3. DataInv
  <2>1. NothingCaptured \in [found : BOOLEAN, truncated : BOOLEAN, line : MessageType]
    BY <1>1 DEF NothingCaptured
  <2> QED BY <2>1 DEF Init, DataInv
<1>4. CountInv /\ CopierInv /\ ReapInv /\ ReportIsFaithful
  BY DEF Init, CountInv, CopierInv, ReapInv, ReportIsFaithful
<1> QED BY <1>2, <1>3, <1>4 DEF IInv

-----------------------------------------------------------------------------
(* The agent and its descendants *)

(* Nobody is born of a process that is gone, and nobody gets the pipe from a *)
(* process that does not have it.                                            *)
LEMMA ForkStep == IInv /\ pc # "exited" /\ Fork => IInv'
<1> SUFFICES ASSUME IInv, pc # "exited", Fork PROVE IInv'
  OBVIOUS
<1> USE DEF IInv
<1>1. PICK parent \in Processes, p \in Descendants, holds \in BOOLEAN :
         /\ process[parent].state = "alive" /\ process[p].state = "unborn"
         /\ holds => process[parent].holdsPipe
         /\ process' = [process EXCEPT
               ![p] = [state |-> "alive", inGroup |-> process[parent].inGroup,
                       holdsPipe |-> holds]]
  BY Zenon DEF Fork
<1>2. /\ UNCHANGED <<format, exitStatus, errors, pc, message, exitCode>>
      /\ UNCHANGED <<pipe, written, captured, seen, copier>>
      /\ UNCHANGED <<forwarder, signals, sent, signalled>>
  BY DEF Fork, output, capturing, signalling
<1>3. p \in Processes /\ process \in [Processes -> ProcessType]
  BY DEF Processes, TypeOK
<1>4. /\ process' \in [Processes -> ProcessType]
      /\ process'[p] = [state |-> "alive", inGroup |-> process[parent].inGroup,
                        holdsPipe |-> holds]
      /\ \A q \in Processes \ {p} : process'[q] = process[q]
  BY <1>1, <1>3 DEF ProcessType
<1>5. TypeOK'
  BY <1>2, <1>4 DEF TypeOK
<1>6. DataInv' /\ CountInv'
  BY <1>2 DEF DataInv, CountInv
<1>7. CopierInv'
  BY <1>1, <1>2, <1>4 DEF CopierInv, Running
<1>8. ReapInv'
  BY <1>1, <1>2 DEF ReapInv
<1>9. ReportIsFaithful'
  BY <1>2 DEF ReportIsFaithful
<1> QED BY <1>5, <1>6, <1>7, <1>8, <1>9

(* A process that leaves the group keeps the pipe, running as before. *)
LEMMA LeaveGroupStep == IInv /\ pc # "exited" /\ LeaveGroup => IInv'
<1> SUFFICES ASSUME IInv, pc # "exited", LeaveGroup PROVE IInv'
  OBVIOUS
<1> USE DEF IInv
<1>1. PICK p \in Descendants : process' = [process EXCEPT ![p].inGroup = FALSE]
  BY Zenon DEF LeaveGroup
<1>2. /\ UNCHANGED <<format, exitStatus, errors, pc, message, exitCode>>
      /\ UNCHANGED <<pipe, written, captured, seen, copier>>
      /\ UNCHANGED <<forwarder, signals, sent, signalled>>
  BY DEF LeaveGroup, output, capturing, signalling
<1>3. p \in Processes /\ process \in [Processes -> ProcessType]
  BY DEF Processes, TypeOK
<1>4. /\ process' \in [Processes -> ProcessType]
      /\ \A q \in Processes : /\ process'[q].state = process[q].state
                              /\ process'[q].holdsPipe = process[q].holdsPipe
  BY <1>1, <1>3 DEF ProcessType
<1>5. TypeOK'
  BY <1>2, <1>4 DEF TypeOK
<1>6. DataInv' /\ CountInv'
  BY <1>2 DEF DataInv, CountInv
<1>7. CopierInv'
  BY <1>2, <1>4 DEF CopierInv, Running
<1>8. ReapInv'
  BY <1>2, <1>4 DEF ReapInv
<1>9. ReportIsFaithful'
  BY <1>2 DEF ReportIsFaithful
<1> QED BY <1>5, <1>6, <1>7, <1>8, <1>9

(* A line is written only while somebody reads. *)
LEMMA WriteLineStep == IInv /\ pc # "exited" /\ WriteLine => IInv'
<1> SUFFICES ASSUME IInv, pc # "exited", WriteLine PROVE IInv'
  OBVIOUS
<1> USE DEF IInv
<1>1. PICK line \in Lines : pipe' = Append(pipe, line)
  BY Zenon DEF WriteLine
<1>2. /\ UNCHANGED <<format, process, exitStatus, errors, pc, message, exitCode>>
      /\ UNCHANGED <<captured, seen, copier, forwarder, signals, sent, signalled>>
      /\ written' = written + 1 /\ copier \in {"off", "reading"}
  BY DEF WriteLine, child, capturing, signalling
<1>3. line \in LineType /\ pipe \in Seq(LineType)
  BY ReporterAssumption DEF DataInv
<1>4. pipe' \in Seq(LineType) /\ Len(pipe') = Len(pipe) + 1
  BY <1>1, <1>3
<1>5. TypeOK'
  BY <1>2 DEF TypeOK
<1>6. DataInv'
  BY <1>2, <1>4 DEF DataInv
<1>7. CountInv'
  BY <1>2, <1>3, <1>4 DEF CountInv, DataInv
<1>8. CopierInv' /\ ReapInv'
  BY <1>2 DEF CopierInv, ReapInv, Running
<1>9. ReportIsFaithful'
  BY <1>2 DEF ReportIsFaithful
<1> QED BY <1>5, <1>6, <1>7, <1>8, <1>9

(* A process that ends no longer runs. *)
LEMMA DieStep == ASSUME NEW p \in Processes PROVE IInv /\ pc # "exited" /\ Die(p) => IInv'
<1> SUFFICES ASSUME IInv, pc # "exited", Die(p) PROVE IInv'
  OBVIOUS
<1> USE DEF IInv
<1>1. /\ UNCHANGED <<format, errors, pc, message, exitCode>>
      /\ UNCHANGED <<pipe, written, captured, seen, copier>>
      /\ UNCHANGED <<forwarder, signals, sent, signalled>>
  BY DEF Die, output, capturing, signalling
<1>2. /\ Running(p)
      /\ process' = [process EXCEPT ![p].state = "zombie"]
  BY DEF Die
<1>3. /\ process' \in [Processes -> ProcessType]
      /\ process'[p].state = "zombie"
      /\ \A q \in Processes \ {p} : process'[q] = process[q]
  BY <1>2 DEF TypeOK, ProcessType
<1>4. exitStatus' \in ExitCodes \cup {-1, 137}
  BY DEF Die, TypeOK
<1>5. TypeOK'
  BY <1>1, <1>3, <1>4 DEF TypeOK
<1>6. DataInv' /\ CountInv'
  BY <1>1 DEF DataInv, CountInv
<1>7. CopierInv'
  BY <1>1, <1>3 DEF CopierInv, Running
<1>8. ReapInv'
  BY <1>1, <1>2 DEF ReapInv, Running
<1>9. ReportIsFaithful'
  BY <1>1 DEF ReportIsFaithful
<1> QED BY <1>5, <1>6, <1>7, <1>8, <1>9

(* A signal waits in the channel, or is dropped when it is full. *)
LEMMA SendSignalStep == IInv /\ pc # "exited" /\ SendSignal => IInv'
<1> SUFFICES ASSUME IInv, pc # "exited", SendSignal PROVE IInv'
  OBVIOUS
<1> USE DEF IInv
<1>1. /\ UNCHANGED <<format, process, exitStatus, errors, pc, message, exitCode>>
      /\ UNCHANGED <<pipe, written, captured, seen, copier>>
      /\ UNCHANGED <<forwarder, signalled>>
      /\ sent < MaxSignals /\ sent' = sent + 1
      /\ signals' = IF Len(signals) < ChannelSize THEN Append(signals, "TERM") ELSE signals
  BY DEF SendSignal, child, output, capturing
<1>2. signals \in Seq({"TERM"}) /\ Len(signals) <= ChannelSize
  BY DEF DataInv, TypeOK
<1>3. signals' \in Seq({"TERM"}) /\ Len(signals') <= ChannelSize
  BY <1>1, <1>2 DEF ChannelSize
<1>4. TypeOK'
  BY <1>1, <1>3, ReporterAssumption DEF TypeOK
<1>5. DataInv' /\ CountInv'
  BY <1>1, <1>3 DEF DataInv, CountInv
<1>6. CopierInv' /\ ReapInv'
  BY <1>1 DEF CopierInv, ReapInv, Running
<1>7. ReportIsFaithful'
  BY <1>1 DEF ReportIsFaithful
<1> QED BY <1>4, <1>5, <1>6, <1>7

-----------------------------------------------------------------------------
(* The copying and the forwarding goroutine *)

(* A line leaves the pipe as it is seen. *)
LEMMA CopyLineStep == IInv /\ pc # "exited" /\ CopyLine => IInv'
<1> SUFFICES ASSUME IInv, pc # "exited", CopyLine PROVE IInv'
  OBVIOUS
<1> USE DEF IInv
<1>1. /\ UNCHANGED <<format, process, exitStatus, pc, message, exitCode>>
      /\ UNCHANGED <<written, copier, forwarder, signals, sent, signalled>>
      /\ copier = "reading" /\ pipe # <<>> /\ seen' = seen + 1 /\ pipe' = Tail(pipe)
      /\ \E newlineApart \in BOOLEAN : captured' = CompleteLine(Head(pipe), newlineApart)
      /\ errors' = errors \/ errors' = errors \cup {"log"}
  BY DEF CopyLine, child, signalling
<1>2. pipe \in Seq(LineType)
  BY DEF DataInv
<1>3. Head(pipe) \in LineType /\ pipe' \in Seq(LineType) /\ Len(pipe') = Len(pipe) - 1
  BY <1>1, <1>2
<1>4. captured' \in [found : BOOLEAN, truncated : BOOLEAN, line : MessageType]
  <2>1. captured \in [found : BOOLEAN, truncated : BOOLEAN, line : MessageType]
    BY DEF DataInv
  <2>2. Head(pipe).payload \in MessageType
    BY <1>3 DEF LineType, MessageType
  <2> QED BY <1>1, <2>1, <2>2 DEF CompleteLine
<1>5. TypeOK'
  BY <1>1 DEF TypeOK
<1>6. DataInv'
  BY <1>1, <1>3, <1>4 DEF DataInv
<1>7. CountInv'
  BY <1>1, <1>2, <1>3 DEF CountInv, DataInv
<1>8. CopierInv'
  BY <1>1 DEF CopierInv
<1>9. ReapInv'
  BY <1>1 DEF ReapInv
<1>10. ReportIsFaithful'
  BY <1>1 DEF ReportIsFaithful
<1> QED BY <1>5, <1>6, <1>7, <1>8, <1>9, <1>10

(* The copy ends at EOF, or with an error that is kept. *)
LEMMA CopyEndsStep == IInv /\ pc # "exited" /\ CopyEnds => IInv'
<1> SUFFICES ASSUME IInv, pc # "exited", CopyEnds PROVE IInv'
  OBVIOUS
<1> USE DEF IInv
<1>1. /\ UNCHANGED <<format, process, exitStatus, pc, message, exitCode>>
      /\ UNCHANGED <<pipe, written, captured, seen, forwarder, signals, sent, signalled>>
  BY DEF CopyEnds, child, output, signalling
<1>2. \/ /\ copier = "reading" /\ pipe = <<>>
         /\ \A p \in Processes : Running(p) => ~process[p].holdsPipe
         /\ copier' = "ended" /\ errors' = errors
      \/ /\ copier = "closed" /\ copier' = "failed" /\ errors' = errors \cup {"read"}
  BY DEF CopyEnds
<1>3. TypeOK'
  BY <1>1, <1>2 DEF TypeOK
<1>4. DataInv' /\ CountInv'
  BY <1>1 DEF DataInv, CountInv
<1>5. CopierInv'
  BY <1>1, <1>2 DEF CopierInv, Running
<1>6. ReapInv'
  BY <1>1, <1>2 DEF ReapInv
<1>7. ReportIsFaithful'
  BY <1>1 DEF ReportIsFaithful
<1> QED BY <1>3, <1>4, <1>5, <1>6, <1>7

(* Forwarding touches neither the output nor a process. *)
LEMMA ForwardStep == IInv /\ pc # "exited" /\ Forward => IInv'
<1> SUFFICES ASSUME IInv, pc # "exited", Forward PROVE IInv'
  OBVIOUS
<1> USE DEF IInv
<1>1. /\ UNCHANGED <<format, process, exitStatus, pc, message, exitCode>>
      /\ UNCHANGED <<pipe, written, captured, seen, copier, sent>>
      /\ errors' = errors \/ errors' = errors \cup {"signal"}
      /\ forwarder' = forwarder \/ forwarder' = "ended"
      /\ signals' = signals \/ (signals # <<>> /\ signals' = Tail(signals))
  <2>1. CASE ForwardSignal
    BY <2>1 DEF ForwardSignal, child, output, capturing
  <2>2. CASE StopForwarding
    BY <2>2 DEF StopForwarding, child, output, capturing
  <2> QED BY <2>1, <2>2 DEF Forward
<1>2. signals \in Seq({"TERM"}) /\ Len(signals) <= ChannelSize
  BY DEF DataInv, TypeOK
<1>3. signals' \in Seq({"TERM"}) /\ Len(signals') <= ChannelSize
  BY <1>1, <1>2 DEF ChannelSize
<1>4. TypeOK'
  <2>1. errors' \subseteq {"log", "signal", "kill", "reap", "read"}
    BY <1>1 DEF TypeOK
  <2>2. forwarder' \in {"off", "selecting", "ended"}
    BY <1>1 DEF TypeOK
  <2>3. /\ UNCHANGED <<process, exitStatus, copier, sent, exitCode>>
        /\ Len(signals') <= ChannelSize
    BY <1>1, <1>3
  <2> QED BY <2>1, <2>2, <2>3 DEF TypeOK
<1>5. DataInv' /\ CountInv'
  BY <1>1, <1>3 DEF DataInv, CountInv
<1>6. CopierInv'
  BY <1>1 DEF CopierInv, Running
<1>7. ReapInv'
  BY <1>1 DEF ReapInv
<1>8. ReportIsFaithful'
  BY <1>1 DEF ReportIsFaithful
<1> QED BY <1>4, <1>5, <1>6, <1>7, <1>8

-----------------------------------------------------------------------------
(* The supervisor *)

(* An exit before the start has a code of the reporter. *)
LEMMA ExitBeforeStartStep ==
    IInv /\ pc # "exited" /\ (ConfigFails \/ StartFails) => IInv'
<1> SUFFICES ASSUME IInv, pc # "exited", ConfigFails \/ StartFails PROVE IInv'
  OBVIOUS
<1> USE DEF IInv
<1>1. /\ UNCHANGED <<format, process, exitStatus, errors>>
      /\ UNCHANGED <<pipe, written, captured, seen, copier>>
      /\ UNCHANGED <<forwarder, signals, sent, signalled>>
      /\ pc' = "exited" /\ exitCode' \in {ReporterFailure, ChildStartFailure}
  <2>1. CASE ConfigFails
    BY <2>1 DEF ConfigFails, child, output, capturing, signalling
  <2>2. CASE StartFails
    <3>1. PICK code \in {ReporterFailure, ChildStartFailure} :
             Exit(FailureEnvelope, code, code)
      BY <2>2, Zenon DEF StartFails
    <3>2. pc' = "exited" /\ exitCode' = code
      BY <3>1 DEF Exit
    <3>3. /\ UNCHANGED <<format, process, exitStatus, errors>>
          /\ UNCHANGED <<pipe, written, captured, seen, copier>>
          /\ UNCHANGED <<forwarder, signals, sent, signalled>>
      BY <2>2 DEF StartFails, child, output, capturing, signalling
    <3> QED BY <3>2, <3>3
  <2> QED BY <2>1, <2>2
<1>2. TypeOK'
  BY <1>1 DEF TypeOK
<1>3. DataInv' /\ CountInv'
  BY <1>1 DEF DataInv, CountInv
<1>4. CopierInv' /\ ReapInv' /\ ReportIsFaithful'
  BY <1>1 DEF CopierInv, ReapInv, ReportIsFaithful, Running
<1> QED BY <1>2, <1>3, <1>4

(* The start makes the agent a running process, and the copy read. *)
LEMMA StartChildStep == IInv /\ pc # "exited" /\ StartChild => IInv'
<1> SUFFICES ASSUME IInv, pc # "exited", StartChild PROVE IInv'
  OBVIOUS
<1> USE DEF IInv
<1>1. /\ UNCHANGED <<format, exitStatus, pipe, written, captured, seen>>
      /\ UNCHANGED <<signals, sent, signalled, errors, message, exitCode>>
      /\ pc' = "wait" /\ copier' = "reading" /\ forwarder' = "selecting"
      /\ process' = [process EXCEPT ![Main] = [state |-> "alive", inGroup |-> TRUE,
                                               holdsPipe |-> TRUE]]
  BY DEF StartChild, output
<1>2. process' \in [Processes -> ProcessType]
  BY <1>1 DEF TypeOK, ProcessType
<1>3. TypeOK'
  BY <1>1, <1>2 DEF TypeOK
<1>4. DataInv' /\ CountInv'
  BY <1>1 DEF DataInv, CountInv
<1>5. CopierInv' /\ ReapInv' /\ ReportIsFaithful'
  BY <1>1 DEF CopierInv, ReapInv, ReportIsFaithful
<1> QED BY <1>3, <1>4, <1>5

(* Reaping takes zombies only, which hold nothing open. *)
LEMMA WaitStep == IInv /\ pc # "exited" /\ (WaitForMainProcess \/ ReapOne) => IInv'
<1> SUFFICES ASSUME IInv, pc # "exited", WaitForMainProcess \/ ReapOne PROVE IInv'
  OBVIOUS
<1> USE DEF IInv
<1>1. /\ UNCHANGED <<format, exitStatus, pipe, written, captured, seen, copier>>
      /\ UNCHANGED <<forwarder, signals, sent, signalled, errors, message, exitCode>>
      /\ pc \in {"wait", "reap"} /\ pc' \in {"wait", "join", "reap"}
  BY DEF WaitForMainProcess, ReapOne, output, capturing, signalling
<1>2. PICK p \in Processes : /\ process[p].state = "zombie"
                             /\ process' = [process EXCEPT ![p].state = "reaped"]
  BY Zenon DEF WaitForMainProcess, ReapOne, Processes
<1>3. /\ process' \in [Processes -> ProcessType]
      /\ process'[p].state = "reaped"
      /\ \A q \in Processes \ {p} : process'[q] = process[q]
  BY <1>2 DEF TypeOK, ProcessType
<1>4. TypeOK'
  BY <1>1, <1>3 DEF TypeOK
<1>5. DataInv' /\ CountInv'
  BY <1>1 DEF DataInv, CountInv
<1>6. CopierInv'
  BY <1>1, <1>3 DEF CopierInv, Running
<1>7. ReapInv' /\ ReportIsFaithful'
  BY <1>1 DEF ReapInv, ReportIsFaithful
<1> QED BY <1>4, <1>5, <1>6, <1>7

(* A killed process runs until it ends, and holds what it held. *)
LEMMA CleanupStep == IInv /\ pc # "exited" /\ CleanupProcessGroup => IInv'
<1> SUFFICES ASSUME IInv, pc # "exited", CleanupProcessGroup PROVE IInv'
  OBVIOUS
<1> USE DEF IInv
<1>1. /\ UNCHANGED <<format, exitStatus, pipe, written, captured, seen, copier>>
      /\ UNCHANGED <<forwarder, signals, sent, signalled, message, exitCode>>
      /\ pc' = "reap"
      /\ errors' = errors \/ errors' = errors \cup {"kill"}
  BY DEF CleanupProcessGroup, output, capturing, signalling
<1>2. \/ process' = process
      \/ process' = [p \in Processes |->
            IF process[p].state = "alive" /\ process[p].inGroup
            THEN [process[p] EXCEPT !.state = "killed"] ELSE process[p]]
  BY DEF CleanupProcessGroup
<1>3. /\ process' \in [Processes -> ProcessType]
      /\ \A q \in Processes : /\ Running(q)' <=> Running(q)
                              /\ process'[q].holdsPipe = process[q].holdsPipe
  <2>1. process \in [Processes -> ProcessType]
    BY DEF TypeOK
  <2> QED BY <1>2, <2>1 DEF ProcessType, Running
<1>4. TypeOK'
  BY <1>1, <1>3 DEF TypeOK
<1>5. DataInv' /\ CountInv'
  BY <1>1 DEF DataInv, CountInv
<1>6. CopierInv'
  BY <1>1, <1>3 DEF CopierInv
<1>7. ReapInv' /\ ReportIsFaithful'
  BY <1>1 DEF ReapInv, ReportIsFaithful
<1> QED BY <1>4, <1>5, <1>6, <1>7

(* Without an error the loop ended because there was no child left. *)
LEMMA ReapEndsStep == IInv /\ pc # "exited" /\ ReapEnds => IInv'
<1> SUFFICES ASSUME IInv, pc # "exited", ReapEnds PROVE IInv'
  OBVIOUS
<1> USE DEF IInv
<1>1. /\ UNCHANGED <<format, process, exitStatus, pipe, written, captured, seen>>
      /\ UNCHANGED <<forwarder, signals, sent, signalled, message, exitCode>>
      /\ pc' = "copies"
  BY DEF ReapEnds, child, output, signalling
<1>2. \/ /\ \A p \in Processes : process[p].state \in {"unborn", "reaped"}
         /\ errors' = errors
      \/ errors' = errors \cup {"reap"}
  BY DEF ReapEnds
<1>3. copier' = copier \/ copier' = "closed"
  BY DEF ReapEnds, ClosePipes
<1>4. TypeOK'
  BY <1>1, <1>2, <1>3 DEF TypeOK
<1>5. DataInv' /\ CountInv'
  BY <1>1 DEF DataInv, CountInv
<1>6. CopierInv'
  BY <1>1, <1>2, <1>3 DEF CopierInv, Running
<1>7. ReapInv'
  BY <1>1, <1>2 DEF ReapInv
<1>8. ReportIsFaithful'
  BY <1>1 DEF ReportIsFaithful
<1> QED BY <1>4, <1>5, <1>6, <1>7, <1>8

(* The exit: with no error the copy ended at EOF with every process gone, so *)
(* nothing is left in the pipe and the envelope is of all that was written.  *)
LEMMA ReportStep == IInv /\ pc # "exited" /\ Report => IInv'
<1> SUFFICES ASSUME IInv, pc # "exited", Report PROVE IInv'
  OBVIOUS
<1> USE DEF IInv
<1>1. /\ UNCHANGED <<format, process, exitStatus, errors>>
      /\ UNCHANGED <<pipe, written, captured, seen, copier>>
      /\ UNCHANGED <<forwarder, signals, sent, signalled>>
      /\ pc = "copies" /\ pc' = "exited" /\ copier \in {"ended", "failed"}
  BY DEF Report, Exit, child, output, capturing, signalling
<1>2. \/ exitCode' = ReporterFailure
      \/ /\ errors = {} /\ exitCode' = exitStatus
         /\ message' = MessageOf(EnvelopeFromCapture)
  BY DEF Report, Exit
<1>3. TypeOK'
  BY <1>1, <1>2 DEF TypeOK
<1>4. DataInv' /\ CountInv'
  BY <1>1 DEF DataInv, CountInv
<1>5. CopierInv' /\ ReapInv'
  BY <1>1 DEF CopierInv, ReapInv, Running
<1>6. ReportIsFaithful'
  <2>1. CASE exitCode' = ReporterFailure
    BY <2>1 DEF ReportIsFaithful
  <2>2. CASE /\ errors = {} /\ exitCode' = exitStatus
             /\ message' = MessageOf(EnvelopeFromCapture)
    <3> DEFINE Claimed == /\ exitStatus = 0
                          /\ format = "kontext-envelope" =>
                                /\ captured.found /\ ~captured.truncated
                                /\ captured.line.kind = "envelope"
                                /\ Valid(captured.line.envelope)
                                /\ captured.line.envelope.outcome = "Succeeded"
    <3>1. \A p \in Processes : ~Running(p)
      BY <1>1, <2>2 DEF ReapInv, Running
    <3>2. copier = "ended" /\ pipe = <<>>
      BY <1>1, <2>2 DEF CopierInv
    <3>3. seen = written
      BY <3>2 DEF CountInv, DataInv
    <3>4. /\ EnvelopeFromCapture \in EnvelopeType /\ Valid(EnvelopeFromCapture)
          /\ EnvelopeFromCapture.outcome = "Succeeded" <=> Claimed
      BY CaptureEnvelope
    <3>5. /\ message'.bytes <= MaxMessageBytes /\ Parse(message').ok
          /\ message'.envelope.outcome = "Succeeded" <=> Claimed
      <4> HIDE DEF Claimed
      <4> QED BY <2>2, <3>4, MessageOfValid
    <3>6. Claimed' <=> Claimed
      BY <1>1
    <3>7. errors' = {} /\ (\A p \in Processes : ~Running(p)')
      BY <1>1, <2>2, <3>1 DEF Running
    <3>8. exitCode' = exitStatus' /\ seen' = written'
      BY <1>1, <2>2, <3>3
    <3> QED BY <3>5, <3>6, <3>7, <3>8 DEF ReportIsFaithful
  <2> QED BY <1>2, <2>1, <2>2
<1> QED BY <1>3, <1>4, <1>5, <1>6

-----------------------------------------------------------------------------
(* Theorems *)

(* Nothing changes when nothing happens. *)
LEMMA StutterStep == IInv /\ UNCHANGED vars => IInv'
<1> SUFFICES ASSUME IInv, UNCHANGED vars PROVE IInv'
  OBVIOUS
<1> USE DEF IInv, vars
<1>1. TypeOK' /\ DataInv' /\ CountInv'
  BY DEF TypeOK, DataInv, CountInv
<1>2. CopierInv' /\ ReapInv'
  BY DEF CopierInv, ReapInv, Running
<1>3. ReportIsFaithful'
  BY DEF ReportIsFaithful, Running
<1> QED BY <1>1, <1>2, <1>3

(* Every step preserves the invariant. *)
LEMMA NextIInv == IInv /\ [Next]_vars => IInv'
<1> SUFFICES ASSUME IInv, Next PROVE IInv'
  BY StutterStep
<1>1. pc # "exited" /\ (Supervise \/ Copy \/ Forward \/ Outside)
  BY DEF Next
<1>2. CASE Supervise
  BY <1>1, <1>2, ExitBeforeStartStep, StartChildStep, WaitStep, CleanupStep, ReapEndsStep,
     ReportStep DEF Supervise
<1>3. CASE Copy
  BY <1>1, <1>3, CopyLineStep, CopyEndsStep DEF Copy
<1>4. CASE Forward
  BY <1>1, <1>4, ForwardStep
<1>5. CASE Outside
  BY <1>1, <1>5, ForkStep, LeaveGroupStep, WriteLineStep, SendSignalStep, DieStep DEF Outside
<1> QED BY <1>1, <1>2, <1>3, <1>4, <1>5

(* The invariant holds in every reachable state. *)
THEOREM InvariantHolds == Spec => []IInv
<1>1. Init => IInv
  BY InitIInv
<1>2. IInv /\ [Next]_vars => IInv'
  BY NextIInv
<1> QED BY <1>1, <1>2, PTL DEF Spec

(* Every variable of the reporter keeps its type: the signal channel never   *)
(* holds more than its capacity, and the exit code is the agent's, the one   *)
(* of SIGKILL or one of the reporter's own two (forwardSignals, execute).    *)
THEOREM TypeCorrect == Spec => []TypeOK
<1>1. IInv => TypeOK
  BY DEF IInv
<1> QED BY <1>1, InvariantHolds, PTL

(* For every agent, whatever it and its descendants write, leave open or     *)
(* outlive, and whichever call fails, a normal exit is a faithful report:    *)
(* all processes gone, all output seen, the agent's exit code, and a valid   *)
(* envelope of a permitted size with the right outcome (runReporter,         *)
(* runChild, envelopeFromCapture, Compact).                                  *)
THEOREM ReportFaithful == Spec => []ReportIsFaithful
<1>1. IInv => ReportIsFaithful
  BY DEF IInv
<1> QED BY <1>1, InvariantHolds, PTL
=============================================================================
