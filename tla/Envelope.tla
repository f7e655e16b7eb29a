------------------------------ MODULE Envelope ------------------------------
(***************************************************************************)
(* The result envelope (pkg/result/v1alpha1): validation, compaction to the *)
(* size of a termination message, and the parsing of a termination message. *)
(* An envelope is a record of the sizes of its parts in bytes, 0 for a part *)
(* that is absent.                                                          *)
(***************************************************************************)
EXTENDS Integers

CONSTANTS
    MaxMessageBytes,  \* MaxTerminationMessageBytes
    BaseBytes,        \* apiVersion, outcome and punctuation
    MarkerBytes,      \* the output that says the output was too long
    ShortErrorBytes,  \* the error left of an error that was too long
    TruncationBytes,  \* the truncation record without flags
    FlagBytes         \* one flag of it

ASSUME EnvelopeAssumption ==
    /\ MaxMessageBytes \in Nat \ {0} /\ BaseBytes \in Nat \ {0} /\ MarkerBytes \in Nat \ {0}
    /\ ShortErrorBytes \in Nat \ {0} /\ TruncationBytes \in Nat \ {0} /\ FlagBytes \in Nat
    \* the smallest envelope Compact makes fits
    /\ BaseBytes + ShortErrorBytes + TruncationBytes + 3 * FlagBytes <= MaxMessageBytes

Parts == {"output", "artifacts", "extensions"}

(* wellFormed stands for what Validate asks of single fields: media type,    *)
(* JSON values, counts that are not negative, names.  truncated says there   *)
(* is a truncation record, lost which flags it has.                          *)
EnvelopeType ==
    [outcome : {"Succeeded", "Failed"}, wellFormed : BOOLEAN,
     output : Nat, marker : BOOLEAN, artifacts : Nat, extensions : Nat,
     usage : Nat, meta : Nat, error : Nat,
     truncated : BOOLEAN, lost : SUBSET Parts]

EmptyEnvelope(outcome, errorBytes) ==
    [outcome |-> outcome, wellFormed |-> TRUE, output |-> 0, marker |-> FALSE,
     artifacts |-> 0, extensions |-> 0, usage |-> 0, meta |-> 0, error |-> errorBytes,
     truncated |-> FALSE, lost |-> {}]

Flags(e) == (IF "output" \in e.lost THEN FlagBytes ELSE 0)
            + (IF "artifacts" \in e.lost THEN FlagBytes ELSE 0)
            + (IF "extensions" \in e.lost THEN FlagBytes ELSE 0)

Size(e) == BaseBytes + e.output + e.artifacts + e.extensions + e.usage + e.meta + e.error
           + (IF e.truncated THEN TruncationBytes + Flags(e) ELSE 0)

Valid(e) == e.wellFormed /\ (e.outcome = "Failed" <=> e.error > 0)

-----------------------------------------------------------------------------
(* Compact *)

Fits(e) == Size(e) <= MaxMessageBytes

DropExtensions(e) == [e EXCEPT !.extensions = 0, !.lost = @ \cup {"extensions"}]
DropArtifacts(e) == [e EXCEPT !.artifacts = 0, !.lost = @ \cup {"artifacts"}]
MarkOutput(e) == [e EXCEPT !.output = MarkerBytes, !.marker = TRUE, !.lost = @ \cup {"output"}]
DropDetails(e) == [e EXCEPT !.error = IF @ > 0 THEN ShortErrorBytes ELSE 0, !.meta = 0]
Minimal(e) == [EmptyEnvelope(e.outcome, IF e.outcome = "Failed" THEN ShortErrorBytes ELSE 0)
                  EXCEPT !.truncated = TRUE, !.lost = e.lost]

(* The parts go one after the other, until the rest fits. *)
Compact(e) ==
    LET e0 == [e EXCEPT !.truncated = TRUE, !.lost = {}]
        e1 == IF e.extensions > 0 THEN DropExtensions(e0) ELSE e0
        e2 == IF e.artifacts > 0 THEN DropArtifacts(e1) ELSE e1
        e3 == IF e.output > 0 THEN MarkOutput(e2) ELSE e2
        e4 == DropDetails(e3)
    IN IF Fits(e) THEN e
       ELSE IF e.extensions > 0 /\ Fits(e1) THEN e1
       ELSE IF e.artifacts > 0 /\ Fits(e2) THEN e2
       ELSE IF e.output > 0 /\ Fits(e3) THEN e3
       ELSE IF Fits(e4) THEN e4
       ELSE Minimal(e4)

-----------------------------------------------------------------------------
(* Parse *)

(* A message is empty, text, a JSON object with the old fields, a JSON       *)
(* object without any known field, something that only starts like JSON, or  *)
(* an envelope.                                                              *)
MessageKinds == {"empty", "text", "legacy", "unknown object", "broken", "envelope"}

Parse(message) ==
    CASE message.kind = "empty" ->
            [ok |-> TRUE, versioned |-> FALSE, envelope |-> EmptyEnvelope("Succeeded", 0)]
      [] message.kind = "text" ->
            [ok |-> TRUE, versioned |-> FALSE,
             envelope |-> [EmptyEnvelope("Succeeded", 0) EXCEPT !.output = message.bytes]]
      [] message.kind = "legacy" ->       \* succeeded, even with an error
            [ok |-> TRUE, versioned |-> FALSE,
             envelope |-> [EmptyEnvelope("Succeeded", message.envelope.error) EXCEPT
                              !.output = message.envelope.output,
                              !.usage = message.envelope.usage]]
      [] message.kind = "envelope" ->
            [ok |-> Valid(message.envelope), versioned |-> TRUE,
             envelope |-> message.envelope]
      [] OTHER -> [ok |-> FALSE, versioned |-> FALSE, envelope |-> EmptyEnvelope("Succeeded", 0)]

ParseVersioned(message) == Parse(message).ok /\ Parse(message).versioned
=============================================================================
