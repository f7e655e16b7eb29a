----------------------------- MODULE MCReporter -----------------------------
(* Reporter for TLC: lines of every kind, sized around the two limits. *)
EXTENDS Reporter

Payload(kind, bytes, envelope) == [kind |-> kind, bytes |-> bytes, envelope |-> envelope]

Text(bytes) == [kind |-> "text", bytes |-> bytes,
                payload |-> Payload("text", bytes, EmptyEnvelope("Succeeded", 0))]

Prefixed(e) == [kind |-> "prefixed", bytes |-> Size(e) + 1,
                payload |-> Payload("envelope", Size(e), e)]

NoEnvelope(kind) == [kind |-> "prefixed", bytes |-> 4,
                     payload |-> Payload(kind, 3, EmptyEnvelope("Succeeded", 0))]

Done == [EmptyEnvelope("Succeeded", 0) EXCEPT !.output = 3]

MCLines ==
    {[Text(2) EXCEPT !.kind = "blank"],
     Prefixed(Done),
     [Prefixed(Done) EXCEPT !.bytes = MaxCaptureBytes],
     [Prefixed(Done) EXCEPT !.bytes = MaxCaptureBytes + 1],
     \* too long for a termination message, as a runtime of another make may write it
     Prefixed([Done EXCEPT !.output = 8, !.extensions = 4, !.artifacts = 4]),
     \* compacted by the runtime: as long as a message may be
     Prefixed([Done EXCEPT !.output = 9, !.truncated = TRUE, !.lost = {"extensions"}]),
     Prefixed([EmptyEnvelope("Failed", 2) EXCEPT !.meta = 1]),
     NoEnvelope("legacy")}
=============================================================================
