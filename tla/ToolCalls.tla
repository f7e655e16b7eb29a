------------------------------ MODULE ToolCalls ------------------------------
(***************************************************************************)
(* What a tool executor promises the engine: calls are taken one at a time, *)
(* each is carried out at most once, whatever fails and however it is       *)
(* reported, and its answer says truly whether it can have been.            *)
(***************************************************************************)
EXTENDS Integers

CONSTANTS
    Calls,        \* numbers of calls
    CarriedOut,   \* answers that mean the call was carried out
    Refused,      \* answers that mean it was not
    Unknown       \* answers that leave it open

VARIABLES
    current,  \* the call being worked on, 0 for none
    sent,     \* how often each call has been given to a tool
    answer    \* the answer to each call, "none" before there is one

vars == <<current, sent, answer>>

Init ==
    /\ current = 0
    /\ sent = [c \in Calls |-> 0]
    /\ answer = [c \in Calls |-> "none"]

Ask(c) ==
    /\ current = 0 /\ answer[c] = "none"
    /\ current' = c
    /\ UNCHANGED <<sent, answer>>

Send ==
    /\ current # 0 /\ sent[current] = 0
    /\ sent' = [sent EXCEPT ![current] = 1]
    /\ UNCHANGED <<current, answer>>

Answer(a) ==
    /\ current # 0
    /\ a \in CarriedOut => sent[current] = 1
    /\ a \in Refused => sent[current] = 0
    /\ answer' = [answer EXCEPT ![current] = a]
    /\ current' = 0
    /\ UNCHANGED sent

Next ==
    \/ \E c \in Calls : Ask(c)
    \/ Send
    \/ \E a \in CarriedOut \cup Refused \cup Unknown : Answer(a)

Spec == Init /\ [][Next]_vars
=============================================================================
